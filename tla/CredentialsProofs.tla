--------------------------- MODULE CredentialsProofs ---------------------------
(***************************************************************************)
(* However many users, requests and replicas: rows and keys change only at *)
(* the hands of their owners, the trail says which secrets have left, no   *)
(* stale secret is revealed or kept, every internal error has its reason,  *)
(* and all of the server's state keeps its types.                          *)
(***************************************************************************)
EXTENDS RequestsProofs, FiniteSetTheorems

Telling == {"TokenAccessed", "TokenNotFound", "CredentialCreated", "AuditAccessed"}

\* What the handlers rely on in the tables.
TableInv ==
    /\ issued \in Nat
    /\ \A x \in rows : {"id", "user", "secret"} \subseteq DOMAIN x /\ x.secret # NoSecret
    /\ \A k \in keys : {"id", "user", "enabled"} \subseteq DOMAIN k

\* A request has told nothing before it is answered, and holds a copy of a row of its caller.
HandlerInv(r) ==
    /\ DOMAIN req[r] = ReqFields
    /\ req[r].pc # "done" => req[r].status = 0 /\ req[r].got = NoSecret /\ req[r].events \cap Telling = {}
    /\ req[r].pc \in {"new", "limit", "auth", "serve"} => req[r].copy = NoRow
    /\ req[r].pc = "touch" => A(r).op = "reveal" /\ req[r].copy.secret # NoSecret
    /\ req[r].pc = "write" =>
         /\ A(r).op = "save"
         /\ req[r].copy # NoRow => /\ {"id", "user", "secret"} \subseteq DOMAIN req[r].copy
                                   /\ req[r].copy.user = req[r].who
                                   /\ req[r].copy.secret # NoSecret
    /\ req[r].pc = "page" => A(r).op = "audit"

CredInv == /\ load \in DOMAIN Loads
           /\ DOMAIN req = Req
           /\ TableInv
           /\ \A r \in Req : HandlerInv(r)

\* What a step owes.
Kept == CredInv' /\ TrailTells /\ ChangesOwnRows

LEMMA CredInitInv == Init => CredInv
<1> SUFFICES ASSUME Init PROVE CredInv
  OBVIOUS
<1> DEFINE l == Loads[load]
<1>1. l.rows \subseteq Row /\ l.keys \subseteq Key /\ IsFiniteSet(l.rows \cup l.keys)
  BY LoadsAreStates DEF Init, TablesOK
<1>2. rows = l.rows /\ keys = l.keys /\ issued = Cardinality(l.rows \cup l.keys)
  BY DEF Init, RequestInit
<1>3. issued \in Nat
  BY <1>1, <1>2, FS_CardinalityType
<1>4. \A x \in rows : {"id", "user", "secret"} \subseteq DOMAIN x /\ x.secret # NoSecret
  <2> SUFFICES ASSUME NEW x \in Row
               PROVE  {"id", "user", "secret"} \subseteq DOMAIN x /\ x.secret # NoSecret
    BY <1>1, <1>2
  <2>1. x.secret # NoSecret
    BY NoSecretIsNew DEF Row, Secret
  <2> QED BY <2>1 DEF Row
<1>5. \A k \in keys : {"id", "user", "enabled"} \subseteq DOMAIN k
  BY <1>1, <1>2 DEF Key
<1>6. \A r \in Req : HandlerInv(r)
  BY DEF Init, RequestInit, Idle, HandlerInv, ReqFields
<1> QED BY <1>3, <1>4, <1>5, <1>6 DEF CredInv, TableInv, Init, RequestInit

-----------------------------------------------------------------------------
\* The answer of one request says what it has done; the tables are another matter.
Told(r, code, secret, events) ==
    /\ "TokenAccessed" \in events <=> A(r).op = "reveal" /\ secret # NoSecret
    /\ "TokenNotFound" \in events <=> A(r).op = "reveal" /\ code = 404
    /\ "CredentialCreated" \in events <=> issued' # issued
    /\ "AuditAccessed" \in events <=> A(r).op = "audit" /\ code = 200
    /\ code = 403 => "AuthFailed" \in events

LEMMA Answered ==
    ASSUME CredInv, NEW r \in Req, req[r].pc # "done", load' = load, TableInv',
           NEW code, NEW secret, NEW events, Answer(r, code, secret, events),
           Told(r, code, secret, events)
    PROVE  CredInv' /\ TrailTells
<1>1. /\ DOMAIN req' = Req /\ \A q \in Req \ {r} : req'[q] = req[q]
      /\ DOMAIN req'[r] = ReqFields
      /\ req'[r].pc = "done" /\ req'[r].status = code /\ req'[r].got = secret
      /\ req'[r].events = req[r].events \cup events
  BY DEF Answer, Step, With, ReqFields, CredInv, HandlerInv
<1>2. \A q \in Req \ {r} : HandlerInv(q)'
  BY <1>1 DEF CredInv, HandlerInv, A
<1>3. HandlerInv(r)'
  BY <1>1 DEF HandlerInv
<1>4. \A e \in Telling : e \in req'[r].events <=> e \in events
  BY <1>1 DEF CredInv, HandlerInv
<1>5. TrailTells
  BY <1>1, <1>4 DEF TrailTells, Told, Telling, Ends, InFlight
<1> QED BY <1>1, <1>2, <1>3, <1>5 DEF CredInv

LEMMA SameTables ==
    ASSUME CredInv, UNCHANGED tables PROVE TableInv' /\ ChangesOwnRows /\ issued' = issued
  BY DEF CredInv, TableInv, ChangesOwnRows, tables

\* An answer that changes no table and tells nothing.
LEMMA Refused ==
    ASSUME CredInv, NEW r \in Req, req[r].pc # "done", load' = load, UNCHANGED tables,
           NEW code, NEW events, Refuse(r, code, events), events \cap Telling = {},
           code = 404 => A(r).op # "reveal", code = 200 => A(r).op # "audit",
           code = 403 => "AuthFailed" \in events
    PROVE  Kept
<1>1. TableInv' /\ ChangesOwnRows /\ issued' = issued
  BY SameTables
<1>2. Told(r, code, NoSecret, events)
  BY <1>1 DEF Told, Telling
<1> QED BY <1>1, <1>2, Answered DEF Refuse, Kept

\* A request that goes on.
LEMMA Continued ==
    ASSUME CredInv, NEW r \in Req, load' = load, UNCHANGED tables,
           DOMAIN req' = Req, \A q \in Req \ {r} : req'[q] = req[q],
           HandlerInv(r)', req'[r].pc # "done"
    PROVE  Kept
<1>1. TableInv' /\ ChangesOwnRows
  BY SameTables
<1>2. \A q \in Req \ {r} : HandlerInv(q)'
  BY DEF CredInv, HandlerInv, A
<1>3. TrailTells
  BY DEF TrailTells, Ends, InFlight
<1> QED BY <1>1, <1>2, <1>3 DEF Kept, CredInv

-----------------------------------------------------------------------------
LEMMA ArriveKept == ASSUME CredInv, NEW r \in Req, Comes(r) PROVE Kept
<1>1. PICK p, q : Arrive(r, p, q)
  BY DEF Comes
<1>2. /\ DOMAIN req' = Req /\ \A o \in Req \ {r} : req'[o] = req[o]
      /\ HandlerInv(r)' /\ req'[r].pc # "done"
  BY <1>1 DEF Arrive, Step, With, ReqFields, CredInv, HandlerInv
<1> QED BY <1>1, <1>2, Continued DEF Arrive, Comes

\* Whoever is admitted has told nothing yet.
LEMMA AdmitKept ==
    ASSUME CredInv, NEW r \in Req, req[r].pc = "auth", load' = load, UNCHANGED tables,
           NEW user, NEW granted, NEW events, Admit(r, user, granted, events), events \cap Telling = {}
    PROVE  Kept
<1>1. CASE Refuse(r, 403, events \cup {"AuthFailed"})
  BY <1>1, Refused DEF Telling
<1>2. CASE Step(r, [pc |-> "serve", who |-> user, events |-> events])
  <2>1. /\ DOMAIN req' = Req /\ \A o \in Req \ {r} : req'[o] = req[o]
        /\ HandlerInv(r)' /\ req'[r].pc # "done"
    BY <1>2 DEF Step, With, ReqFields, CredInv, HandlerInv
  <2> QED BY <2>1, Continued
<1> QED BY <1>1, <1>2 DEF Admit

LEMMA GateKept ==
    ASSUME CredInv, NEW r \in Req, Limits(r) \/ Authenticate(r), load' = load PROVE Kept
<1> USE DEF tables, Telling
<1>1. CASE Limits(r)
  <2>1. CASE Refuse(r, 429, {}) \/ (A(r).op = "config" /\ Refuse(r, 200, {}))
    BY <1>1, <2>1, Refused DEF Limits
  <2>2. CASE Step(r, [pc |-> "auth"])
    <3>1. /\ DOMAIN req' = Req /\ \A o \in Req \ {r} : req'[o] = req[o]
          /\ HandlerInv(r)' /\ req'[r].pc # "done"
      BY <1>1, <2>2 DEF Limits, Step, With, ReqFields, CredInv, HandlerInv
    <3> QED BY <1>1, <3>1, Continued DEF Limits
  <2> QED BY <1>1, <2>1, <2>2 DEF Limits
<1>2. CASE AuthenticateKey(r)
  <2>1. CASE Refuse(r, 401, {"AuthFailed"})
    BY <1>2, <2>1, Refused DEF AuthenticateKey
  <2>2. ASSUME NEW k, Admit(r, k.user, k.scopes, {"AuthSucceeded"}) PROVE Kept
    BY <1>2, <2>2, AdmitKept DEF AuthenticateKey
  <2> QED BY <1>2, <2>1, <2>2 DEF AuthenticateKey
<1>3. CASE AuthenticateToken(r)
  <2>1. CASE Refuse(r, 503, {}) \/ Refuse(r, 401, {"AuthFailed"}) \/ Refuse(r, 401, {})
    BY <1>3, <2>1, Refused DEF AuthenticateToken
  <2>2. CASE Admit(r, A(r).by.user, VaultScopesFor(A(r).by.client), {})
    BY <1>3, <2>2, AdmitKept DEF AuthenticateToken
  <2> QED BY <1>3, <2>1, <2>2 DEF AuthenticateToken
<1>4. CASE NoCredential(r)
  BY <1>4, Refused DEF NoCredential
<1> QED BY <1>1, <1>2, <1>3, <1>4 DEF Authenticate

-----------------------------------------------------------------------------
\* The handlers that only read.
LEMMA ReadsKept ==
    ASSUME CredInv, NEW r \in Req, load' = load,
           \/ Malformed(r) \/ QueryFails(r) \/ Me(r) \/ Reveal(r) \/ Touch(r) \/ ReadForSave(r)
           \/ List(r) \/ ShapeOnly(r) \/ ListKeys(r) \/ CountTrail(r) \/ PageTrail(r)
    PROVE  Kept
<1> USE DEF tables, Telling
<1>1. CASE Malformed(r) \/ QueryFails(r) \/ Me(r) \/ List(r) \/ ShapeOnly(r) \/ ListKeys(r)
  BY <1>1, Refused DEF Malformed, QueryFails, Me, List, ShapeOnly, ListKeys, Serving
<1>2. CASE Reveal(r)
  <2>1. CASE Refuse(r, 404, {"TokenNotFound"})
    <3>1. Told(r, 404, NoSecret, {"TokenNotFound"}) /\ TableInv' /\ ChangesOwnRows
      BY <1>2, SameTables DEF Told, Reveal, Serving
    <3> QED BY <1>2, <2>1, <3>1, Answered DEF Refuse, Kept, Reveal, Serving
  <2>2. CASE Refuse(r, 500, {})
    BY <1>2, <2>2, Refused DEF Reveal, Serving
  <2>3. ASSUME NEW x \in rows, Step(r, [pc |-> "touch", copy |-> x]) PROVE Kept
    <3>1. /\ DOMAIN req' = Req /\ \A o \in Req \ {r} : req'[o] = req[o]
          /\ HandlerInv(r)' /\ req'[r].pc # "done"
      BY <1>2, <2>3 DEF Reveal, Serving, Step, With, ReqFields, CredInv, HandlerInv, TableInv, A
    <3> QED BY <1>2, <3>1, Continued DEF Reveal
  <2> QED BY <1>2, <2>1, <2>2, <2>3 DEF Reveal, Find
<1>3. CASE Touch(r)
  <2>1. A(r).op = "reveal" /\ req[r].copy.secret # NoSecret
    BY <1>3 DEF Touch, CredInv, HandlerInv
  <2>2. Told(r, 200, req[r].copy.secret, {"TokenAccessed"}) /\ TableInv' /\ ChangesOwnRows
    BY <1>3, <2>1, SameTables DEF Told, Touch
  <2> QED BY <1>3, <2>2, Answered DEF Touch, Kept
<1>4. CASE ReadForSave(r)
  <2>1. CASE Refuse(r, 400, {})
    BY <1>4, <2>1, Refused DEF ReadForSave, Serving
  <2>2. CASE Step(r, [pc |-> "write"])
    <3>1. /\ DOMAIN req' = Req /\ \A o \in Req \ {r} : req'[o] = req[o]
          /\ HandlerInv(r)' /\ req'[r].pc # "done"
      BY <1>4, <2>2 DEF ReadForSave, Serving, Step, With, ReqFields, CredInv, HandlerInv, TableInv, A
    <3> QED BY <1>4, <3>1, Continued DEF ReadForSave
  <2>3. ASSUME NEW x \in Find(A(r).table, req[r].who, A(r).name), Step(r, [pc |-> "write", copy |-> x])
        PROVE  Kept
    <3>1. /\ DOMAIN req' = Req /\ \A o \in Req \ {r} : req'[o] = req[o]
          /\ HandlerInv(r)' /\ req'[r].pc # "done"
      <4>1. /\ {"id", "user", "secret"} \subseteq DOMAIN x /\ x.secret # NoSecret
            /\ x.user = req[r].who /\ A(r).op = "save" /\ req[r].pc = "serve"
        BY <1>4, <2>3 DEF ReadForSave, Serving, CredInv, TableInv, Find
      <4>2. /\ req' = [req EXCEPT ![r] = With(@, [pc |-> "write", copy |-> x])]
            /\ DOMAIN req = Req /\ HandlerInv(r)
        BY <2>3 DEF Step, CredInv
      <4>3. /\ DOMAIN req' = Req /\ \A o \in Req \ {r} : req'[o] = req[o]
            /\ DOMAIN req'[r] = ReqFields
            /\ req'[r].pc = "write" /\ req'[r].copy = x
            /\ \A f \in ReqFields \ {"pc", "copy"} : req'[r][f] = req[r][f]
        BY <4>2 DEF With, ReqFields, HandlerInv
      <4> QED BY <4>1, <4>2, <4>3 DEF HandlerInv, ReqFields, A
    <3> QED BY <1>4, <3>1, Continued DEF ReadForSave
  <2> QED BY <1>4, <2>1, <2>2, <2>3 DEF ReadForSave
<1>5. CASE CountTrail(r)
  <2>1. /\ DOMAIN req' = Req /\ \A o \in Req \ {r} : req'[o] = req[o]
        /\ HandlerInv(r)' /\ req'[r].pc # "done"
    BY <1>5 DEF CountTrail, Serving, Step, With, ReqFields, CredInv, HandlerInv, A
  <2> QED BY <1>5, <2>1, Continued DEF CountTrail
<1>6. CASE PageTrail(r)
  <2>1. Told(r, 200, NoSecret, {"AuditAccessed"}) /\ TableInv' /\ ChangesOwnRows
    BY <1>6, SameTables DEF Told, PageTrail, CredInv, HandlerInv
  <2> QED BY <1>6, <2>1, Answered DEF PageTrail, Refuse, Kept
<1> QED BY <1>1, <1>2, <1>3, <1>4, <1>5, <1>6

\* What an edited copy and a new row are, whatever their shape.
LEMMA EditedIsOwn ==
    ASSUME CredInv, NEW r \in Req, req[r].pc = "write", req[r].copy # NoRow
    PROVE  /\ {"id", "user", "secret"} \subseteq DOMAIN Edited(r)
           /\ Edited(r).id = req[r].copy.id /\ Edited(r).user = req[r].who
           /\ Edited(r).secret # NoSecret
<1>1. /\ {"id", "user", "secret"} \subseteq DOMAIN req[r].copy
      /\ req[r].copy.user = req[r].who /\ req[r].copy.secret # NoSecret
  BY DEF CredInv, HandlerInv
<1> DEFINE c == IF A(r).secret THEN With(req[r].copy, Sealed(r)) ELSE req[r].copy
<1>2. /\ {"id", "user", "secret"} \subseteq DOMAIN c
      /\ c.id = req[r].copy.id /\ c.user = req[r].who /\ c.secret # NoSecret
  BY <1>1, NoSecretIsNew DEF With, Sealed
<1>3. Edited(r) = With(c, Fields(r))
  BY DEF Edited
<1> HIDE DEF c
<1>4. CASE A(r).table = "api_keys"
  BY <1>2, <1>3, <1>4 DEF With, Fields
<1>5. CASE A(r).table # "api_keys"
  BY <1>2, <1>3, <1>5 DEF With, Fields
<1> QED BY <1>4, <1>5

LEMMA NewRowIsOwn ==
    ASSUME NEW r \in Req
    PROVE  /\ {"id", "user", "secret"} \subseteq DOMAIN NewRow(r)
           /\ NewRow(r).id = issued + 1 /\ NewRow(r).user = req[r].who
           /\ NewRow(r).secret # NoSecret
<1> DEFINE c == With([table |-> A(r).table, id |-> issued + 1, user |-> req[r].who, name |-> A(r).name],
                     Sealed(r))
<1>2. /\ {"id", "user", "secret"} \subseteq DOMAIN c
      /\ c.id = issued + 1 /\ c.user = req[r].who /\ c.secret # NoSecret
  BY NoSecretIsNew DEF With, Sealed
<1>3. NewRow(r) = With(c, Fields(r))
  BY DEF NewRow
<1> HIDE DEF c
<1>4. CASE A(r).table = "api_keys"
  BY <1>2, <1>3, <1>4 DEF With, Fields
<1>5. CASE A(r).table # "api_keys"
  BY <1>2, <1>3, <1>5 DEF With, Fields
<1> QED BY <1>4, <1>5

\* The handlers that write: what they change is their caller's.
LEMMA WritesKept ==
    ASSUME CredInv, NEW r \in Req, load' = load,
           InsertRow(r) \/ UpdateRow(r) \/ Remove(r) \/ NewKey(r) \/ SetKeyEnabled(r) \/ RemoveKey(r)
    PROVE  Kept
<1> USE DEF Telling
<1>0. /\ A(r).op \in Writes /\ InFlight(r) /\ req[r].pc # "done"
      /\ issued \in Nat /\ issued + 1 \in Nat /\ issued + 1 # issued /\ issued + 1 > issued
  BY DEF InsertRow, UpdateRow, Remove, NewKey, SetKeyEnabled, RemoveKey, Serving, Writes, InFlight,
         CredInv, HandlerInv, TableInv
<1>1. ASSUME NEW code, NEW secret, NEW events, Answer(r, code, secret, events), TableInv',
             Told(r, code, secret, events),
             \A x \in (rows \ rows') \cup (rows' \ rows) \cup (keys \ keys') \cup (keys' \ keys) :
               x.user = req[r].who,
             \A x \in rows' \cup keys' : x.id > issued \/ x.id \in {y.id : y \in rows \cup keys}
      PROVE  Kept
  <2>1. CredInv' /\ TrailTells
    BY <1>0, <1>1, Answered
  <2>2. Ends(r)
    BY <1>0, <1>1 DEF Ends, Answer, Step, With, ReqFields, CredInv, HandlerInv
  <2> QED BY <1>0, <1>1, <2>1, <2>2 DEF Kept, ChangesOwnRows
<1>2. ASSUME NEW code, Refuse(r, code, {}), code # 403, issued' = issued PROVE Told(r, code, NoSecret, {})
  BY <1>0, <1>2 DEF Told, Writes
<1>3. CASE InsertRow(r)
  <2>1. A(r).op = "save"
    BY <1>3 DEF InsertRow, CredInv, HandlerInv
  <2>2. CASE Refuse(r, 500, {}) /\ UNCHANGED tables
    BY <1>0, <2>1, <2>2, Refused
  <2>3. CASE /\ rows' = rows \cup {NewRow(r)} /\ issued' = issued + 1 /\ UNCHANGED keys
             /\ Refuse(r, 200, {"CredentialCreated"})
    <3>1. Told(r, 200, NoSecret, {"CredentialCreated"})
      BY <1>0, <2>1, <2>3 DEF Told
    <3>2. TableInv'
      BY <1>0, <2>3, NewRowIsOwn DEF CredInv, TableInv
    <3> QED BY <1>0, <1>1, <2>3, <3>1, <3>2, NewRowIsOwn DEF Refuse
  <2> QED BY <1>3, <2>2, <2>3 DEF InsertRow
<1>4. CASE UpdateRow(r)
  <2>1. /\ rows' = {IF x.id = req[r].copy.id /\ x.user = req[r].who THEN Edited(r) ELSE x : x \in rows}
        /\ UNCHANGED <<keys, issued>> /\ Refuse(r, 200, {})
    BY <1>4 DEF UpdateRow
  <2>2. /\ {"id", "user", "secret"} \subseteq DOMAIN Edited(r)
        /\ Edited(r).id = req[r].copy.id /\ Edited(r).user = req[r].who
        /\ Edited(r).secret # NoSecret
    BY <1>4, EditedIsOwn DEF UpdateRow
  <2>3. TableInv'
    BY <2>1, <2>2 DEF CredInv, TableInv
  <2>4. \A x \in (rows \ rows') \cup (rows' \ rows) : x.user = req[r].who
    BY <2>1, <2>2
  <2>5. \A x \in rows' \cup keys' : x.id \in {y.id : y \in rows \cup keys}
    BY <2>1, <2>2
  <2> QED BY <1>1, <1>2, <2>1, <2>3, <2>4, <2>5 DEF Refuse
<1>5. CASE Remove(r)
  <2>1. /\ rows' = rows \ {x \in Own(A(r).table, req[r].who) : x.id = A(r).id}
        /\ UNCHANGED <<keys, issued>>
    BY <1>5 DEF Remove
  <2>2. PICK code : Refuse(r, code, {}) /\ code # 403
    BY <1>5 DEF Remove
  <2>3. TableInv'
    BY <2>1 DEF CredInv, TableInv
  <2>4. \A x \in (rows \ rows') \cup (rows' \ rows) : x.user = req[r].who
    BY <2>1 DEF Own
  <2> QED BY <1>1, <1>2, <2>1, <2>2, <2>3, <2>4 DEF Refuse
<1>6. CASE NewKey(r)
  <2>1. A(r).op = "newKey"
    BY <1>6 DEF NewKey, Serving
  <2>2. CASE (Refuse(r, 400, {}) \/ Refuse(r, 500, {})) /\ UNCHANGED tables
    BY <1>0, <2>1, <2>2, Refused
  <2>3. ASSUME NEW scopes,
               keys' = keys \cup {[id |-> issued + 1, user |-> req[r].who, name |-> A(r).name,
                                   scopes |-> scopes, enabled |-> TRUE]},
               issued' = issued + 1, UNCHANGED rows, Answer(r, 200, r, {"CredentialCreated"})
        PROVE  Kept
    <3>1. Told(r, 200, r, {"CredentialCreated"})
      BY <1>0, <2>1, <2>3 DEF Told
    <3>2. TableInv'
      BY <1>0, <2>3 DEF CredInv, TableInv
    <3> QED BY <1>0, <1>1, <2>3, <3>1, <3>2
  <2> QED BY <1>6, <2>2, <2>3 DEF NewKey
<1>7. CASE SetKeyEnabled(r)
  <2>1. /\ keys' = (keys \ OwnKey(r)) \cup {[k EXCEPT !.enabled = A(r).enabled] : k \in OwnKey(r)}
        /\ UNCHANGED <<rows, issued>>
    BY <1>7 DEF SetKeyEnabled
  <2>2. PICK code : Refuse(r, code, {}) /\ code # 403
    BY <1>7 DEF SetKeyEnabled
  <2>3. \A k \in OwnKey(r) : k \in keys /\ k.user = req[r].who /\ {"id", "user", "enabled"} \subseteq DOMAIN k
    BY DEF OwnKey, CredInv, TableInv
  <2>4. \A k \in OwnKey(r) : LET e == [k EXCEPT !.enabled = A(r).enabled]
                             IN  e.id = k.id /\ e.user = k.user /\ DOMAIN e = DOMAIN k
    BY <2>3
  <2>5. TableInv'
    BY <2>1, <2>3, <2>4 DEF CredInv, TableInv
  <2>6. \A x \in (keys \ keys') \cup (keys' \ keys) : x.user = req[r].who
    BY <2>1, <2>3, <2>4
  <2>7. \A x \in rows' \cup keys' : x.id \in {y.id : y \in rows \cup keys}
    BY <2>1, <2>3, <2>4
  <2> QED BY <1>1, <1>2, <2>1, <2>2, <2>5, <2>6, <2>7 DEF Refuse
<1>8. CASE RemoveKey(r)
  <2>1. keys' = keys \ OwnKey(r) /\ UNCHANGED <<rows, issued>>
    BY <1>8 DEF RemoveKey
  <2>2. PICK code : Refuse(r, code, {}) /\ code # 403
    BY <1>8 DEF RemoveKey
  <2>3. TableInv'
    BY <2>1 DEF CredInv, TableInv
  <2>4. \A x \in (keys \ keys') \cup (keys' \ keys) : x.user = req[r].who
    BY <2>1 DEF OwnKey
  <2> QED BY <1>1, <1>2, <2>1, <2>2, <2>3, <2>4 DEF Refuse
<1> QED BY <1>3, <1>4, <1>5, <1>6, <1>7, <1>8

-----------------------------------------------------------------------------
\* A killed process ends its requests, which then have told nothing.
LEMMA KilledKept == ASSUME CredInv, NEW p \in Replica, Killed(p) PROVE Kept
<1>1. /\ DOMAIN req' = Req /\ UNCHANGED <<load, tables>>
      /\ \A r \in Req : req'[r] = IF InFlight(r) /\ req[r].at = p
                                    THEN [req[r] EXCEPT !.pc = "done", !.copy = NoRow]
                                    ELSE req[r]
  BY DEF Killed, CutOff
<1>2. TableInv' /\ ChangesOwnRows /\ issued' = issued
  BY <1>1, SameTables
<1>3. ASSUME NEW r \in Req
      PROVE  /\ HandlerInv(r)'
             /\ Ends(r) => /\ req'[r].status = 0 /\ req'[r].got = NoSecret
                           /\ req'[r].events \cap Telling = {}
  <2>0. HandlerInv(r)
    BY DEF CredInv
  <2>1. CASE InFlight(r) /\ req[r].at = p
    BY <1>1, <2>0, <2>1 DEF HandlerInv, ReqFields, InFlight
  <2>2. CASE ~(InFlight(r) /\ req[r].at = p)
    BY <1>1, <2>0, <2>2 DEF HandlerInv, Ends, InFlight, A
  <2> QED BY <2>1, <2>2
<1>4. TrailTells
  BY <1>2, <1>3 DEF TrailTells, Telling
<1> QED BY <1>1, <1>2, <1>3, <1>4 DEF Kept, CredInv

LEMMA OtherKept == ASSUME CredInv, UNCHANGED <<load, reqVars>> PROVE Kept
<1>1. UNCHANGED <<load, req, tables>>
  BY DEF reqVars
<1>2. TableInv' /\ ChangesOwnRows
  BY <1>1, SameTables
<1>3. \A r \in Req : HandlerInv(r)'
  BY <1>1 DEF CredInv, HandlerInv, A
<1>4. TrailTells
  BY <1>1 DEF TrailTells, Ends, InFlight
<1> QED BY <1>1, <1>2, <1>3, <1>4 DEF Kept, CredInv

LEMMA CredStep ==
    CredInv /\ [Next]_vars => CredInv' /\ [TrailTells]_reqVars /\ [ChangesOwnRows]_reqVars
<1> SUFFICES ASSUME CredInv, [Next]_vars PROVE Kept
  BY DEF Kept
<1>1. ASSUME NEW p \in Replica, Starts(p) \/ Retries(p) \/ Sweeping(p) \/ Settles(p) PROVE Kept
  BY <1>1, OtherKept DEF Starts, Retries, Sweeping, Settles
<1>2. ASSUME NEW p \in Replica, Killed(p) PROVE Kept
  BY <1>2, KilledKept
<1>3. CASE Surroundings \/ Time \/ Trailing \/ UNCHANGED vars
  BY <1>3, OtherKept DEF Surroundings, Time, Trailing, vars
<1>4. ASSUME NEW r \in Req, Comes(r) PROVE Kept
  BY <1>4, ArriveKept
<1>5. ASSUME NEW r \in Req, Serves(r) PROVE Kept
  BY <1>5, GateKept, ReadsKept, WritesKept DEF Serves, Handle
<1> QED BY <1>1, <1>2, <1>3, <1>4, <1>5 DEF Next

-----------------------------------------------------------------------------
\* The statements of the services (postgres.go, WHERE user_id) under whatever interleaving of any
\* users' requests, crashes and failures: nobody's row or key is changed by another user's
\* request or by one that may not write, and none that was deleted comes back.
THEOREM OwnersOnly == Spec => OnlyOwnRows
  BY CredInitInv, CredStep, PTL DEF Spec, OnlyOwnRows

\* The events of the services and of the middleware (apikey.go:175-198, accesskey.go, middleware.go):
\* whatever fails in between, no secret leaves without its event and no event tells of what
\* has not been done.
THEOREM TheTrailTells == Spec => SecretsAreAudited
  BY CredInitInv, CredStep, PTL DEF Spec, SecretsAreAudited
-----------------------------------------------------------------------------
(* What is written: the rows and their types, for every kind of request. *)

ApiFields == {"table", "id", "user", "name", "secret", "kek", "shape"}
ConfigFields == {"table", "id", "user", "name", "secret", "kek", "idKek"}

\* A credential under way: it has every field but the last, or that one as well.
Drafted(x, last) ==
    /\ DOMAIN x \cup {last} = {"table", "id", "user", "name", "secret", "kek", last}
    /\ {"table", "id", "user", "name", "secret", "kek"} \subseteq DOMAIN x
    /\ x.id \in Nat /\ x.user \in User /\ x.name \in Name /\ x.secret \in Secret /\ x.kek \in Kek

SameName(x, y) == x.table = y.table /\ x.user = y.user /\ x.name = y.name

LEMMA ApiRow ==
    ASSUME NEW x, Drafted(x, "shape"), x.table = "api_keys", NEW h \in Shape
    PROVE  LET y == With(x, [shape |-> h])
           IN  /\ y \in Row /\ y.shape = h /\ SameName(x, y)
               /\ y.id = x.id /\ y.secret = x.secret /\ y.kek = x.kek
<1> DEFINE c == [shape |-> h]
           y == With(x, c)
<1>1. DOMAIN c = {"shape"} /\ c.shape = h
  OBVIOUS
<1> HIDE DEF c
<1>2. y = [f \in ApiFields |-> IF f = "shape" THEN c[f] ELSE x[f]]
  BY <1>1 DEF With, Drafted, ApiFields
<1>3. y \in [table : {"api_keys"}, id : Nat, user : User, name : Name, secret : Secret, kek : Kek, shape : Shape]
  BY <1>1, <1>2 DEF ApiFields, Drafted
<1>4. /\ y \in Row /\ y.shape = h /\ SameName(x, y)
      /\ y.id = x.id /\ y.secret = x.secret /\ y.kek = x.kek
  BY <1>1, <1>2, <1>3 DEF Row, ApiFields, SameName
<1> QED BY <1>4 DEF c

LEMMA ConfigRow ==
    ASSUME NEW x, Drafted(x, "idKek"), x.table = "configs", NEW k \in Kek
    PROVE  LET y == With(x, [idKek |-> k])
           IN  /\ y \in Row /\ SameName(x, y)
               /\ y.id = x.id /\ y.secret = x.secret /\ y.kek = x.kek
<1> DEFINE c == [idKek |-> k]
           y == With(x, c)
<1>1. DOMAIN c = {"idKek"} /\ c.idKek = k
  OBVIOUS
<1> HIDE DEF c
<1>2. y = [f \in ConfigFields |-> IF f = "idKek" THEN c[f] ELSE x[f]]
  BY <1>1 DEF With, Drafted, ConfigFields
<1>3. y \in [table : {"configs"}, id : Nat, user : User, name : Name, secret : Secret, kek : Kek, idKek : Kek]
  BY <1>1, <1>2 DEF ConfigFields, Drafted
<1>4. /\ y \in Row /\ SameName(x, y)
      /\ y.id = x.id /\ y.secret = x.secret /\ y.kek = x.kek
  BY <1>1, <1>2, <1>3 DEF Row, ConfigFields, SameName
<1> QED BY <1>4 DEF c

LastField(t) == IF t = "api_keys" THEN "shape" ELSE "idKek"

\* A row that is sealed again is a draft.
LEMMA RowIsDraft == ASSUME NEW x \in Row PROVE Drafted(x, LastField(x.table)) /\ x.table \in Table
<1>1. CASE x \in [table : {"api_keys"}, id : Nat, user : User, name : Name, secret : Secret, kek : Kek, shape : Shape]
  BY <1>1 DEF Drafted, LastField, Table
<1>2. CASE x \in [table : {"configs"}, id : Nat, user : User, name : Name, secret : Secret, kek : Kek, idKek : Kek]
  BY <1>2 DEF Drafted, LastField, Table
<1> QED BY <1>1, <1>2 DEF Row

LEMMA SealedDraft ==
    ASSUME NEW x, NEW last \in {"shape", "idKek"},
           {"table", "id", "user", "name"} \subseteq DOMAIN x,
           DOMAIN x \subseteq {"table", "id", "user", "name", "secret", "kek", last},
           x.id \in Nat, x.user \in User, x.name \in Name, NEW s \in Secret, NEW k \in Kek
    PROVE  LET y == With(x, [secret |-> s, kek |-> k])
           IN  Drafted(y, last) /\ SameName(x, y) /\ y.id = x.id
<1> DEFINE c == [secret |-> s, kek |-> k]
           y == With(x, c)
<1>1. DOMAIN c = {"secret", "kek"} /\ c.secret = s /\ c.kek = k
  OBVIOUS
<1> HIDE DEF c
<1>2. Drafted(y, last) /\ SameName(x, y) /\ y.id = x.id
  BY <1>1 DEF With, Drafted, SameName
<1> QED BY <1>2 DEF c

LEMMA ShapeTyped ==
    ASSUME NEW q \in Ask, q.login # "colon" PROVE ShapeOf(q) \in Shape /\ ShapeOK(ShapeOf(q))
<1>0. q.kind \in Kind /\ q.login \in {"none", "given"} /\ q.header \in BOOLEAN
  BY DEF Ask
<1>1. CASE q.kind = "http_basic"
  BY <1>0, <1>1 DEF ShapeOf, Shape, ShapeOK, Kind
<1>2. CASE q.kind = "header_api_key"
  BY <1>0, <1>2 DEF ShapeOf, Shape, ShapeOK, Kind
<1>3. CASE q.kind = "opaque"
  BY <1>0, <1>3 DEF ShapeOf, Shape, ShapeOK, Kind
<1> QED BY <1>0, <1>1, <1>2, <1>3 DEF Kind

-----------------------------------------------------------------------------
(* The tables, and what requests have seen of them. *)

\* The copy in hand is of a row that was there since the request came, of that table, its
\* caller and the name it asked for.
HoldsCopy(r, t) ==
    LET x == req[r].copy
    IN  x \in sinceRows[r] /\ x.table = t /\ x.user = req[r].who /\ x.name = A(r).name

\* A request in flight has seen whatever the tables hold, and an id keeps its name.
Saw(r) ==
    /\ rows \subseteq sinceRows[r] /\ sinceRows[r] \subseteq Row
    /\ \A y \in sinceRows[r] : y.id <= issued /\ \A x \in rows : x.id = y.id => SameName(x, y)

\* The types of a request, and what it holds when it goes on.
CopyInv(r) ==
    /\ req[r].pc \in {"new", "limit", "auth", "serve", "touch", "write", "page", "done"}
    /\ req[r].who \in User \cup {NoOne} /\ (req[r].pc \in Gated => req[r].who \in User)
    /\ req[r].got \in Secret \cup {NoSecret} /\ req[r].events \subseteq Event
    /\ InFlight(r) => A(r) \in Ask /\ Saw(r)
    /\ req[r].pc \notin {"touch", "write"} => req[r].copy = NoRow
    /\ req[r].pc = "touch" => HoldsCopy(r, "api_keys")
    /\ req[r].pc = "write" => /\ Acceptable(A(r))
                              /\ req[r].copy # NoRow => HoldsCopy(r, A(r).table)

StoreInv == /\ DOMAIN sinceRows = Req
            /\ TablesOK(rows, keys, issued)
            /\ \A r \in Req : CopyInv(r)

\* What the steps below rely on.
Invs == BootInv /\ StartInv /\ GateInv /\ CredInv /\ StoreInv /\ budget \in [Trouble -> Nat]

\* What a step owes.
Owed == StoreInv' /\ RevealsAndKeepsFresh /\ ExplainsErrors

\* What a write makes of the tables: a row is new, or one with the name its id had.
Changes ==
    /\ TablesOK(rows, keys, issued)' /\ issued \in Nat /\ issued' \in Nat /\ issued <= issued'
    /\ \A x \in rows' : x.id > issued \/ \E y \in rows : y.id = x.id /\ SameName(x, y)
    /\ UNCHANGED <<rows, sinceRows, issued>> \/ Witness

LEMMA NoChange ==
    ASSUME Invs, UNCHANGED <<tables, history>> PROVE Changes
  BY DEF Invs, StoreInv, CredInv, TableInv, Changes, tables, history, TablesOK, SameName

LEMMA SawStays ==
    ASSUME StoreInv, Changes, NEW q \in Req, InFlight(q), Saw(q)
    PROVE  Saw(q)' /\ sinceRows[q] \subseteq sinceRows'[q]
<1>1. CASE UNCHANGED <<rows, sinceRows, issued>>
  BY <1>1 DEF Saw, SameName
<1>2. CASE Witness
  <2>1. sinceRows'[q] = sinceRows[q] \cup rows'
    BY <1>2 DEF Witness
  <2>2. /\ \A x \in Row : x.id \in Nat
        /\ issued \in Nat /\ issued' \in Nat /\ issued <= issued'
        /\ rows' \subseteq Row /\ rows \subseteq Row
        /\ \A x \in rows' : x.id <= issued'
        /\ \A x, y \in rows' : x.id = y.id => x = y
    BY DEF Changes, TablesOK, StoreInv, Row
  <2>3. ASSUME NEW y \in sinceRows[q] PROVE y.id <= issued' /\ \A x \in rows' : x.id = y.id => SameName(x, y)
    <3>1. y \in Row /\ y.id <= issued /\ \A x \in rows : x.id = y.id => SameName(x, y)
      BY DEF Saw
    <3>2. ASSUME NEW x \in rows', x.id = y.id PROVE SameName(x, y)
      <4>1. PICK z \in rows : z.id = x.id /\ SameName(x, z)
        BY <2>2, <3>1, <3>2 DEF Changes
      <4> QED BY <3>1, <3>2, <4>1 DEF SameName
    <3> QED BY <2>2, <3>1, <3>2
  <2>4. ASSUME NEW y \in rows' PROVE y.id <= issued' /\ \A x \in rows' : x.id = y.id => SameName(x, y)
    BY <2>2 DEF SameName
  <2>5. sinceRows'[q] \subseteq Row
    BY <2>1, <2>2 DEF Saw
  <2> QED BY <2>1, <2>3, <2>4, <2>5 DEF Saw
<1> QED BY <1>1, <1>2 DEF Changes

\* Another's step leaves a request its copy.
LEMMA OthersCopy ==
    ASSUME StoreInv, Changes, NEW q \in Req, req'[q] = req[q] PROVE CopyInv(q)'
<1>0. CopyInv(q) /\ A(q)' = A(q)
  BY DEF StoreInv, A
<1>1. CASE InFlight(q)
  <2>1. Saw(q)' /\ sinceRows[q] \subseteq sinceRows'[q]
    BY <1>0, <1>1, SawStays DEF CopyInv
  <2> QED BY <1>0, <2>1 DEF CopyInv, InFlight, HoldsCopy
<1>2. CASE ~InFlight(q)
  BY <1>0, <1>2 DEF CopyInv, InFlight, Gated
<1> QED BY <1>1, <1>2

LEMMA StoreGoesOn ==
    ASSUME StoreInv, Changes, NEW r \in Req, \A q \in Req \ {r} : req'[q] = req[q], CopyInv(r)'
    PROVE  StoreInv'
<1>1. \A q \in Req : CopyInv(q)'
  BY OthersCopy
<1>2. DOMAIN sinceRows' = Req
  BY DEF Changes, StoreInv, Witness
<1> QED BY <1>1, <1>2 DEF StoreInv, Changes

\* An answer owes what it reveals, keeps and explains.
LEMMA AnsweredStore ==
    ASSUME Invs, Changes, NEW r \in Req,
           NEW code, NEW secret \in Secret \cup {NoSecret}, NEW events \in SUBSET Event,
           Answer(r, code, secret, events), Fresh(r, secret), code = 500 => Explained(r)
    PROVE  Owed
<1>1. /\ \A q \in Req \ {r} : req'[q] = req[q]
      /\ req'[r].pc = "done" /\ req'[r].status = code /\ req'[r].got = secret
      /\ req'[r].events = req[r].events \cup events
      /\ req'[r].copy = NoRow /\ req'[r].who = req[r].who
  BY DEF Answer, Step, With, ReqFields, Invs, CredInv, HandlerInv
<1>2. CopyInv(r)'
  BY <1>1 DEF CopyInv, InFlight, Gated, Invs, StoreInv
<1>3. StoreInv'
  BY <1>1, <1>2, StoreGoesOn DEF Invs
<1>4. \A q \in Req \ {r} : ~Ends(q)
  BY <1>1 DEF Ends, InFlight
<1>5. RevealsAndKeepsFresh
  BY <1>1, <1>4 DEF RevealsAndKeepsFresh, Fresh
<1>6. ExplainsErrors
  BY <1>1, <1>4 DEF ExplainsErrors, Explained
<1> QED BY <1>3, <1>5, <1>6 DEF Owed

LEMMA RefusedStore ==
    ASSUME Invs, NEW r \in Req, UNCHANGED <<tables, history>>, NEW code, NEW events \in SUBSET Event,
           Refuse(r, code, events), code = 500 => Explained(r)
    PROVE  Owed
<1>1. Changes /\ Fresh(r, NoSecret)
  BY NoChange DEF Fresh, tables
<1> QED BY <1>1, AnsweredStore DEF Refuse

LEMMA ContinuedStore ==
    ASSUME Invs, NEW r \in Req, UNCHANGED <<tables, history>>,
           \A q \in Req \ {r} : req'[q] = req[q], CopyInv(r)', req'[r].pc # "done"
    PROVE  Owed
<1>1. StoreInv'
  BY NoChange, StoreGoesOn DEF Invs
<1>2. \A q \in Req : ~Ends(q)
  BY DEF Ends, InFlight
<1> QED BY <1>1, <1>2 DEF Owed, RevealsAndKeepsFresh, ExplainsErrors

-----------------------------------------------------------------------------
LEMMA RowTyped == ASSUME NEW x \in Row
    PROVE x.id \in Nat /\ x.user \in User /\ x.name \in Name /\ x.secret \in Secret /\ x.kek \in Kek
  BY DEF Row

\* A request that comes has seen the rows of that moment.
LEMMA ArriveStore == ASSUME Invs, NEW r \in Req, Comes(r) PROVE Owed
<1>1. PICK p \in Replica, q \in Ask : Arrive(r, p, q)
  BY AsksAreKnown DEF Invs, BootInv
<1>2. /\ \A o \in Req \ {r} : req'[o] = req[o]
      /\ req'[r].pc = "limit" /\ req'[r].ask = q /\ req'[r].copy = NoRow
      /\ req'[r].who = req[r].who /\ req'[r].got = req[r].got /\ req'[r].events = req[r].events
      /\ req[r].pc = "new"
  BY <1>1 DEF Arrive, Step, With, ReqFields, Invs, CredInv, HandlerInv
<1>3. UNCHANGED <<rows, keys, issued>> /\ sinceRows' = [sinceRows EXCEPT ![r] = rows]
  BY <1>1 DEF Arrive, tables
<1>4. DOMAIN sinceRows' = Req /\ sinceRows'[r] = rows /\ \A o \in Req \ {r} : sinceRows'[o] = sinceRows[o]
  BY <1>3 DEF Invs, StoreInv
<1>5. TablesOK(rows, keys, issued) /\ TablesOK(rows, keys, issued)'
  BY <1>3 DEF Invs, StoreInv, TablesOK
<1>6. Saw(r)'
  BY <1>3, <1>4, <1>5 DEF Saw, TablesOK, SameName
<1>7. CopyInv(r)'
  BY <1>1, <1>2, <1>6 DEF CopyInv, A, InFlight, Gated, Invs, StoreInv
<1>8. ASSUME NEW o \in Req \ {r} PROVE CopyInv(o)'
  BY <1>2, <1>3, <1>4 DEF Invs, StoreInv, CopyInv, InFlight, A, HoldsCopy, Saw
<1>9. \A o \in Req : ~Ends(o)
  BY <1>2 DEF Ends, InFlight
<1> QED BY <1>4, <1>5, <1>7, <1>8, <1>9 DEF Owed, StoreInv, RevealsAndKeepsFresh, ExplainsErrors

LEMMA AdmitStore ==
    ASSUME Invs, NEW r \in Req, req[r].pc = "auth", UNCHANGED <<tables, history>>,
           NEW user \in User, NEW granted, NEW events \in SUBSET Event, Admit(r, user, granted, events)
    PROVE  Owed
<1>1. CASE Refuse(r, 403, events \cup {"AuthFailed"})
  BY <1>1, RefusedStore DEF Event
<1>2. CASE Step(r, [pc |-> "serve", who |-> user, events |-> events])
  <2>1. /\ \A q \in Req \ {r} : req'[q] = req[q]
        /\ req'[r].pc = "serve" /\ req'[r].who = user /\ req'[r].events = events
        /\ req'[r].got = req[r].got /\ req'[r].copy = req[r].copy /\ req'[r].ask = req[r].ask
    BY <1>2 DEF Step, With, ReqFields, Invs, CredInv, HandlerInv
  <2>2. Saw(r)' /\ A(r) \in Ask
    BY SawStays, NoChange DEF Invs, StoreInv, CopyInv, InFlight
  <2>3. CopyInv(r)'
    BY <2>1, <2>2 DEF CopyInv, InFlight, A, Invs, StoreInv
  <2> QED BY <2>1, <2>3, ContinuedStore
<1> QED BY <1>1, <1>2 DEF Admit

LEMMA GateStore == ASSUME Invs, NEW r \in Req, Limits(r) \/ Authenticate(r) PROVE Owed
<1> USE DEF Event
<1>1. CASE Limits(r)
  <2>1. CASE Refuse(r, 429, {}) \/ Refuse(r, 200, {})
    BY <1>1, <2>1, RefusedStore DEF Limits
  <2>2. CASE Step(r, [pc |-> "auth"])
    <3>1. /\ \A q \in Req \ {r} : req'[q] = req[q]
          /\ req'[r].pc = "auth" /\ req'[r].who = req[r].who /\ req'[r].events = req[r].events
          /\ req'[r].got = req[r].got /\ req'[r].copy = req[r].copy /\ req'[r].ask = req[r].ask
      BY <2>2 DEF Step, With, ReqFields, Invs, CredInv, HandlerInv
    <3>2. Saw(r)' /\ A(r) \in Ask /\ CopyInv(r) /\ req[r].pc = "limit"
      BY <1>1, SawStays, NoChange DEF Invs, StoreInv, CopyInv, InFlight, Limits
    <3>3. CopyInv(r)'
      BY <3>1, <3>2 DEF CopyInv, InFlight, A, Gated
    <3> QED BY <1>1, <3>1, <3>3, ContinuedStore DEF Limits
  <2> QED BY <1>1, <2>1, <2>2 DEF Limits
<1>2. CASE AuthenticateKey(r)
  <2>1. CASE Refuse(r, 401, {"AuthFailed"})
    BY <1>2, <2>1, RefusedStore DEF AuthenticateKey
  <2>2. ASSUME NEW k \in UsableKey(r), Admit(r, k.user, k.scopes, {"AuthSucceeded"}) PROVE Owed
    <3>1. k.user \in User
      BY DEF UsableKey, Invs, StoreInv, TablesOK, Key
    <3> QED BY <1>2, <2>2, <3>1, AdmitStore DEF AuthenticateKey
  <2> QED BY <1>2, <2>1, <2>2 DEF AuthenticateKey
<1>3. CASE AuthenticateToken(r)
  <2>1. CASE Refuse(r, 503, {}) \/ Refuse(r, 401, {"AuthFailed"}) \/ Refuse(r, 401, {})
    BY <1>3, <2>1, RefusedStore DEF AuthenticateToken
  <2>2. CASE Admit(r, A(r).by.user, VaultScopesFor(A(r).by.client), {})
    <3>1. A(r) \in Ask /\ A(r).by.type = "token"
      BY <1>3 DEF AuthenticateToken, Invs, StoreInv, CopyInv, InFlight
    <3>2. A(r).by.user \in User
      BY <3>1 DEF Ask, Credential
    <3> QED BY <1>3, <2>2, <3>2, AdmitStore DEF AuthenticateToken
  <2> QED BY <1>3, <2>1, <2>2 DEF AuthenticateToken
<1>4. CASE NoCredential(r)
  BY <1>4, RefusedStore DEF NoCredential
<1> QED BY <1>1, <1>2, <1>3, <1>4 DEF Authenticate

\* A handler goes on with what it holds.
LEMMA HoldingStore ==
    ASSUME Invs, NEW r \in Req, req[r].pc = "serve", UNCHANGED <<tables, history>>,
           NEW pc \in {"touch", "write", "page"}, NEW x,
           pc = "page" => x = NoRow,
           pc = "touch" => x \in Find("api_keys", req[r].who, A(r).name),
           pc = "write" => Acceptable(A(r)) /\ (x # NoRow => x \in Find(A(r).table, req[r].who, A(r).name)),
           (Step(r, [pc |-> pc]) /\ x = NoRow) \/ Step(r, [pc |-> pc, copy |-> x])
    PROVE  Owed
<1>1. /\ \A q \in Req \ {r} : req'[q] = req[q]
      /\ req'[r].pc = pc /\ req'[r].copy = x
      /\ req'[r].who = req[r].who /\ req'[r].events = req[r].events
      /\ req'[r].got = req[r].got /\ req'[r].ask = req[r].ask
  <2>1. DOMAIN req = Req /\ DOMAIN req[r] = ReqFields /\ req[r].copy = NoRow
    BY DEF Invs, CredInv, HandlerInv
  <2>2. CASE Step(r, [pc |-> pc]) /\ x = NoRow
    BY <2>1, <2>2 DEF Step, With, ReqFields
  <2>3. CASE Step(r, [pc |-> pc, copy |-> x])
    BY <2>1, <2>3 DEF Step, With, ReqFields
  <2> QED BY <2>2, <2>3
<1>2. Saw(r) /\ Saw(r)' /\ A(r) \in Ask /\ CopyInv(r) /\ sinceRows' = sinceRows
  BY SawStays, NoChange DEF Invs, StoreInv, CopyInv, InFlight, history
<1>3. CopyInv(r)'
  BY <1>1, <1>2 DEF CopyInv, InFlight, A, Gated, HoldsCopy, Find, Saw
<1> QED BY <1>1, <1>3, ContinuedStore

-----------------------------------------------------------------------------
\* The handlers that only read.
LEMMA ReadsStore ==
    ASSUME Invs, NEW r \in Req,
           \/ Malformed(r) \/ QueryFails(r) \/ Me(r) \/ Reveal(r) \/ Touch(r) \/ ReadForSave(r)
           \/ List(r) \/ ShapeOnly(r) \/ ListKeys(r) \/ CountTrail(r) \/ PageTrail(r)
    PROVE  Owed
<1> USE DEF Event
<1>0. InFlight(r) => rows \subseteq sinceRows[r] /\ rows \subseteq Row
  BY DEF Invs, StoreInv, CopyInv, Saw, TablesOK
<1>1. CASE Malformed(r) \/ Me(r) \/ ShapeOnly(r) \/ ListKeys(r) \/ PageTrail(r)
  BY <1>1, RefusedStore DEF Malformed, Me, ShapeOnly, ListKeys, PageTrail
<1>2. CASE QueryFails(r)
  <2>1. budget' # budget
    BY <1>2 DEF QueryFails, Spend, Invs, Trouble
  <2> QED BY <1>2, <2>1, RefusedStore DEF QueryFails, Explained
<1>3. CASE List(r)
  <2> DEFINE ok == \A x \in Own("configs", req[r].who) : A(r).table = "configs" => Opens(req[r].at, x.idKek)
  <2>1. CASE ok
    BY <1>3, <2>1, RefusedStore DEF List
  <2>2. CASE ~ok
    <3>1. PICK x \in Own("configs", req[r].who) : x.idKek \notin Ours(r).keks
      BY <2>2 DEF Opens, Ours
    <3>2. x \in sinceRows[r] /\ x.user = req[r].who /\ x.table = "configs"
      BY <1>0, <1>3, <3>1 DEF Own, List, Serving, InFlight
    <3>3. Explained(r)
      BY <3>1, <3>2 DEF Explained
    <3> QED BY <1>3, <2>2, <3>3, RefusedStore DEF List
  <2> QED BY <2>1, <2>2
<1>4. CASE Reveal(r)
  <2>0. req[r].pc = "serve" /\ UNCHANGED <<tables, history>> /\ A(r).op = "reveal"
    BY <1>4 DEF Reveal, Serving
  <2>1. CASE Refuse(r, 404, {"TokenNotFound"})
    BY <2>0, <2>1, RefusedStore
  <2>2. ASSUME NEW x \in Find("api_keys", req[r].who, A(r).name), ~Opens(req[r].at, x.kek), Refuse(r, 500, {})
        PROVE  Owed
    <3>1. x \in sinceRows[r] /\ x.user = req[r].who /\ x.kek \notin Ours(r).keks
      BY <1>0, <2>0, <2>2 DEF Find, InFlight, Opens, Ours
    <3>2. Explained(r)
      BY <3>1 DEF Explained
    <3> QED BY <2>0, <2>2, <3>2, RefusedStore
  <2>3. ASSUME NEW x \in Find("api_keys", req[r].who, A(r).name), Step(r, [pc |-> "touch", copy |-> x])
        PROVE  Owed
    BY <2>0, <2>3, HoldingStore
  <2> QED BY <1>4, <2>1, <2>2, <2>3 DEF Reveal
<1>5. CASE Touch(r)
  <2>1. HoldsCopy(r, "api_keys") /\ sinceRows[r] \subseteq Row
    BY <1>5 DEF Touch, Invs, StoreInv, CopyInv, InFlight, Saw
  <2>2. req[r].copy.secret \in Secret
    BY <2>1, RowTyped DEF HoldsCopy
  <2>3. Changes /\ rows' = rows
    BY <1>5, NoChange DEF Touch, tables
  <2>4. Fresh(r, req[r].copy.secret)
    BY <2>1, <2>3 DEF Fresh, HoldsCopy
  <2> QED BY <1>5, <2>2, <2>3, <2>4, AnsweredStore DEF Touch
<1>6. CASE ReadForSave(r)
  <2>0. req[r].pc = "serve" /\ UNCHANGED <<tables, history>>
    BY <1>6 DEF ReadForSave, Serving
  <2>1. CASE Refuse(r, 400, {})
    BY <2>0, <2>1, RefusedStore
  <2>2. CASE Acceptable(A(r)) /\ Step(r, [pc |-> "write"])
    BY <2>0, <2>2, HoldingStore
  <2>3. ASSUME NEW x \in Find(A(r).table, req[r].who, A(r).name), Acceptable(A(r)),
               Step(r, [pc |-> "write", copy |-> x])
        PROVE  Owed
    BY <2>0, <2>3, HoldingStore
  <2> QED BY <1>6, <2>1, <2>2, <2>3 DEF ReadForSave
<1>7. CASE CountTrail(r)
  BY <1>7, HoldingStore DEF CountTrail, Serving
<1> QED BY <1>1, <1>2, <1>3, <1>4, <1>5, <1>6, <1>7

\* What is about to be written: sealed with a key of the replica, of the kind asked for.
LEMMA ActiveKek ==
    ASSUME Invs, NEW r \in Req, InFlight(r) PROVE Ours(r).active \in Kek
<1>1. req[r].at \in Replica /\ boot[req[r].at] = "up"
  BY DEF Invs, GateInv, RequestInv
<1>2. conf[req[r].at] \in Config /\ conf[req[r].at].active \in conf[req[r].at].keks
  BY <1>1 DEF Invs, BootInv, BootTypes, StartInv
<1> QED BY <1>2 DEF Ours, Config

LEMMA FinishedRow ==
    ASSUME Invs, NEW r \in Req, InFlight(r), A(r) \in Ask, Acceptable(A(r)),
           NEW x, Drafted(x, LastField(A(r).table)), x.table = A(r).table
    PROVE  LET y == With(x, Fields(r))
           IN  /\ y \in Row /\ SameName(x, y) /\ y.id = x.id /\ y.secret = x.secret /\ y.kek = x.kek
               /\ y.table = "api_keys" => ShapeOK(y.shape)
<1>1. A(r).table \in Table
  BY DEF Ask
<1>2. CASE A(r).table = "api_keys"
  <2>1. ShapeOf(A(r)) \in Shape /\ ShapeOK(ShapeOf(A(r)))
    BY <1>2, ShapeTyped DEF Acceptable
  <2>2. Fields(r) = [shape |-> ShapeOf(A(r))]
    BY <1>2 DEF Fields
  <2>3. Drafted(x, "shape") /\ x.table = "api_keys"
    BY <1>2 DEF LastField
  <2> QED BY <2>1, <2>2, <2>3, ApiRow
<1>3. CASE A(r).table = "configs"
  <2>1. Ours(r).active \in Kek
    BY ActiveKek
  <2>2. Fields(r) = [idKek |-> Ours(r).active]
    BY <1>3 DEF Fields
  <2>3. Drafted(x, "idKek") /\ x.table = "configs"
    BY <1>3 DEF LastField
  <2>4. LET y == With(x, [idKek |-> Ours(r).active])
        IN  y \in Row /\ SameName(x, y) /\ y.id = x.id /\ y.secret = x.secret /\ y.kek = x.kek
    BY <2>1, <2>3, ConfigRow
  <2> QED BY <2>2, <2>3, <2>4 DEF SameName
<1> QED BY <1>1, <1>2, <1>3 DEF Table

LEMMA EditedRow ==
    ASSUME Invs, NEW r \in Req, req[r].pc = "write", req[r].copy # NoRow
    PROVE  /\ Edited(r) \in Row /\ SameName(req[r].copy, Edited(r)) /\ Edited(r).id = req[r].copy.id
           /\ Edited(r).table = "api_keys" => ShapeOK(Edited(r).shape)
           /\ ~A(r).secret => Edited(r).secret = req[r].copy.secret /\ Edited(r).kek = req[r].copy.kek
<1>1. /\ req[r].copy \in sinceRows[r] /\ sinceRows[r] \subseteq Row /\ req[r].copy.table = A(r).table
      /\ A(r) \in Ask /\ Acceptable(A(r)) /\ InFlight(r)
  BY DEF Invs, StoreInv, CopyInv, InFlight, Saw, HoldsCopy
<1>2. Drafted(req[r].copy, LastField(A(r).table)) /\ r \in Secret /\ Ours(r).active \in Kek
  BY <1>1, RowIsDraft, ActiveKek DEF Secret
<1>3. CASE A(r).secret
  <2> DEFINE x == With(req[r].copy, Sealed(r))
  <2>1. Sealed(r) = [secret |-> r, kek |-> Ours(r).active]
    BY DEF Sealed
  <2>2. Drafted(x, LastField(A(r).table)) /\ SameName(req[r].copy, x) /\ x.id = req[r].copy.id
    <3> DEFINE last == LastField(A(r).table)
    <3>1. last \in {"shape", "idKek"}
      BY DEF LastField
    <3>2. /\ {"table", "id", "user", "name"} \subseteq DOMAIN req[r].copy
          /\ DOMAIN req[r].copy \subseteq {"table", "id", "user", "name", "secret", "kek", last}
          /\ req[r].copy.id \in Nat /\ req[r].copy.user \in User /\ req[r].copy.name \in Name
      BY <1>2 DEF Drafted
    <3> HIDE DEF last
    <3>3. Drafted(x, last) /\ SameName(req[r].copy, x) /\ x.id = req[r].copy.id
      BY <1>2, <2>1, <3>1, <3>2, SealedDraft
    <3> QED BY <3>3 DEF last
  <2>3. x.table = A(r).table
    BY <1>1, <2>2 DEF SameName
  <2>4. Edited(r) = With(x, Fields(r))
    BY <1>3 DEF Edited
  <2> HIDE DEF x
  <2>5. /\ Edited(r) \in Row /\ SameName(x, Edited(r)) /\ Edited(r).id = x.id
        /\ Edited(r).table = "api_keys" => ShapeOK(Edited(r).shape)
    BY <1>1, <2>2, <2>3, <2>4, FinishedRow
  <2> QED BY <1>3, <2>2, <2>5 DEF SameName
<1>4. CASE ~A(r).secret
  <2>1. Edited(r) = With(req[r].copy, Fields(r))
    BY <1>4 DEF Edited
  <2> QED BY <1>1, <1>2, <2>1, FinishedRow
<1> QED BY <1>3, <1>4

LEMMA NewRowRow ==
    ASSUME Invs, NEW r \in Req, req[r].pc = "write"
    PROVE  /\ NewRow(r) \in Row /\ NewRow(r).id = issued + 1
           /\ NewRow(r).table = A(r).table /\ NewRow(r).user = req[r].who /\ NewRow(r).name = A(r).name
           /\ NewRow(r).table = "api_keys" => ShapeOK(NewRow(r).shape)
<1>1. A(r) \in Ask /\ Acceptable(A(r)) /\ InFlight(r) /\ req[r].who \in User /\ issued \in Nat
  BY DEF Invs, StoreInv, CopyInv, InFlight, Gated, CredInv, TableInv
<1>2. A(r).name \in Name /\ r \in Secret /\ Ours(r).active \in Kek /\ A(r).table \in Table
  BY <1>1, ActiveKek DEF Acceptable, Ask, Secret
<1> DEFINE base == [table |-> A(r).table, id |-> issued + 1, user |-> req[r].who, name |-> A(r).name]
           x == With(base, Sealed(r))
<1>3. /\ DOMAIN base = {"table", "id", "user", "name"}
      /\ base.table = A(r).table /\ base.id = issued + 1 /\ base.user = req[r].who /\ base.name = A(r).name
      /\ base.id \in Nat
  BY <1>1
<1>4. Sealed(r) = [secret |-> r, kek |-> Ours(r).active]
  BY DEF Sealed
<1>5. NewRow(r) = With(x, Fields(r))
  BY DEF NewRow
<1> HIDE DEF base
<1>6. Drafted(x, LastField(A(r).table)) /\ SameName(base, x) /\ x.id = base.id
  <2> DEFINE last == LastField(A(r).table)
  <2>1. last \in {"shape", "idKek"}
    BY DEF LastField
  <2> HIDE DEF last
  <2>2. Drafted(x, last) /\ SameName(base, x) /\ x.id = base.id
    BY <1>1, <1>2, <1>3, <1>4, <2>1, SealedDraft
  <2> QED BY <2>2 DEF last
<1>7. x.table = A(r).table
  BY <1>3, <1>6 DEF SameName
<1> HIDE DEF x
<1>8. /\ NewRow(r) \in Row /\ SameName(x, NewRow(r)) /\ NewRow(r).id = x.id
      /\ NewRow(r).table = "api_keys" => ShapeOK(NewRow(r).shape)
  BY <1>1, <1>5, <1>6, <1>7, FinishedRow
<1> QED BY <1>3, <1>6, <1>8 DEF SameName

-----------------------------------------------------------------------------
\* A row whose place is free, under an id that is new.
LEMMA InsertedTables ==
    ASSUME Invs, NEW x \in Row, x.id = issued + 1, x.table = "api_keys" => ShapeOK(x.shape),
           Find(x.table, x.user, x.name) = {}, rows' = rows \cup {x}, keys' = keys, issued' = issued + 1,
           Witness
    PROVE  Changes
<1>1. /\ issued \in Nat /\ \A y \in Row : y.id \in Nat
      /\ \A y \in Key : y.id \in Nat
      /\ TablesOK(rows, keys, issued)
  BY DEF Invs, StoreInv, CredInv, TableInv, Row, Key
<1>2. \A y \in rows : y.id # x.id /\ <<y.table, y.user, y.name>> # <<x.table, x.user, x.name>>
  BY <1>1 DEF TablesOK, Find
<1>3. \A y \in rows \cup keys : y.id <= issued + 1
  BY <1>1 DEF TablesOK
<1>4. TablesOK(rows, keys, issued)'
  BY <1>1, <1>2, <1>3 DEF TablesOK
<1> QED BY <1>1, <1>4 DEF Changes, SameName

\* The row of that id is replaced by one that has its name.
LEMMA UpdatedTables ==
    ASSUME Invs, NEW x \in Row, x.table = "api_keys" => ShapeOK(x.shape), NEW who,
           \A y \in rows : y.id = x.id => SameName(y, x),
           rows' = {IF y.id = x.id /\ y.user = who THEN x ELSE y : y \in rows}, keys' = keys, issued' = issued,
           Witness
    PROVE  Changes
<1>1. /\ issued \in Nat /\ \A y \in Row : y.id \in Nat
      /\ TablesOK(rows, keys, issued)
  BY DEF Invs, StoreInv, CredInv, TableInv, Row
<1>2. \A z \in rows' : \E y \in rows : y.id = z.id /\ SameName(z, y) /\ (z = y \/ (z = x /\ y.user = who))
  BY DEF SameName
<1>3. rows' \subseteq Row /\ \A z \in rows' : z.table = "api_keys" => ShapeOK(z.shape)
  BY <1>1 DEF TablesOK
<1>4. ASSUME NEW z1 \in rows', NEW z2 \in rows',
             z1.id = z2.id \/ <<z1.table, z1.user, z1.name>> = <<z2.table, z2.user, z2.name>>
      PROVE  z1 = z2
  <2>1. PICK y1 \in rows : /\ y1.id = z1.id /\ SameName(z1, y1)
                           /\ z1 = IF y1.id = x.id /\ y1.user = who THEN x ELSE y1
    BY DEF SameName
  <2>2. PICK y2 \in rows : /\ y2.id = z2.id /\ SameName(z2, y2)
                           /\ z2 = IF y2.id = x.id /\ y2.user = who THEN x ELSE y2
    BY DEF SameName
  <2>3. y1.id = y2.id \/ <<y1.table, y1.user, y1.name>> = <<y2.table, y2.user, y2.name>>
    BY <1>4, <2>1, <2>2 DEF SameName
  <2>4. y1 = y2
    BY <1>1, <2>3 DEF TablesOK
  <2> QED BY <2>1, <2>2, <2>4
<1>5. \A z \in rows' \cup keys' : z.id <= issued
  BY <1>1, <1>2 DEF TablesOK
<1>6. TablesOK(rows, keys, issued)'
  BY <1>1, <1>3, <1>4, <1>5 DEF TablesOK
<1> QED BY <1>1, <1>2, <1>6 DEF Changes

\* Rows and keys that go, and keys that change nothing but what they allow.
LEMMA FewerTables ==
    ASSUME Invs, rows' \subseteq rows, keys' \subseteq keys, issued' = issued, Witness
    PROVE  Changes
<1>1. /\ issued \in Nat /\ TablesOK(rows, keys, issued)
  BY DEF Invs, StoreInv, CredInv, TableInv
<1>2. TablesOK(rows, keys, issued)'
  BY <1>1 DEF TablesOK
<1> QED BY <1>1, <1>2 DEF Changes, SameName

LEMMA NewKeyTables ==
    ASSUME Invs, NEW k \in Key, k.id = issued + 1,
           \A x \in keys : <<x.user, x.name>> # <<k.user, k.name>>,
           keys' = keys \cup {k}, rows' = rows, issued' = issued + 1, Witness
    PROVE  Changes
<1>1. /\ issued \in Nat /\ \A y \in Row : y.id \in Nat
      /\ \A y \in Key : y.id \in Nat
      /\ TablesOK(rows, keys, issued)
  BY DEF Invs, StoreInv, CredInv, TableInv, Row, Key
<1>2. \A y \in keys : y.id # k.id
  BY <1>1 DEF TablesOK
<1>3. \A y \in rows \cup keys : y.id <= issued + 1
  BY <1>1 DEF TablesOK
<1>4. TablesOK(rows, keys, issued)'
  BY <1>1, <1>2, <1>3 DEF TablesOK
<1> QED BY <1>1, <1>4 DEF Changes, SameName

LEMMA ToggledTables ==
    ASSUME Invs, NEW on \in BOOLEAN, NEW own \in SUBSET keys,
           keys' = (keys \ own) \cup {[k EXCEPT !.enabled = on] : k \in own},
           rows' = rows, issued' = issued, Witness
    PROVE  Changes
<1>1. issued \in Nat /\ TablesOK(rows, keys, issued) /\ keys \subseteq Key
  BY DEF Invs, StoreInv, CredInv, TableInv, TablesOK
<1>2. \A k \in Key : LET e == [k EXCEPT !.enabled = on]
                     IN  e \in Key /\ e.id = k.id /\ e.user = k.user /\ e.name = k.name
  BY DEF Key
<1>3. ASSUME NEW z1 \in keys', NEW z2 \in keys', z1.id = z2.id \/ <<z1.user, z1.name>> = <<z2.user, z2.name>>
      PROVE  z1 = z2
  <2>1. PICK y1 \in keys : /\ y1.id = z1.id /\ y1.user = z1.user /\ y1.name = z1.name
                           /\ z1 = IF y1 \in own THEN [y1 EXCEPT !.enabled = on] ELSE y1
    BY <1>1, <1>2
  <2>2. PICK y2 \in keys : /\ y2.id = z2.id /\ y2.user = z2.user /\ y2.name = z2.name
                           /\ z2 = IF y2 \in own THEN [y2 EXCEPT !.enabled = on] ELSE y2
    BY <1>1, <1>2
  <2>3. y1 = y2
    BY <1>1, <1>3, <2>1, <2>2 DEF TablesOK
  <2> QED BY <2>1, <2>2, <2>3
<1>4. ASSUME NEW z \in keys' PROVE z \in Key /\ z.id <= issued
  <2>1. \A y \in keys : y \in Key /\ y.id <= issued
    BY <1>1 DEF TablesOK
  <2>2. CASE z \in keys
    BY <2>1, <2>2
  <2>3. ASSUME NEW y \in own, z = [y EXCEPT !.enabled = on] PROVE z \in Key /\ z.id <= issued
    BY <1>2, <2>1, <2>3
  <2> QED BY <2>2, <2>3
<1>5. TablesOK(rows, keys, issued)'
  BY <1>1, <1>3, <1>4 DEF TablesOK
<1> QED BY <1>1, <1>5 DEF Changes, SameName

-----------------------------------------------------------------------------
\* The handlers that write.
LEMMA WritesStore ==
    ASSUME Invs, NEW r \in Req,
           InsertRow(r) \/ UpdateRow(r) \/ Remove(r) \/ NewKey(r) \/ SetKeyEnabled(r) \/ RemoveKey(r)
    PROVE  Owed
<1> USE DEF Event
<1>0. InFlight(r) /\ CopyInv(r) /\ A(r) \in Ask /\ Saw(r) /\ rows \subseteq Row /\ keys \subseteq Key
  BY DEF InsertRow, UpdateRow, Remove, NewKey, SetKeyEnabled, RemoveKey, Serving, InFlight, Invs,
         StoreInv, CopyInv, TablesOK
<1>1. ASSUME NEW code, code # 500, NEW events \in SUBSET Event, NEW secret \in Secret \cup {NoSecret},
             Answer(r, code, secret, events), Changes,
             A(r).op = "reveal" => secret = NoSecret,
             rows' \subseteq rows \/ A(r).op # "save" \/ req[r].copy = NoRow
      PROVE  Owed
  <2>1. Fresh(r, secret)
    BY <1>1 DEF Fresh
  <2> QED BY <1>1, <2>1, AnsweredStore
<1>2. CASE InsertRow(r)
  <2>0. req[r].pc = "write" /\ req[r].copy = NoRow /\ A(r).op = "save" /\ Witness
    BY <1>2 DEF InsertRow, Invs, CredInv, HandlerInv
  <2>1. CASE /\ Find(A(r).table, req[r].who, A(r).name) # {}
             /\ Refuse(r, 500, {}) /\ UNCHANGED tables
    <3>1. Explained(r) /\ Fresh(r, NoSecret)
      BY <2>0, <2>1 DEF Explained, Conflict, Fresh, tables
    <3>2. Changes
      BY <2>0, <2>1, FewerTables DEF tables
    <3> QED BY <2>1, <3>1, <3>2, AnsweredStore DEF Refuse
  <2>2. CASE /\ Find(A(r).table, req[r].who, A(r).name) = {}
             /\ rows' = rows \cup {NewRow(r)} /\ issued' = issued + 1 /\ UNCHANGED keys
             /\ Refuse(r, 200, {"CredentialCreated"})
    <3>1. Changes
      BY <2>0, <2>2, NewRowRow, InsertedTables
    <3> QED BY <1>1, <2>0, <2>2, <3>1 DEF Refuse
  <2> QED BY <1>2, <2>1, <2>2 DEF InsertRow
<1>3. CASE UpdateRow(r)
  <2>0. req[r].pc = "write" /\ req[r].copy # NoRow /\ Witness
    BY <1>3 DEF UpdateRow
  <2>1. /\ rows' = {IF y.id = req[r].copy.id /\ y.user = req[r].who THEN Edited(r) ELSE y : y \in rows}
        /\ UNCHANGED <<keys, issued>> /\ Refuse(r, 200, {})
    BY <1>3 DEF UpdateRow
  <2>2. /\ Edited(r) \in Row /\ SameName(req[r].copy, Edited(r)) /\ Edited(r).id = req[r].copy.id
        /\ Edited(r).table = "api_keys" => ShapeOK(Edited(r).shape)
        /\ ~A(r).secret => Edited(r).secret = req[r].copy.secret /\ Edited(r).kek = req[r].copy.kek
    BY <2>0, EditedRow
  <2>3. req[r].copy \in sinceRows[r]
    BY <1>0, <2>0 DEF CopyInv, HoldsCopy
  <2>4. \A y \in rows : y.id = Edited(r).id => SameName(y, Edited(r))
    BY <1>0, <2>2, <2>3 DEF Saw, SameName
  <2>5. Changes
    <3> DEFINE x == Edited(r)
    <3>1. rows' = {IF y.id = x.id /\ y.user = req[r].who THEN x ELSE y : y \in rows}
      BY <2>1, <2>2
    <3> HIDE DEF x
    <3>2. x \in Row /\ (x.table = "api_keys" => ShapeOK(x.shape)) /\ \A y \in rows : y.id = x.id => SameName(y, x)
      BY <2>2, <2>4 DEF x
    <3> QED BY <2>0, <2>1, <3>1, <3>2, UpdatedTables
  <2>6. Fresh(r, NoSecret)
    <3>1. \A y \in rows' \ rows : y = Edited(r)
      BY <2>1
    <3> QED BY <2>2, <2>3, <3>1 DEF Fresh
  <2> QED BY <2>1, <2>5, <2>6, AnsweredStore DEF Refuse
<1>4. CASE Remove(r)
  <2>1. rows' \subseteq rows /\ UNCHANGED <<keys, issued>> /\ Witness
    BY <1>4 DEF Remove
  <2>2. PICK code \in {204, 404} : Refuse(r, code, {})
    BY <1>4 DEF Remove
  <2> QED BY <1>1, <2>1, <2>2, FewerTables DEF Refuse
<1>5. CASE NewKey(r)
  <2> DEFINE scopes == NormalizeScopes(A(r).scopes)
             k == [id |-> issued + 1, user |-> req[r].who, name |-> A(r).name, scopes |-> scopes, enabled |-> TRUE]
  <2>0. Witness /\ A(r).op = "newKey" /\ req[r].pc = "serve"
    BY <1>5 DEF NewKey, Serving
  <2>1. CASE Refuse(r, 400, {}) /\ UNCHANGED tables
    BY <1>1, <2>0, <2>1, FewerTables DEF Refuse, tables
  <2>2. CASE /\ \E o \in keys : o.user = req[r].who /\ o.name = A(r).name
             /\ Refuse(r, 500, {}) /\ UNCHANGED tables
    <3>1. Explained(r) /\ Fresh(r, NoSecret)
      BY <2>0, <2>2 DEF Explained, Conflict, Fresh, tables
    <3>2. Changes
      BY <2>0, <2>2, FewerTables DEF tables
    <3> QED BY <2>2, <3>1, <3>2, AnsweredStore DEF Refuse
  <2>3. CASE /\ ~\E o \in keys : o.user = req[r].who /\ o.name = A(r).name
             /\ A(r).name # NoName /\ scopes \subseteq Scope
             /\ keys' = keys \cup {k} /\ issued' = issued + 1 /\ rows' = rows
             /\ Answer(r, 200, r, {"CredentialCreated"})
    <3>1. A(r).name \in Name /\ req[r].who \in User /\ issued + 1 \in Nat
      BY <1>0, <2>0, <2>3 DEF Ask, CopyInv, Gated, Invs, CredInv, TableInv
    <3>2. k \in Key /\ k.id = issued + 1 /\ k.user = req[r].who /\ k.name = A(r).name
      BY <2>3, <3>1 DEF Key
    <3> HIDE DEF k
    <3>3. \A x \in keys : <<x.user, x.name>> # <<k.user, k.name>>
      BY <2>3, <3>2
    <3>4. Changes
      BY <2>0, <2>3, <3>2, <3>3, NewKeyTables
    <3> QED BY <1>1, <2>0, <2>3, <3>4 DEF Secret
  <2> QED BY <1>5, <2>1, <2>2, <2>3 DEF NewKey
<1>6. CASE SetKeyEnabled(r)
  <2>1. /\ keys' = (keys \ OwnKey(r)) \cup {[k EXCEPT !.enabled = A(r).enabled] : k \in OwnKey(r)}
        /\ rows' = rows /\ issued' = issued /\ Witness
    BY <1>6 DEF SetKeyEnabled
  <2>2. A(r).enabled \in BOOLEAN /\ OwnKey(r) \subseteq keys
    BY <1>0 DEF Ask, OwnKey
  <2>3. PICK code \in {200, 404} : Refuse(r, code, {})
    BY <1>6 DEF SetKeyEnabled
  <2>4. Changes
    BY <2>1, <2>2, ToggledTables
  <2> QED BY <1>1, <2>1, <2>3, <2>4 DEF Refuse
<1>7. CASE RemoveKey(r)
  <2>1. keys' \subseteq keys /\ UNCHANGED <<rows, issued>> /\ Witness
    BY <1>7 DEF RemoveKey
  <2>2. PICK code \in {204, 404} : Refuse(r, code, {})
    BY <1>7 DEF RemoveKey
  <2> QED BY <1>1, <2>1, <2>2, FewerTables DEF Refuse
<1> QED BY <1>2, <1>3, <1>4, <1>5, <1>6, <1>7

\* A killed process drops the copies of its requests, which end without a status.
LEMMA KilledStore == ASSUME Invs, NEW p \in Replica, Killed(p) PROVE Owed
<1>1. /\ UNCHANGED <<load, tables, history>>
      /\ \A r \in Req : req'[r] = IF InFlight(r) /\ req[r].at = p
                                    THEN [req[r] EXCEPT !.pc = "done", !.copy = NoRow]
                                    ELSE req[r]
  BY DEF Killed, CutOff
<1>2. Changes
  BY <1>1, NoChange
<1>3. ASSUME NEW r \in Req
      PROVE  CopyInv(r)' /\ (Ends(r) => req'[r].status = 0 /\ req'[r].got = NoSecret)
  <2>0. CopyInv(r) /\ HandlerInv(r)
    BY DEF Invs, StoreInv, CredInv
  <2>1. CASE InFlight(r) /\ req[r].at = p
    <3>1. /\ req'[r].pc = "done" /\ req'[r].copy = NoRow /\ req'[r].who = req[r].who
          /\ req'[r].got = req[r].got /\ req'[r].events = req[r].events /\ req'[r].status = req[r].status
      BY <1>1, <2>0, <2>1 DEF HandlerInv, ReqFields
    <3> QED BY <2>0, <2>1, <3>1 DEF CopyInv, HandlerInv, InFlight, Gated
  <2>2. CASE ~(InFlight(r) /\ req[r].at = p)
    <3>1. req'[r] = req[r]
      BY <1>1, <2>2
    <3>2. CopyInv(r)'
      BY <1>2, <3>1, OthersCopy DEF Invs
    <3> QED BY <3>1, <3>2 DEF Ends, InFlight
  <2> QED BY <2>1, <2>2
<1>4. StoreInv'
  BY <1>1, <1>2, <1>3 DEF Invs, StoreInv, Changes, history
<1>5. rows' \ rows = {}
  BY <1>1 DEF tables
<1>6. RevealsAndKeepsFresh
  <2>1. \A r \in Req : Fresh(r, NoSecret)
    BY <1>5 DEF Fresh
  <2> QED BY <1>3, <2>1 DEF RevealsAndKeepsFresh
<1>7. ExplainsErrors
  BY <1>3 DEF ExplainsErrors
<1> QED BY <1>4, <1>6, <1>7 DEF Owed

LEMMA OtherStore == ASSUME Invs, UNCHANGED reqVars PROVE Owed
<1>1. UNCHANGED <<req, tables, history>>
  BY DEF reqVars
<1>2. Changes
  BY <1>1, NoChange
<1>3. \A r \in Req : CopyInv(r)'
  BY <1>1, <1>2, OthersCopy DEF Invs
<1>4. StoreInv'
  BY <1>1, <1>2, <1>3 DEF Invs, StoreInv, Changes, history
<1> QED BY <1>1, <1>4 DEF Owed, RevealsAndKeepsFresh, ExplainsErrors, Ends, InFlight

LEMMA StoreStep == Invs /\ [Next]_vars => Owed
<1> SUFFICES ASSUME Invs, [Next]_vars PROVE Owed
  OBVIOUS
<1>1. ASSUME NEW p \in Replica, Starts(p) \/ Retries(p) \/ Sweeping(p) \/ Settles(p) PROVE Owed
  BY <1>1, OtherStore DEF Starts, Retries, Sweeping, Settles
<1>2. ASSUME NEW p \in Replica, Killed(p) PROVE Owed
  BY <1>2, KilledStore
<1>3. CASE Surroundings \/ Time \/ Trailing \/ UNCHANGED vars
  BY <1>3, OtherStore DEF Surroundings, Time, Trailing, vars
<1>4. ASSUME NEW r \in Req, Comes(r) PROVE Owed
  BY <1>4, ArriveStore
<1>5. ASSUME NEW r \in Req, Serves(r) PROVE Owed
  BY <1>5, GateStore, ReadsStore, WritesStore DEF Serves, Handle
<1> QED BY <1>1, <1>2, <1>3, <1>4, <1>5 DEF Next

LEMMA StoreInitInv == Init => StoreInv
<1> SUFFICES ASSUME Init PROVE StoreInv
  OBVIOUS
<1> DEFINE l == Loads[load]
<1>1. TablesOK(l.rows, l.keys, Cardinality(l.rows \cup l.keys))
  BY LoadsAreStates DEF Init
<1>2. /\ rows = l.rows /\ keys = l.keys /\ issued = Cardinality(l.rows \cup l.keys)
      /\ sinceRows = [r \in Req |-> {}] /\ req = [r \in Req |-> Idle]
  BY DEF Init, RequestInit
<1>3. TablesOK(rows, keys, issued)
  BY <1>1, <1>2
<1>4. \A r \in Req : CopyInv(r)
  BY <1>2 DEF CopyInv, Idle, InFlight, Gated
<1> QED BY <1>2, <1>3, <1>4 DEF StoreInv

-----------------------------------------------------------------------------
\* All that the theorems below rest on.
ServerInv == BootInv /\ StartInv /\ SweepInv /\ SweepTypes /\ LimiterInv /\ GateInv /\ CredInv /\ StoreInv

LEMMA ServerInitInv == Init => ServerInv
  BY BootInitInv, StartInitInv, SweepInitInv, SweepTypesInit, LimiterInitInv, GateInitInv,
     CredInitInv, StoreInitInv DEF ServerInv

LEMMA ServerStep ==
    ServerInv /\ [Next]_vars => ServerInv' /\ [RevealsAndKeepsFresh]_reqVars /\ [ExplainsErrors]_reqVars
<1> SUFFICES ASSUME ServerInv, [Next]_vars PROVE ServerInv' /\ RevealsAndKeepsFresh /\ ExplainsErrors
  OBVIOUS
<1>1. Invs
  BY DEF ServerInv, Invs, SweepInv
<1>2. Owed
  BY <1>1, StoreStep
<1>3. BootInv' /\ StartInv' /\ SweepInv' /\ SweepTypes' /\ LimiterInv' /\ GateInv' /\ CredInv'
  BY BootStep, StartStep, SweepStep, SweepTypesStep, LimiterStep, GateStep, CredStep DEF ServerInv
<1> QED BY <1>2, <1>3 DEF Owed, ServerInv

LEMMA ServerTyped == ServerInv => TypeOK
<1> SUFFICES ASSUME ServerInv PROVE TypeOK
  OBVIOUS
<1>1. RateTypeOK
  BY DEF ServerInv, LimiterInv, RateInv
<1>2. BootTypeOK
  BY DEF ServerInv, BootInv, BootTypes, Steps, StartInv, SweepInv, BootTypeOK
<1>3. SweepTypeOK
  BY DEF ServerInv, SweepTypes
<1>4. RequestTypeOK
  <2>1. TablesOK(rows, keys, issued)
    BY DEF ServerInv, StoreInv
  <2>2. ASSUME NEW r \in Req
        PROVE  /\ req[r].pc \in {"new", "limit", "auth", "serve", "touch", "write", "page", "done"}
               /\ req[r].who \in User \cup {NoOne}
               /\ req[r].copy \in rows \cup sinceRows[r] \cup {NoRow}
               /\ req[r].got \in Secret \cup {NoSecret}
               /\ req[r].events \subseteq Event
               /\ req[r].pc \notin {"new", "done"} => boot[req[r].at] = "up"
    BY DEF ServerInv, StoreInv, CopyInv, HoldsCopy, GateInv, RequestInv, InFlight
  <2> QED BY <2>1, <2>2 DEF RequestTypeOK
<1> QED BY <1>1, <1>2, <1>3, <1>4 DEF TypeOK

\* The server (VaultServer) of however many replicas, users, requests and loads: rows and keys stay
\* well-formed, unique by id and by name and made under ids that were given out
\* (0001_baseline.sql, the unique indexes), every replica that serves seals with a key it has,
\* and what a request, a sweep, a migration or the limiter holds is of its kind.
THEOREM ServerTypes == Spec => []TypeOK
  BY ServerInitInv, ServerStep, ServerTyped, PTL DEF Spec

\* Create, Upsert and Reveal (apikey.go:69-198, oauthconfig.go:63-122) beside any edits, deletions,
\* crashes and failures: what is revealed, and what an edit with a blank secret keeps, was stored
\* under that name since the request came.
THEOREM NothingStale == Spec => NoStaleSecret
  BY ServerInitInv, ServerStep, PTL DEF Spec, NoStaleSecret

\* writeServiceError's 500 (httpapi): however replicas with different keys and requests for the same
\* name meet, it says that a statement failed, that the name was taken meanwhile, or that
\* the caller has a row whose key this replica lacks.
THEOREM EveryErrorHasAReason == Spec => ServerErrorsAreExplained
  BY ServerInitInv, ServerStep, PTL DEF Spec, ServerErrorsAreExplained
=============================================================================

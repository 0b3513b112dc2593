-------------------------- MODULE OAuthTokensProofs --------------------------
(***************************************************************************)
(* Proofs about OAuthTokens for any number of requests, callbacks, rows,   *)
(* rotations and faults: the types, one row per account, removed rows stay *)
(* removed; where rows are not removed, one refresh per row, which sends   *)
(* what is stored; and where every consent brings a refresh token, no      *)
(* rotation is reverted and the stored token is the one in force.          *)
(***************************************************************************)
EXTENDS OAuthTokens, TLAPS

-----------------------------------------------------------------------------
\* The rows an UPDATE touches, and how: presence and account stay.
KeepsShape == \A j \in RowId :
                /\ rows'[j] = NoRow <=> rows[j] = NoRow
                /\ rows[j] # NoRow => rows'[j].acct = rows[j].acct

RowsOK == rows \in [RowId -> Row \cup {NoRow}]

LEMMA UpdateLemma ==
    ASSUME RowsOK, NEW i \in RowId, NEW row \in Row, UpdateToken(i, row)
    PROVE  RowsOK' /\ KeepsShape
<1>1. CASE rows[i] = NoRow
  BY <1>1 DEF UpdateToken, KeepsShape, RowsOK
<1>2. CASE rows[i] # NoRow
  <2>1. rows[i] \in Row
    BY <1>2 DEF RowsOK
  <2>2. [row EXCEPT !.acct = rows[i].acct] \in Row
    BY <2>1 DEF Row
  <2>3. [row EXCEPT !.acct = rows[i].acct].acct = rows[i].acct
    BY DEF Row
  <2>4. rows' = [rows EXCEPT ![i] = [row EXCEPT !.acct = rows[i].acct]]
    BY <1>2 DEF UpdateToken
  <2>5. QED
    BY <1>2, <2>2, <2>3, <2>4, NullsAreNew DEF KeepsShape, RowsOK
<1>3. QED
  BY <1>1, <1>2

\* A row kept as it is but for its refresh token and expiry is a row.
LEMMA RefreshedIsRow ==
    ASSUME NEW copy \in Copy, NEW answer \in Reply PROVE Refreshed(copy, answer) \in Row
BY DEF Refreshed, Copy, Reply, Row

LEMMA ConnectedIsRow ==
    ASSUME TypeOK, NEW c \in Callback, cpc[c] = "write"
    PROVE  /\ Connected(c) \in Row
           /\ Connected(c).acct = cacct[c]
           /\ ctok[c] # NoCopy => Reconnected(c) \in Row
<1>1. cacct[c] \in Account /\ cnew[c] \in Reply
  BY DEF TypeOK
<1>2. Connected(c) \in Row /\ Connected(c).acct = cacct[c]
  BY <1>1 DEF Connected, Row, Reply
<1>3. ctok[c] # NoCopy => ctok[c].row.refresh \in RefreshToken \cup {NoRefresh}
  BY DEF TypeOK, Copy, Row
<1>4. QED
  BY <1>2, <1>3 DEF Reconnected, Row

-----------------------------------------------------------------------------
\* Types.

LEMMA InitType == Init => TypeOK
BY BoundsAreNat DEF Init, TypeOK, RowId, Locks!Init, NoCopy, Copy

LEMMA ReturnType ==
    ASSUME TypeOK, NEW r \in Req, Return(r),
           UNCHANGED <<provider, config, created, cbVars>>,
           RowsOK', faults' \in Nat, live' \in [Callback -> Nat]
    PROVE  TypeOK'
<1>1. /\ wants' \in [Req -> RowId \cup {0}]
      /\ holds' \in [Req -> RowId \cup {0}]
  BY DEF Return, TypeOK, lockVars, Locks!Free
<1>2. QED
  BY <1>1 DEF Return, TypeOK, RowsOK, cbVars

LEMMA RequestType ==
    ASSUME TypeOK, NEW r \in Req,
           Serve(r) \/ \E a \in Account \cup {AnyAccount} : GetAccessToken(r, a)
    PROVE  TypeOK'
<1> USE DEF Goto, lockVars, cbVars
<1>1. ASSUME NEW a \in Account \cup {AnyAccount}, GetAccessToken(r, a) PROVE TypeOK'
  BY <1>1 DEF TypeOK, GetAccessToken
<1>2. CASE ResolveProvider(r)
  <2>1. CASE Return(r)
    BY <1>2, <2>1, ReturnType DEF ResolveProvider, TypeOK, RowsOK, Fault
  <2>2. CASE ~Return(r)
    BY <1>2, <2>2 DEF ResolveProvider, TypeOK
  <2>3. QED
    BY <2>1, <2>2
<1>3. CASE FindToken(r)
  <2>1. CASE Return(r)
    BY <1>3, <2>1, ReturnType DEF FindToken, TypeOK, RowsOK, Fault
  <2>2. CASE ~Return(r)
    <3> PICK i \in RowId : /\ rows[i].exp = "due" /\ Found(i, acct[r])
                           /\ tok' = [tok EXCEPT ![r] = [id |-> i, row |-> rows[i]]]
                           /\ pc' = [pc EXCEPT ![r] = "provider"]
                           /\ UNCHANGED <<faults, acct, reply, wants, holds>>
      BY <1>3, <2>2 DEF FindToken
    <3>1. [id |-> i, row |-> rows[i]] \in Copy
      BY DEF Found, Matches, Copy, TypeOK
    <3>2. [id |-> i, row |-> rows[i]] # NoCopy
      BY DEF RowId, NoCopy
    <3>3. QED
      BY <1>3, <3>1, <3>2 DEF FindToken, TypeOK
  <2>3. QED
    BY <2>1, <2>2
<1>4. CASE ReadProvider(r)
  <2>1. CASE Return(r)
    BY <1>4, <2>1, ReturnType DEF ReadProvider, TypeOK, RowsOK, Fault
  <2>2. CASE ~Return(r)
    <3>1. tok[r].id \in RowId
      BY <1>4 DEF ReadProvider, TypeOK, Copy
    <3>2. QED
      BY <1>4, <2>2, <3>1 DEF ReadProvider, Locks!Ask, TypeOK
  <2>3. QED
    BY <2>1, <2>2
<1>5. CASE LockRow(r)
  BY <1>5 DEF LockRow, Locks!Grant, TypeOK
<1>6. CASE Reread(r)
  <2>1. CASE Return(r)
    BY <1>6, <2>1, ReturnType DEF Reread, TypeOK, RowsOK, Fault
  <2>2. CASE ~Return(r)
    <3>1. ASSUME NEW i \in RowId, Found(i, tok[r].row.acct),
                 tok' = [tok EXCEPT ![r] = [id |-> i, row |-> rows[i]]],
                 Goto(r, "reread", "post"), UNCHANGED <<faults, acct, reply, lockVars>>
          PROVE  TypeOK'
      <4>1. [id |-> i, row |-> rows[i]] \in Copy
        BY <3>1 DEF Found, Matches, Copy, TypeOK
      <4>2. [id |-> i, row |-> rows[i]] # NoCopy
        BY DEF RowId, NoCopy
      <4>3. QED
        BY <1>6, <3>1, <4>1, <4>2 DEF Reread, TypeOK
    <3>2. CASE Goto(r, "reread", "post") /\ UNCHANGED <<acct, tok, reply, lockVars>>
      BY <1>6, <3>2 DEF Reread, TypeOK, Fault
    <3>3. QED
      BY <1>6, <2>2, <3>1, <3>2 DEF Reread
  <2>3. QED
    BY <2>1, <2>2
<1>7. CASE Post(r)
  <2> DEFINE t == tok[r].row.refresh
             next == [grant |-> t.grant, gen |-> t.gen + 1]
  <2>1. t \in RefreshToken \cup {NoRefresh}
    BY <1>7 DEF Post, TypeOK, Copy, Row
  <2>2. ASSUME NEW new \in {NoRefresh, next}, t # NoRefresh, Rotates(t, new)
        PROVE  live' \in [Callback -> Nat] /\ new \in RefreshToken \cup {NoRefresh}
    <3>1. t.grant \in Callback /\ t.gen \in Nat /\ next \in RefreshToken
      BY <2>1, <2>2 DEF RefreshToken
    <3>2. CASE new = NoRefresh /\ UNCHANGED live
      BY <3>2 DEF TypeOK
    <3>3. CASE live' = [live EXCEPT ![t.grant] = new.gen] /\ new = [t EXCEPT !.gen = @ + 1]
      BY <2>1, <2>2, <3>1, <3>3 DEF TypeOK, RefreshToken
    <3>4. QED
      BY <2>2, <3>2, <3>3 DEF Rotates
  <2>3. CASE Return(r)
    <3>1. faults' \in Nat
      BY <1>7 DEF Post, Fault, TypeOK
    <3>2. live' \in [Callback -> Nat]
      BY <1>7, <2>2 DEF Post, Accepts, TypeOK
    <3>3. QED
      BY <1>7, <2>3, <3>1, <3>2, ReturnType DEF Post, TypeOK, RowsOK
  <2>4. CASE ~Return(r)
    <3>1. PICK e \in GivesExpiry, new \in {NoRefresh, next} :
            /\ Accepts(t)
            /\ Rotates(t, new)
            /\ reply' = [reply EXCEPT ![r] = [refresh |-> new, exp |-> e]]
            /\ Goto(r, "post", "store")
            /\ UNCHANGED <<faults, acct, tok, wants, holds>>
      BY <1>7, <2>4 DEF Post
    <3>2. live' \in [Callback -> Nat] /\ new \in RefreshToken \cup {NoRefresh}
      BY <2>2, <3>1 DEF Accepts
    <3>3. [refresh |-> new, exp |-> e] \in Reply
      BY <3>2, ChoicesAreKnown DEF Reply, Expiry
    <3>4. [refresh |-> new, exp |-> e] # NoRefresh
      BY <3>3, NullsAreNew
    <3>5. QED
      BY <1>7, <3>1, <3>2, <3>3, <3>4 DEF Post, TypeOK
  <2>5. QED
    BY <2>3, <2>4
<1>8. CASE Store(r)
  <2>1. tok[r] \in Copy /\ reply[r] \in Reply
    BY <1>8 DEF Store, TypeOK
  <2>2. RowsOK'
    BY <1>8, <2>1, UpdateLemma, RefreshedIsRow DEF Store, TypeOK, RowsOK, Copy
  <2>3. QED
    BY <1>8, <2>2, ReturnType DEF Store, TypeOK, Fault
<1>9. QED
  BY <1>1, <1>2, <1>3, <1>4, <1>5, <1>6, <1>7, <1>8 DEF Serve, Refresh

LEMMA InsertLemma ==
    ASSUME TypeOK, NEW row \in Row, InsertToken(row)
    PROVE  RowsOK' /\ created' \in 0 .. MaxRow
<1>1. CASE NoneFound(row.acct)
  <2>1. created + 1 \in RowId
    BY <1>1, BoundsAreNat DEF InsertToken, TypeOK, RowId
  <2>2. QED
    BY <1>1, <2>1, BoundsAreNat DEF InsertToken, TypeOK, RowsOK
<1>2. CASE ~NoneFound(row.acct)
  BY <1>2 DEF InsertToken, TypeOK, RowsOK
<1>3. QED
  BY <1>1, <1>2

LEMMA CallbackType ==
    ASSUME TypeOK, NEW c \in Callback, Complete(c) PROVE TypeOK'
<1> USE DEF CGoto, reqVars, lockVars
<1>1. CASE Exchange(c)
  <2>1. CASE cpc' = [cpc EXCEPT ![c] = "done"] /\ UNCHANGED <<live, cacct, cnew>>
    BY <1>1, <2>1 DEF Exchange, TypeOK
  <2>2. CASE \E a \in Account, g \in GivesRefresh, e \in GivesExpiry :
               /\ live' = [live EXCEPT ![c] = IF g THEN 1 ELSE 0]
               /\ cacct' = [cacct EXCEPT ![c] = a]
               /\ cpc' = [cpc EXCEPT ![c] = "find"]
               /\ cnew' = [cnew EXCEPT ![c] =
                    [refresh |-> IF g THEN [grant |-> c, gen |-> 1] ELSE NoRefresh, exp |-> e]]
    <3> PICK a \in Account, g \in GivesRefresh, e \in GivesExpiry :
               /\ live' = [live EXCEPT ![c] = IF g THEN 1 ELSE 0]
               /\ cacct' = [cacct EXCEPT ![c] = a]
               /\ cpc' = [cpc EXCEPT ![c] = "find"]
               /\ cnew' = [cnew EXCEPT ![c] =
                    [refresh |-> IF g THEN [grant |-> c, gen |-> 1] ELSE NoRefresh, exp |-> e]]
      BY <2>2
    <3>1. [refresh |-> IF g THEN [grant |-> c, gen |-> 1] ELSE NoRefresh, exp |-> e] \in Reply
      BY ChoicesAreKnown DEF Reply, RefreshToken, Expiry
    <3>2. QED
      BY <1>1, <3>1 DEF Exchange, TypeOK
  <2>3. QED
    BY <1>1, <2>1, <2>2 DEF Exchange
<1>2. CASE FindExisting(c)
  <2>1. ctok' \in [Callback -> Copy \cup {NoCopy}]
    <3>1. CASE UNCHANGED ctok
      BY <3>1 DEF TypeOK
    <3>2. ASSUME NEW i \in RowId, Found(i, cacct[c]),
                 ctok' = [ctok EXCEPT ![c] = [id |-> i, row |-> rows[i]]]
          PROVE  ctok' \in [Callback -> Copy \cup {NoCopy}]
      <4>1. [id |-> i, row |-> rows[i]] \in Copy
        BY <3>2 DEF Found, Matches, Copy, TypeOK
      <4>2. QED
        BY <3>2, <4>1 DEF TypeOK
    <3>3. QED
      BY <1>2, <3>1, <3>2 DEF FindExisting
  <2>2. QED
    BY <1>2, <2>1 DEF FindExisting, TypeOK, Fault
<1>3. CASE StoreGrant(c)
  <2>1. cpc[c] = "write"
    BY <1>3 DEF StoreGrant
  <2>2. RowsOK' /\ created' \in 0 .. MaxRow
    <3>1. CASE ctok[c] = NoCopy /\ InsertToken(Connected(c))
      BY <2>1, <3>1, InsertLemma, ConnectedIsRow
    <3>2. CASE ctok[c] # NoCopy /\ UpdateToken(ctok[c].id, Reconnected(c)) /\ UNCHANGED created
      <4>1. ctok[c].id \in RowId
        BY <3>2 DEF TypeOK, Copy
      <4>2. QED
        BY <2>1, <3>2, <4>1, UpdateLemma, ConnectedIsRow DEF TypeOK, RowsOK
    <3>3. CASE UNCHANGED <<rows, created>>
      BY <3>3 DEF TypeOK, RowsOK
    <3>4. QED
      BY <1>3, <3>1, <3>2, <3>3 DEF StoreGrant
  <2>3. QED
    BY <1>3, <2>2 DEF StoreGrant, TypeOK, RowsOK, Fault
<1>4. QED
  BY <1>1, <1>2, <1>3 DEF Complete

LEMMA RemovalType ==
    ASSUME TypeOK,
           DeleteConfig \/ DeleteProvider \/ \E i \in RowId : DeleteToken(i) \/ Expire(i)
    PROVE  TypeOK'
<1> USE DEF reqVars, lockVars, cbVars
<1>1. CASE DeleteConfig
  BY <1>1 DEF DeleteConfig, TypeOK
<1>2. CASE DeleteProvider
  BY <1>2 DEF DeleteProvider, TypeOK
<1>3. ASSUME NEW i \in RowId, DeleteToken(i) PROVE TypeOK'
  BY <1>3 DEF DeleteToken, TypeOK
<1>4. ASSUME NEW i \in RowId, Expire(i) PROVE TypeOK'
  <2>1. rows[i] \in Row
    BY <1>4 DEF Expire, TypeOK
  <2>2. [rows[i] EXCEPT !.exp = "due"] \in Row
    BY <2>1 DEF Row, Expiry
  <2>3. rows' = [rows EXCEPT ![i] = [rows[i] EXCEPT !.exp = "due"]]
    BY <1>4 DEF Expire
  <2>4. QED
    BY <1>4, <2>2, <2>3 DEF Expire, TypeOK
<1>5. QED
  BY <1>1, <1>2, <1>3, <1>4

\* Every variable keeps its type; a request past the lookup always has a row in
\* hand, and an answer before it stores one (oauthtoken.go:113-121, 200-237).
THEOREM TypeCorrect == Spec => []TypeOK
<1>1. TypeOK /\ UNCHANGED vars => TypeOK'
  BY DEF TypeOK, vars, reqVars, lockVars, cbVars
<1>2. TypeOK /\ [Next]_vars => TypeOK'
  BY <1>1, RequestType, CallbackType, RemovalType DEF Next
<1>3. QED
  BY <1>2, InitType, PTL DEF Spec

-----------------------------------------------------------------------------
\* What a step may do to the table: nothing, an UPDATE of one row, the INSERT of an
\* account that has none, or a removal.

Unborn == \A i \in RowId : i > created => rows[i] = NoRow

Keeps == KeepsShape /\ UNCHANGED created

Inserts == \E a \in Account :
             /\ NoneFound(a)
             /\ created + 1 \in RowId /\ created' = created + 1
             /\ rows'[created + 1] # NoRow /\ rows'[created + 1].acct = a
             /\ \A j \in RowId : j # created + 1 => rows'[j] = rows[j]

Removes == /\ \A j \in RowId : rows'[j] = NoRow \/ rows'[j] = rows[j]
           /\ UNCHANGED created

LEMMA SameRows == UNCHANGED <<rows, created>> => Keeps
BY DEF Keeps, KeepsShape

LEMMA RequestTable ==
    ASSUME TypeOK, NEW r \in Req,
           Serve(r) \/ \E a \in Account \cup {AnyAccount} : GetAccessToken(r, a)
    PROVE  Keeps
<1>1. CASE Store(r)
  <2>1. tok[r] \in Copy /\ reply[r] \in Reply
    BY <1>1 DEF Store, TypeOK
  <2>2. CASE UNCHANGED rows
    BY <1>1, <2>2, SameRows DEF Store
  <2>3. CASE UpdateToken(tok[r].id, Refreshed(tok[r], reply[r]))
    BY <1>1, <2>1, <2>3, UpdateLemma, RefreshedIsRow DEF Store, TypeOK, RowsOK, Copy, Keeps
  <2>4. QED
    BY <1>1, <2>2, <2>3 DEF Store
<1>2. CASE ~Store(r)
  BY <1>2, SameRows DEF Serve, Refresh, GetAccessToken, ResolveProvider, FindToken,
     ReadProvider, LockRow, Reread, Post
<1>3. QED
  BY <1>1, <1>2

LEMMA CallbackTable ==
    ASSUME TypeOK, NEW c \in Callback, Complete(c) PROVE Keeps \/ Inserts
<1>1. CASE ~StoreGrant(c)
  BY <1>1, SameRows DEF Complete, Exchange, FindExisting
<1>2. CASE StoreGrant(c)
  <2>1. cpc[c] = "write" /\ cacct[c] \in Account
    BY <1>2 DEF StoreGrant, CGoto, TypeOK
  <2>2. CASE UNCHANGED <<rows, created>>
    BY <2>2, SameRows
  <2>3. CASE ctok[c] # NoCopy /\ UpdateToken(ctok[c].id, Reconnected(c)) /\ UNCHANGED created
    BY <2>1, <2>3, UpdateLemma, ConnectedIsRow DEF TypeOK, RowsOK, Copy, Keeps
  <2>4. CASE InsertToken(Connected(c))
    <3>1. Connected(c) \in Row /\ Connected(c).acct = cacct[c]
      BY <2>1, ConnectedIsRow
    <3>2. CASE ~NoneFound(cacct[c])
      BY <2>4, <3>1, <3>2, SameRows DEF InsertToken
    <3>3. CASE NoneFound(cacct[c])
      <4>1. /\ created < MaxRow /\ created' = created + 1
            /\ rows' = [rows EXCEPT ![created + 1] = Connected(c)]
        BY <2>4, <3>1, <3>3 DEF InsertToken
      <4>2. created + 1 \in RowId
        BY <4>1, BoundsAreNat DEF TypeOK, RowId
      <4>3. QED
        BY <2>1, <3>1, <3>3, <4>1, <4>2, NullsAreNew DEF Inserts, TypeOK
    <3>4. QED
      BY <3>2, <3>3
  <2>5. QED
    BY <1>2, <2>2, <2>3, <2>4 DEF StoreGrant
<1>3. QED
  BY <1>1, <1>2

LEMMA RemovalTable ==
    ASSUME TypeOK,
           DeleteConfig \/ DeleteProvider \/ \E i \in RowId : DeleteToken(i) \/ Expire(i)
    PROVE  Keeps \/ (Removes /\ Removals \cap {"token", "provider"} # {})
<1>1. CASE DeleteConfig
  BY <1>1, SameRows DEF DeleteConfig
<1>2. CASE DeleteProvider
  BY <1>2 DEF DeleteProvider, Removes
<1>3. ASSUME NEW i \in RowId, DeleteToken(i)
      PROVE  Removes /\ Removals \cap {"token", "provider"} # {}
  BY <1>3 DEF DeleteToken, Removes, TypeOK
<1>4. ASSUME NEW i \in RowId, Expire(i) PROVE Keeps
  <2>1. rows[i] \in Row
    BY <1>4 DEF Expire, TypeOK
  <2>2. [rows[i] EXCEPT !.exp = "due"] \in Row /\ [rows[i] EXCEPT !.exp = "due"].acct = rows[i].acct
    BY <2>1 DEF Row, Expiry
  <2>3. rows' = [rows EXCEPT ![i] = [rows[i] EXCEPT !.exp = "due"]]
    BY <1>4 DEF Expire
  <2>4. QED
    BY <1>4, <2>2, <2>3, NullsAreNew DEF Expire, Keeps, KeepsShape, TypeOK
<1>5. QED
  BY <1>1, <1>2, <1>3, <1>4

LEMMA TableStep ==
    ASSUME TypeOK, [Next]_vars
    PROVE  Keeps \/ Inserts \/ (Removes /\ Removals \cap {"token", "provider"} # {})
<1>1. CASE UNCHANGED vars
  BY <1>1, SameRows DEF vars
<1>2. QED
  BY <1>1, RequestTable, CallbackTable, RemovalTable DEF Next

-----------------------------------------------------------------------------
TableInv == TypeOK /\ Unborn /\ OneRowPerAccount

LEMMA TableInvStep ==
    ASSUME TableInv, TypeOK', [Next]_vars PROVE TableInv'
<1>1. CASE Keeps
  BY <1>1 DEF TableInv, Unborn, OneRowPerAccount, Keeps, KeepsShape
<1>2. CASE Removes
  BY <1>2 DEF TableInv, Unborn, OneRowPerAccount, Removes
<1>3. CASE Inserts
  <2> PICK a \in Account :
             /\ NoneFound(a)
             /\ created + 1 \in RowId /\ created' = created + 1
             /\ rows'[created + 1] # NoRow /\ rows'[created + 1].acct = a
             /\ \A j \in RowId : j # created + 1 => rows'[j] = rows[j]
    BY <1>3 DEF Inserts
  <2>1. \A i \in RowId : rows[i] # NoRow => rows[i].acct # a
    BY DEF NoneFound, Matches
  <2>2. Unborn'
    BY DEF TableInv, Unborn, TypeOK, RowId
  <2>3. OneRowPerAccount'
    BY <2>1 DEF TableInv, OneRowPerAccount
  <2>4. QED
    BY <2>2, <2>3 DEF TableInv
<1>4. QED
  BY <1>1, <1>2, <1>3, TableStep DEF TableInv

LEMMA TableInvariance == Spec => []TableInv
<1>1. Init => TableInv
  BY InitType DEF Init, TableInv, Unborn, OneRowPerAccount
<1>2. TableInv /\ TypeOK' /\ [Next]_vars => TableInv'
  BY TableInvStep
<1>3. QED
  BY <1>1, <1>2, TypeCorrect, PTL DEF Spec

\* However many callbacks race to connect one account, it has one row
\* (oauthflow.go:279-289, 0001_baseline.sql:98).
THEOREM UniqueRows == Spec => []OneRowPerAccount
<1>1. TableInv => OneRowPerAccount
  BY DEF TableInv
<1>2. QED
  BY <1>1, TableInvariance, PTL

\* No refresh and no callback brings a removed row back, however long ago it read
\* it (postgres.go:332-338).
THEOREM NoResurrection == Spec => RemovedStaysRemoved
<1> DEFINE StaysRemoved == \A i \in RowId : i <= created /\ rows[i] = NoRow => rows'[i] = NoRow
<1>1. ASSUME TableInv, [Next]_vars PROVE StaysRemoved
  <2>1. CASE Keeps
    BY <2>1 DEF Keeps, KeepsShape
  <2>2. CASE Removes
    BY <2>2 DEF Removes
  <2>3. CASE Inserts
    <3>1. created \in Nat
      BY <1>1, BoundsAreNat DEF TableInv, TypeOK
    <3>2. ASSUME NEW i \in RowId, i <= created, rows[i] = NoRow PROVE rows'[i] = NoRow
      <4>1. i \in Nat /\ i # created + 1
        BY <3>1, <3>2 DEF RowId
      <4>2. QED
        BY <2>3, <3>2, <4>1 DEF Inserts
    <3>3. QED
      BY <3>2
  <2>4. QED
    BY <1>1, <2>1, <2>2, <2>3, TableStep DEF TableInv
<1>2. TableInv /\ [Next]_vars => [StaysRemoved]_vars
  BY <1>1
<1>3. QED
  BY <1>2, TableInvariance, PTL DEF Spec, RemovedStaysRemoved

-----------------------------------------------------------------------------
\* Where no row is removed, the lock a request takes, named by the row of its first
\* read, is the lock of the row it goes on to refresh: the row it reads again under
\* the lock is the one row of the same account.

NoRowRemoved == Removals \subseteq {"config"}

\* The row in hand is in the table, under the account of the copy.
InHand(r) ==
    pc[r] \in {"provider", "lock", "reread", "post", "store"} =>
      /\ tok[r].id \in RowId
      /\ rows[tok[r].id] # NoRow
      /\ rows[tok[r].id].acct = tok[r].row.acct

\* A request waits for, and later holds, the lock of the row in hand, and no other.
Locked(r) ==
    /\ pc[r] = "lock" => wants[r] = tok[r].id
    /\ pc[r] \in {"reread", "post", "store"} => holds[r] = tok[r].id
    /\ pc[r] \in {"idle", "resolve", "find", "provider", "lock"} => holds[r] = 0

Exclusive == \A r, s \in Req : r # s /\ holds[r] # 0 => holds[s] # holds[r]

SerialInv == TableInv /\ Exclusive /\ \A r \in Req : InHand(r) /\ Locked(r)

\* The rows of two tables that agree on presence and account serve every request
\* that does not move.
LEMMA HandStays ==
    ASSUME NEW r \in Req, InHand(r), Locked(r), TypeOK,
           KeepsShape \/ (Inserts /\ Unborn),
           pc'[r] = pc[r], tok'[r] = tok[r], wants'[r] = wants[r], holds'[r] = holds[r]
    PROVE  InHand(r)' /\ Locked(r)'
<1>1. Locked(r)'
  BY DEF Locked
<1>2. ASSUME NEW i \in RowId, rows[i] # NoRow
      PROVE  rows'[i] # NoRow /\ rows'[i].acct = rows[i].acct
  <2>1. CASE KeepsShape
    BY <1>2, <2>1 DEF KeepsShape
  <2>2. CASE Inserts /\ Unborn
    <3>1. created \in Nat /\ i \in Nat
      BY BoundsAreNat DEF TypeOK, RowId
    <3>2. i # created + 1
      BY <1>2, <2>2, <3>1 DEF Unborn
    <3>3. QED
      BY <1>2, <2>2, <3>2 DEF Inserts
  <2>3. QED
    BY <2>1, <2>2
<1>3. InHand(r)'
  BY <1>2 DEF InHand
<1>4. QED
  BY <1>1, <1>3

\* A request that returns gives its lock back; the lock it is granted was free.
LEMMA ReturnSerial ==
    ASSUME TypeOK, Exclusive, NEW r \in Req, Return(r)
    PROVE  /\ InHand(r)' /\ Locked(r)' /\ Exclusive'
           /\ \A s \in Req \ {r} : /\ pc'[s] = pc[s] /\ tok'[s] = tok[s]
                                   /\ wants'[s] = wants[s] /\ holds'[s] = holds[s]
<1>1. /\ pc'[r] = "idle" /\ holds'[r] = 0
      /\ \A s \in Req \ {r} : /\ pc'[s] = pc[s] /\ tok'[s] = tok[s]
                              /\ wants'[s] = wants[s] /\ holds'[s] = holds[s]
  BY DEF Return, TypeOK, lockVars, Locks!Free
<1>2. InHand(r)' /\ Locked(r)'
  BY <1>1 DEF InHand, Locked
<1>3. Exclusive'
  BY <1>1 DEF Exclusive
<1>4. QED
  BY <1>1, <1>2, <1>3

LEMMA RequestSerial ==
    ASSUME SerialInv, NEW r \in Req,
           Serve(r) \/ \E a \in Account \cup {AnyAccount} : GetAccessToken(r, a)
    PROVE  /\ InHand(r)' /\ Locked(r)' /\ Exclusive'
           /\ \A s \in Req \ {r} : /\ pc'[s] = pc[s] /\ tok'[s] = tok[s]
                                   /\ wants'[s] = wants[s] /\ holds'[s] = holds[s]
<1> DEFINE Others == \A s \in Req \ {r} : /\ pc'[s] = pc[s] /\ tok'[s] = tok[s]
                                          /\ wants'[s] = wants[s] /\ holds'[s] = holds[s]
<1> USE DEF Goto, lockVars
<1>0. TypeOK /\ Exclusive /\ InHand(r) /\ Locked(r) /\ OneRowPerAccount
  BY DEF SerialInv, TableInv
<1>1. CASE Return(r)
  BY <1>0, <1>1, ReturnSerial
<1>2. ASSUME NEW a \in Account \cup {AnyAccount}, GetAccessToken(r, a)
      PROVE  InHand(r)' /\ Locked(r)' /\ Exclusive' /\ Others
  BY <1>0, <1>2 DEF GetAccessToken, TypeOK, InHand, Locked, Exclusive
<1>3. CASE ResolveProvider(r) /\ ~Return(r)
  BY <1>0, <1>3 DEF ResolveProvider, TypeOK, InHand, Locked, Exclusive
<1>4. CASE FindToken(r) /\ ~Return(r)
  <2>1. PICK i \in RowId : /\ Found(i, acct[r]) /\ pc[r] = "find"
                           /\ tok' = [tok EXCEPT ![r] = [id |-> i, row |-> rows[i]]]
                           /\ pc' = [pc EXCEPT ![r] = "provider"]
                           /\ UNCHANGED <<rows, wants, holds>>
    BY <1>4 DEF FindToken
  <2>2. tok'[r] = [id |-> i, row |-> rows[i]] /\ rows[i] # NoRow
    BY <1>0, <2>1 DEF TypeOK, Found, Matches
  <2>3. InHand(r)'
    BY <2>1, <2>2 DEF InHand
  <2>4. Locked(r)' /\ Exclusive' /\ Others
    BY <1>0, <2>1 DEF TypeOK, Locked, Exclusive
  <2>5. QED
    BY <2>3, <2>4
<1>5. CASE ReadProvider(r) /\ ~Return(r)
  BY <1>0, <1>5 DEF ReadProvider, Locks!Ask, TypeOK, InHand, Locked, Exclusive
<1>6. CASE LockRow(r)
  <2>1. /\ pc[r] = "lock" /\ pc' = [pc EXCEPT ![r] = "reread"]
        /\ wants[r] # 0 /\ holds' = [holds EXCEPT ![r] = wants[r]]
        /\ \A s \in Req : holds[s] # wants[r]
        /\ UNCHANGED <<rows, tok, wants>>
    BY <1>6 DEF LockRow, Locks!Grant
  <2>2. InHand(r)' /\ Locked(r)' /\ Others
    BY <1>0, <2>1 DEF TypeOK, InHand, Locked
  <2>3. Exclusive'
    BY <1>0, <2>1 DEF TypeOK, Exclusive
  <2>4. QED
    BY <2>2, <2>3
<1>7. CASE Reread(r) /\ ~Return(r)
  <2>1. /\ pc[r] = "reread" /\ pc' = [pc EXCEPT ![r] = "post"]
        /\ UNCHANGED <<rows, wants, holds>>
    BY <1>7 DEF Reread
  <2>2. CASE UNCHANGED tok
    BY <1>0, <2>1, <2>2 DEF TypeOK, InHand, Locked, Exclusive
  <2>3. ASSUME NEW i \in RowId, Found(i, tok[r].row.acct),
               tok' = [tok EXCEPT ![r] = [id |-> i, row |-> rows[i]]]
        PROVE  InHand(r)' /\ Locked(r)' /\ Exclusive' /\ Others
    <3>1. tok'[r] = [id |-> i, row |-> rows[i]]
      BY <1>0, <2>3 DEF TypeOK
    <3>2. /\ tok[r].id \in RowId /\ rows[tok[r].id] # NoRow
          /\ rows[tok[r].id].acct = tok[r].row.acct
      BY <1>0, <2>1 DEF InHand
    <3>3. tok[r].row.acct # AnyAccount
      <4>1. rows[tok[r].id] \in Row
        BY <1>0, <3>2 DEF TypeOK
      <4>2. QED
        BY <3>2, <4>1, NullsAreNew DEF Row
    <3>4. i = tok[r].id
      BY <1>0, <2>3, <3>2, <3>3 DEF Found, Matches, OneRowPerAccount
    <3>5. QED
      BY <1>0, <2>1, <2>3, <3>1, <3>2, <3>4 DEF TypeOK, InHand, Locked, Exclusive
  <2>4. QED
    BY <1>7, <2>2, <2>3 DEF Reread
<1>8. CASE Post(r) /\ ~Return(r)
  BY <1>0, <1>8 DEF Post, TypeOK, InHand, Locked, Exclusive
<1>9. CASE Store(r)
  BY <1>1, <1>9 DEF Store
<1>10. QED
  BY <1>1, <1>2, <1>3, <1>4, <1>5, <1>6, <1>7, <1>8, <1>9 DEF Serve, Refresh

LEMMA SerialStep ==
    ASSUME NoRowRemoved, SerialInv, TypeOK', [Next]_vars PROVE SerialInv'
<1>1. TableInv' /\ TypeOK
  BY TableInvStep DEF SerialInv, TableInv
<1>2. KeepsShape \/ (Inserts /\ Unborn)
  BY <1>1, TableStep DEF NoRowRemoved, Keeps, SerialInv, TableInv
<1>3. ASSUME NEW r \in Req,
             Serve(r) \/ \E a \in Account \cup {AnyAccount} : GetAccessToken(r, a)
      PROVE  Exclusive' /\ \A s \in Req : InHand(s)' /\ Locked(s)'
  <2>1. /\ InHand(r)' /\ Locked(r)' /\ Exclusive'
        /\ \A s \in Req \ {r} : /\ pc'[s] = pc[s] /\ tok'[s] = tok[s]
                                /\ wants'[s] = wants[s] /\ holds'[s] = holds[s]
    BY <1>3, RequestSerial
  <2>2. ASSUME NEW s \in Req \ {r} PROVE InHand(s)' /\ Locked(s)'
    BY <1>1, <1>2, <2>1, HandStays DEF SerialInv
  <2>3. QED
    BY <2>1, <2>2
<1>4. CASE UNCHANGED <<pc, tok, wants, holds>>
  <2>1. Exclusive'
    BY <1>4 DEF SerialInv, Exclusive
  <2>2. ASSUME NEW s \in Req PROVE InHand(s)' /\ Locked(s)'
    BY <1>1, <1>2, <1>4, HandStays DEF SerialInv
  <2>3. QED
    BY <1>1, <2>1, <2>2 DEF SerialInv
<1>5. (UNCHANGED vars \/ \E c \in Callback : Complete(c)) => UNCHANGED <<pc, tok, wants, holds>>
  BY DEF vars, reqVars, lockVars, Complete, Exchange, FindExisting, StoreGrant
<1>6. (DeleteConfig \/ DeleteProvider \/ \E i \in RowId : DeleteToken(i) \/ Expire(i))
        => UNCHANGED <<pc, tok, wants, holds>>
  BY DEF reqVars, lockVars, DeleteConfig, DeleteProvider, DeleteToken, Expire
<1>7. QED
  BY <1>1, <1>3, <1>4, <1>5, <1>6 DEF Next, SerialInv

\* As long as no row is removed, no two requests refresh one row at the same time,
\* whatever fails and however often it is reconnected (oauthtoken.go:48, 161-171).
THEOREM SerialRefresh ==
    ASSUME NoRowRemoved PROVE Spec => []OneRefreshPerRow
<1>1. Init => SerialInv
  <2>1. Init => TableInv
    BY InitType DEF Init, TableInv, Unborn, OneRowPerAccount
  <2>2. Init => Exclusive /\ \A r \in Req : InHand(r) /\ Locked(r)
    BY DEF Init, Locks!Init, Exclusive, InHand, Locked
  <2>3. QED
    BY <2>1, <2>2 DEF SerialInv
<1>2. SerialInv /\ TypeOK' /\ [Next]_vars => SerialInv'
  BY SerialStep
<1>3. SerialInv => OneRefreshPerRow
  <2> SUFFICES ASSUME SerialInv, NEW r \in Req, NEW s \in Req,
                      Refreshing(r), Refreshing(s), r # s
               PROVE  tok[r].id # tok[s].id
    BY DEF OneRefreshPerRow
  <2>1. holds[r] = tok[r].id /\ holds[s] = tok[s].id /\ tok[r].id \in RowId
    BY DEF Refreshing, SerialInv, Locked, InHand
  <2>2. holds[r] # 0
    BY <2>1 DEF RowId
  <2>3. QED
    BY <2>1, <2>2 DEF SerialInv, Exclusive
<1>4. QED
  BY <1>1, <1>2, <1>3, TypeCorrect, PTL DEF Spec

-----------------------------------------------------------------------------
\* Where the rows live: the table, and the copies the requests hold of it.

Held == {tok[r] : r \in {q \in Req : tok[q] # NoCopy}}
Places == {[id |-> i, row |-> rows[i]] : i \in {j \in RowId : rows[j] # NoRow}} \cup Held

\* A grant is in no row and in no copy before its own callback writes it.
Unwritten == \A c \in Callback : cpc[c] # "done" => \A p \in Places : p.row.grant # c

LEMMA PlacesType ==
    ASSUME TypeOK, NEW p \in Places PROVE p \in Copy
BY DEF Places, Held, TypeOK, Copy

LEMMA RowIsPlace ==
    ASSUME NEW i \in RowId, rows[i] # NoRow PROVE [id |-> i, row |-> rows[i]] \in Places
BY DEF Places

LEMMA CopyIsPlace ==
    ASSUME NEW r \in Req, tok[r] # NoCopy PROVE tok[r] \in Places
BY DEF Places, Held

\* The three kinds of writes to a row that is kept, and what they write.
WritesGrant(c) ==
    \E i \in RowId, w \in Row :
      /\ rows' = [rows EXCEPT ![i] = w]
      /\ w.grant = c
      /\ cnew[c].refresh # NoRefresh => w.refresh = cnew[c].refresh

WritesAnswer(r) ==
    \E w \in Row :
      /\ rows' = [rows EXCEPT ![tok[r].id] = w]
      /\ w.grant = tok[r].row.grant
      /\ w.refresh = Refreshed(tok[r], reply[r]).refresh

WritesExpiry(i) ==
    \E w \in Row :
      /\ rows' = [rows EXCEPT ![i] = w]
      /\ rows[i].exp = "fresh"
      /\ w.grant = rows[i].grant
      /\ w.refresh = rows[i].refresh

LEMMA GrantRows ==
    ASSUME TypeOK, NEW c \in Callback, Complete(c)
    PROVE  UNCHANGED rows \/ (StoreGrant(c) /\ WritesGrant(c))
<1>1. CASE ~StoreGrant(c)
  BY <1>1 DEF Complete, Exchange, FindExisting
<1>2. CASE StoreGrant(c)
  <2>1. cpc[c] = "write" /\ cnew[c] \in Reply
    BY <1>2 DEF StoreGrant, CGoto, TypeOK
  <2>2. Connected(c) \in Row
    BY <2>1, ConnectedIsRow
  <2>3. Connected(c).grant = c /\ Connected(c).refresh = cnew[c].refresh
    BY DEF Connected
  <2>4. CASE InsertToken(Connected(c))
    <3>1. CASE NoneFound(Connected(c).acct)
      <4>1. created + 1 \in RowId /\ rows' = [rows EXCEPT ![created + 1] = Connected(c)]
        BY <2>4, <3>1, BoundsAreNat DEF InsertToken, TypeOK, RowId
      <4>2. QED
        BY <1>2, <2>2, <2>3, <4>1 DEF WritesGrant
    <3>2. CASE ~NoneFound(Connected(c).acct)
      BY <2>4, <3>2 DEF InsertToken
    <3>3. QED
      BY <3>1, <3>2
  <2>5. CASE ctok[c] # NoCopy /\ UpdateToken(ctok[c].id, Reconnected(c))
    <3>1. CASE rows[ctok[c].id] = NoRow
      BY <2>5, <3>1 DEF UpdateToken
    <3>2. CASE rows[ctok[c].id] # NoRow
      <4> DEFINE i == ctok[c].id
                 w == [Reconnected(c) EXCEPT !.acct = rows[i].acct]
      <4>1. i \in RowId
        BY <2>5 DEF TypeOK, Copy
      <4>2. Reconnected(c) \in Row
        BY <2>1, <2>5, ConnectedIsRow
      <4>3. /\ Reconnected(c).grant = c
            /\ cnew[c].refresh # NoRefresh => Reconnected(c).refresh = cnew[c].refresh
        BY <2>2, <2>3 DEF Reconnected, Row
      <4>4. rows[i] \in Row
        BY <3>2, <4>1 DEF TypeOK
      <4>5. w \in Row /\ w.grant = Reconnected(c).grant /\ w.refresh = Reconnected(c).refresh
        BY <4>2, <4>4 DEF Row
      <4>6. rows' = [rows EXCEPT ![i] = w]
        BY <2>5, <3>2 DEF UpdateToken
      <4>7. QED
        BY <1>2, <4>1, <4>3, <4>5, <4>6 DEF WritesGrant
    <3>3. QED
      BY <3>1, <3>2
  <2>6. QED
    BY <1>2, <2>4, <2>5 DEF StoreGrant
<1>3. QED
  BY <1>1, <1>2

LEMMA AnswerWritten ==
    ASSUME TypeOK, NEW r \in Req, Store(r), rows[tok[r].id] # NoRow,
           UpdateToken(tok[r].id, Refreshed(tok[r], reply[r]))
    PROVE  WritesAnswer(r)
<1> DEFINE i == tok[r].id
           w == [Refreshed(tok[r], reply[r]) EXCEPT !.acct = rows[i].acct]
<1>1. tok[r] \in Copy /\ reply[r] \in Reply
  BY DEF Store, TypeOK
<1>2. Refreshed(tok[r], reply[r]) \in Row
  BY <1>1, RefreshedIsRow
<1>3. Refreshed(tok[r], reply[r]).grant = tok[r].row.grant
  BY <1>1 DEF Refreshed, Copy, Row
<1>4. rows[i] \in Row
  BY <1>1 DEF TypeOK, Copy
<1>5. /\ w \in Row
      /\ w.grant = Refreshed(tok[r], reply[r]).grant
      /\ w.refresh = Refreshed(tok[r], reply[r]).refresh
  BY <1>2, <1>4 DEF Row
<1>6. rows' = [rows EXCEPT ![i] = w]
  BY DEF UpdateToken
<1>7. QED
  BY <1>3, <1>5, <1>6 DEF WritesAnswer

LEMMA StoreRows ==
    ASSUME TypeOK, NEW r \in Req, Store(r)
    PROVE  tok[r] \in Copy /\ (UNCHANGED rows \/ WritesAnswer(r))
<1>1. tok[r] \in Copy
  BY DEF Store, TypeOK
<1>2. CASE UNCHANGED rows
  BY <1>1, <1>2
<1>3. CASE UpdateToken(tok[r].id, Refreshed(tok[r], reply[r])) /\ rows[tok[r].id] = NoRow
  BY <1>1, <1>3 DEF UpdateToken
<1>4. QED
  BY <1>1, <1>2, <1>3, AnswerWritten DEF Store

LEMMA ExpireRows ==
    ASSUME TypeOK, NEW i \in RowId, Expire(i) PROVE WritesExpiry(i)
<1>1. rows[i] \in Row
  BY DEF Expire, TypeOK
<1>2. /\ [rows[i] EXCEPT !.exp = "due"] \in Row
      /\ [rows[i] EXCEPT !.exp = "due"].grant = rows[i].grant
      /\ [rows[i] EXCEPT !.exp = "due"].refresh = rows[i].refresh
  BY <1>1 DEF Row, Expiry
<1>3. rows' = [rows EXCEPT ![i] = [rows[i] EXCEPT !.exp = "due"]]
  BY DEF Expire
<1>4. QED
  BY <1>2, <1>3 DEF WritesExpiry, Expire

\* A copy comes from the table: what a request holds after a step was a place before.
LEMMA CopyStep ==
    ASSUME TypeOK, NEW r \in Req,
           Serve(r) \/ \E a \in Account \cup {AnyAccount} : GetAccessToken(r, a)
    PROVE  Held' \subseteq Places
<1>1. tok' \in [Req -> Copy \cup {NoCopy}]
  BY RequestType DEF TypeOK
<1>2. \A s \in Req \ {r} : tok'[s] = tok[s]
  BY DEF GetAccessToken, Serve, Refresh, ResolveProvider, FindToken, ReadProvider, LockRow,
     Reread, Post, Store, Return, TypeOK
<1>3. tok'[r] \in {tok[r], NoCopy} \/ \E i \in RowId : rows[i] # NoRow /\ tok'[r] = [id |-> i, row |-> rows[i]]
  <2>1. CASE Return(r)
    BY <2>1 DEF Return, TypeOK
  <2>2. CASE UNCHANGED tok
    BY <2>2
  <2>3. CASE FindToken(r) \/ Reread(r)
    BY <2>1, <2>2, <2>3 DEF FindToken, Reread, Found, Matches, TypeOK
  <2>4. QED
    BY <2>1, <2>2, <2>3 DEF GetAccessToken, Serve, Refresh, ResolveProvider, ReadProvider,
       LockRow, Post, Store
<1>4. ASSUME NEW s \in Req, tok'[s] # NoCopy PROVE tok'[s] \in Places
  BY <1>2, <1>3, <1>4, RowIsPlace, CopyIsPlace
<1>5. QED
  BY <1>4 DEF Held

\* What a place of the next state is: one that was there, but for its expiry, or the
\* row a request or a callback has just written.
Kept(p) == \E q \in Places : /\ p.id = q.id
                             /\ p.row.grant = q.row.grant
                             /\ p.row.refresh = q.row.refresh

Answered(p, r) == /\ Store(r) /\ tok[r] \in Copy
                  /\ p.id = tok[r].id
                  /\ p.row.grant = tok[r].row.grant
                  /\ p.row.refresh = Refreshed(tok[r], reply[r]).refresh

Granted(p, c) == /\ StoreGrant(c)
                 /\ p.row.grant = c
                 /\ cnew[c].refresh # NoRefresh => p.row.refresh = cnew[c].refresh
                 /\ rows' = [rows EXCEPT ![p.id] = p.row]
                 /\ Held' = Held

LEMMA RowsPlaces ==
    ASSUME TypeOK, Held' \subseteq Places, NEW p \in Places'
    PROVE  \/ Kept(p)
           \/ /\ p.id \in RowId
              /\ p.row = rows'[p.id] /\ rows'[p.id] # rows[p.id] /\ rows'[p.id] # NoRow
<1>1. CASE p \in Held'
  BY <1>1 DEF Kept
<1>2. ASSUME NEW i \in RowId, rows'[i] # NoRow, p = [id |-> i, row |-> rows'[i]], rows'[i] = rows[i]
      PROVE  Kept(p)
  BY <1>2, RowIsPlace DEF Kept
<1>3. QED
  BY <1>1, <1>2 DEF Places

LEMMA RequestPlaces ==
    ASSUME TypeOK, NEW r \in Req,
           Serve(r) \/ \E a \in Account \cup {AnyAccount} : GetAccessToken(r, a),
           NEW p \in Places'
    PROVE  Kept(p) \/ Answered(p, r)
<1>1. Held' \subseteq Places
  BY CopyStep
<1>2. CASE UNCHANGED rows
  BY <1>1, <1>2, RowsPlaces
<1>3. CASE Store(r) /\ WritesAnswer(r)
  <2>1. tok[r] \in Copy
    BY <1>3, StoreRows
  <2>2. tok[r].id \in RowId
    BY <2>1 DEF Copy
  <2>3. PICK w \in Row : /\ rows' = [rows EXCEPT ![tok[r].id] = w]
                         /\ w.grant = tok[r].row.grant
                         /\ w.refresh = Refreshed(tok[r], reply[r]).refresh
    BY <1>3 DEF WritesAnswer
  <2>4. ASSUME p.id \in RowId, p.row = rows'[p.id], rows'[p.id] # rows[p.id] PROVE Answered(p, r)
    <3>1. p.id = tok[r].id /\ p.row = w
      BY <2>2, <2>3, <2>4 DEF TypeOK
    <3>2. QED
      BY <1>3, <2>1, <2>3, <3>1 DEF Answered
  <2>5. QED
    BY <1>1, <2>4, RowsPlaces
<1>4. UNCHANGED rows \/ (Store(r) /\ WritesAnswer(r))
  BY StoreRows DEF GetAccessToken, Serve, Refresh, ResolveProvider, FindToken, ReadProvider,
     LockRow, Reread, Post
<1>5. QED
  BY <1>2, <1>3, <1>4

LEMMA CallbackPlaces ==
    ASSUME TypeOK, NEW c \in Callback, Complete(c), NEW p \in Places'
    PROVE  Kept(p) \/ Granted(p, c)
<1>1. UNCHANGED tok
  BY DEF Complete, Exchange, FindExisting, StoreGrant, reqVars
<1>2. Held' = Held /\ Held \subseteq Places
  BY <1>1 DEF Held, Places
<1>3. CASE UNCHANGED rows
  BY <1>2, <1>3, RowsPlaces
<1>4. CASE StoreGrant(c) /\ WritesGrant(c)
  <2>1. PICK i \in RowId, w \in Row :
          /\ rows' = [rows EXCEPT ![i] = w]
          /\ w.grant = c
          /\ cnew[c].refresh # NoRefresh => w.refresh = cnew[c].refresh
    BY <1>4 DEF WritesGrant
  <2>2. ASSUME p.id \in RowId, p.row = rows'[p.id], rows'[p.id] # rows[p.id] PROVE Granted(p, c)
    <3>1. p.id = i /\ p.row = w
      BY <2>1, <2>2 DEF TypeOK
    <3>2. QED
      BY <1>2, <1>4, <2>1, <3>1 DEF Granted
  <2>3. QED
    BY <1>2, <2>2, RowsPlaces
<1>5. QED
  BY <1>3, <1>4, GrantRows

LEMMA RemovalPlaces ==
    ASSUME TypeOK, NEW p \in Places',
           DeleteConfig \/ DeleteProvider \/ \E i \in RowId : DeleteToken(i) \/ Expire(i)
    PROVE  Kept(p)
<1>1. UNCHANGED tok
  BY DEF DeleteConfig, DeleteProvider, DeleteToken, Expire, reqVars
<1>2. Held' \subseteq Places
  BY <1>1 DEF Held, Places
<1>3. CASE DeleteConfig
  BY <1>2, <1>3, RowsPlaces DEF DeleteConfig
<1>4. CASE DeleteProvider
  BY <1>2, <1>4, RowsPlaces DEF DeleteProvider
<1>5. ASSUME NEW i \in RowId, DeleteToken(i) PROVE Kept(p)
  BY <1>2, <1>5, RowsPlaces DEF DeleteToken, TypeOK
<1>6. ASSUME NEW i \in RowId, Expire(i) PROVE Kept(p)
  <2>1. PICK w \in Row : /\ rows' = [rows EXCEPT ![i] = w]
                         /\ w.grant = rows[i].grant /\ w.refresh = rows[i].refresh
    BY <1>6, ExpireRows DEF WritesExpiry
  <2>2. [id |-> i, row |-> rows[i]] \in Places
    BY <1>6, RowIsPlace DEF Expire
  <2>3. ASSUME p.id \in RowId, p.row = rows'[p.id], rows'[p.id] # rows[p.id] PROVE Kept(p)
    <3>1. p.id = i /\ p.row = w
      BY <2>1, <2>3 DEF TypeOK
    <3>2. QED
      BY <2>1, <2>2, <3>1 DEF Kept
  <2>4. QED
    BY <1>2, <2>3, RowsPlaces
<1>7. QED
  BY <1>3, <1>4, <1>5, <1>6

\* Of the callbacks, a step moves at most the one that takes it.
LEMMA UnwrittenStep ==
    ASSUME TypeOK, Unwritten, [Next]_vars PROVE Unwritten'
<1> SUFFICES ASSUME NEW c \in Callback, cpc'[c] # "done", NEW p \in Places'
             PROVE  p.row.grant # c
  BY DEF Unwritten
<1>1. cpc[c] # "done"
  BY DEF Next, vars, cbVars, GetAccessToken, Serve, Refresh, ResolveProvider, FindToken,
     ReadProvider, LockRow, Reread, Post, Store, Complete, Exchange, FindExisting, StoreGrant,
     CGoto, DeleteConfig, DeleteProvider, DeleteToken, Expire, TypeOK
<1>2. \A q \in Places : q.row.grant # c
  BY <1>1 DEF Unwritten
<1>3. Kept(p) => p.row.grant # c
  BY <1>2 DEF Kept
<1>4. CASE UNCHANGED vars
  BY <1>2, <1>4 DEF vars, reqVars, Places, Held
<1>5. ASSUME NEW r \in Req,
             Serve(r) \/ \E a \in Account \cup {AnyAccount} : GetAccessToken(r, a)
      PROVE  p.row.grant # c
  <2>1. CASE Answered(p, r)
    <3>1. tok[r] \in Places
      BY <2>1, CopyIsPlace DEF Answered, Store, TypeOK
    <3>2. QED
      BY <1>2, <2>1, <3>1 DEF Answered
  <2>2. QED
    BY <1>3, <1>5, <2>1, RequestPlaces
<1>6. ASSUME NEW d \in Callback, Complete(d) PROVE p.row.grant # c
  <2>1. CASE Granted(p, d)
    <3>1. cpc'[d] = "done"
      BY <2>1 DEF Granted, StoreGrant, CGoto, TypeOK
    <3>2. QED
      BY <2>1, <3>1 DEF Granted
  <2>2. QED
    BY <1>3, <1>6, <2>1, CallbackPlaces
<1>7. CASE DeleteConfig \/ DeleteProvider \/ \E i \in RowId : DeleteToken(i) \/ Expire(i)
  BY <1>3, <1>7, RemovalPlaces
<1>8. QED
  BY <1>4, <1>5, <1>6, <1>7 DEF Next

-----------------------------------------------------------------------------
\* What a request is about to post, as long as nothing has failed: the stored row, or
\* a row that a callback has overwritten with its own grant since.
Current(r) ==
    faults = 0 /\ pc[r] = "post" =>
      \/ rows[tok[r].id] = tok[r].row /\ tok[r].row.exp # "fresh"
      \/ rows[tok[r].id].grant # tok[r].row.grant

CurrentInv == SerialInv /\ Unwritten /\ \A r \in Req : Current(r)

\* A write to the row in hand by anyone else leaves the request what it may post.
LEMMA CurrentStays ==
    ASSUME CurrentInv, NEW r \in Req, pc'[r] = pc[r], tok'[r] = tok[r],
           faults' = 0 => faults = 0,
           pc[r] = "post" => \/ rows'[tok[r].id] = rows[tok[r].id]
                             \/ rows'[tok[r].id].grant # tok[r].row.grant
                             \/ /\ rows[tok[r].id].exp = "fresh"
                                /\ rows'[tok[r].id].grant = rows[tok[r].id].grant
    PROVE  Current(r)'
<1>1. CASE faults' = 0 /\ pc[r] = "post"
  <2>1. \/ rows[tok[r].id] = tok[r].row /\ tok[r].row.exp # "fresh"
        \/ rows[tok[r].id].grant # tok[r].row.grant
    BY <1>1 DEF CurrentInv, Current
  <2>2. QED
    BY <1>1, <2>1 DEF Current
<1>2. QED
  BY <1>1 DEF Current

\* The request's own step to the POST: the row it finds under the lock is the copy it
\* goes on with, and without a fault it finds one.
LEMMA RereadCurrent ==
    ASSUME SerialInv, NEW r \in Req, Reread(r) PROVE Current(r)'
<1>1. TypeOK /\ InHand(r) /\ pc[r] = "reread"
  BY DEF SerialInv, TableInv, Reread
<1>2. CASE Return(r)
  BY <1>1, <1>2 DEF Return, Current, TypeOK
<1>3. ASSUME NEW i \in RowId, Found(i, tok[r].row.acct), rows[i].exp # "fresh",
             tok' = [tok EXCEPT ![r] = [id |-> i, row |-> rows[i]]]
      PROVE  Current(r)'
  <2>1. tok'[r].id = i /\ tok'[r].row = rows[i] /\ rows' = rows
    BY <1>1, <1>3 DEF TypeOK, Reread
  <2>2. QED
    BY <1>3, <2>1 DEF Current
<1>4. CASE NoneFound(tok[r].row.acct)
  <2>1. /\ tok[r].id \in RowId /\ rows[tok[r].id] # NoRow
        /\ rows[tok[r].id].acct = tok[r].row.acct
    BY <1>1 DEF InHand
  <2>2. QED
    BY <1>4, <2>1 DEF NoneFound, Matches
<1>5. CASE Fault
  <2>1. faults' # 0
    BY <1>1, <1>5 DEF Fault, TypeOK
  <2>2. QED
    BY <2>1 DEF Current
<1>6. QED
  BY <1>2, <1>3, <1>4, <1>5 DEF Reread

LEMMA RequestCurrent ==
    ASSUME CurrentInv, NEW r \in Req,
           Serve(r) \/ \E a \in Account \cup {AnyAccount} : GetAccessToken(r, a),
           NEW s \in Req
    PROVE  Current(s)'
<1>0. TypeOK /\ SerialInv
  BY DEF CurrentInv, SerialInv, TableInv
<1>1. faults' = 0 => faults = 0
  BY <1>0 DEF GetAccessToken, Serve, Refresh, ResolveProvider, FindToken, ReadProvider, LockRow,
     Reread, Post, Store, Fault, TypeOK
<1>2. CASE s # r
  <2>1. pc'[s] = pc[s] /\ tok'[s] = tok[s]
    BY <1>0, <1>2, RequestSerial
  <2>2. CASE UNCHANGED rows
    BY <1>1, <2>1, <2>2, CurrentStays
  <2>3. CASE Store(r) /\ WritesAnswer(r)
    <3>1. ASSUME pc[s] = "post" PROVE rows'[tok[s].id] = rows[tok[s].id]
      <4>1. tok[s].id \in RowId /\ holds[s] = tok[s].id
        BY <1>0, <3>1 DEF SerialInv, InHand, Locked
      <4>2. holds[r] = tok[r].id
        BY <1>0, <2>3 DEF SerialInv, Locked, Store
      <4>3. tok[s].id # tok[r].id
        BY <1>0, <1>2, <4>1, <4>2 DEF SerialInv, Exclusive, RowId
      <4>4. QED
        BY <1>0, <2>3, <4>1, <4>3 DEF WritesAnswer, TypeOK
    <3>2. QED
      BY <1>1, <2>1, <3>1, CurrentStays
  <2>4. UNCHANGED rows \/ (Store(r) /\ WritesAnswer(r))
    BY <1>0, StoreRows DEF GetAccessToken, Serve, Refresh, ResolveProvider, FindToken,
       ReadProvider, LockRow, Reread, Post
  <2>5. QED
    BY <2>2, <2>3, <2>4
<1>3. CASE s = r /\ ~Reread(r)
  <2>1. pc'[r] # "post"
    BY <1>0, <1>3 DEF GetAccessToken, Serve, Refresh, ResolveProvider, FindToken, ReadProvider,
       LockRow, Post, Store, Return, Goto, TypeOK
  <2>2. QED
    BY <1>3, <2>1 DEF Current
<1>4. QED
  BY <1>0, <1>2, <1>3, RereadCurrent

LEMMA CurrentStep ==
    ASSUME NoRowRemoved, CurrentInv, TypeOK', [Next]_vars PROVE CurrentInv'
<1>0. TypeOK /\ SerialInv /\ SerialInv' /\ Unwritten /\ Unwritten'
  BY SerialStep, UnwrittenStep DEF CurrentInv, SerialInv, TableInv
<1> SUFFICES ASSUME NEW s \in Req PROVE Current(s)'
  BY <1>0 DEF CurrentInv
<1>1. CASE UNCHANGED vars
  BY <1>1, CurrentStays DEF vars, reqVars
<1>2. ASSUME NEW r \in Req,
             Serve(r) \/ \E a \in Account \cup {AnyAccount} : GetAccessToken(r, a)
      PROVE  Current(s)'
  BY <1>2, RequestCurrent
<1>3. ASSUME NEW c \in Callback, Complete(c) PROVE Current(s)'
  <2>1. UNCHANGED <<pc, tok>> /\ (faults' = 0 => faults = 0)
    BY <1>0, <1>3 DEF Complete, Exchange, FindExisting, StoreGrant, reqVars, Fault, TypeOK
  <2>2. CASE UNCHANGED rows
    BY <2>1, <2>2, CurrentStays
  <2>3. ASSUME StoreGrant(c), WritesGrant(c), pc[s] = "post"
        PROVE  \/ rows'[tok[s].id] = rows[tok[s].id]
               \/ rows'[tok[s].id].grant # tok[s].row.grant
    <3>1. tok[s] \in Places
      BY <1>0, <2>3, CopyIsPlace DEF TypeOK
    <3>2. tok[s].row.grant # c
      BY <1>0, <2>3, <3>1 DEF Unwritten, StoreGrant, CGoto
    <3>3. PICK i \in RowId, w \in Row : rows' = [rows EXCEPT ![i] = w] /\ w.grant = c
      BY <2>3 DEF WritesGrant
    <3>4. tok[s].id \in RowId
      BY <1>0, <2>3 DEF SerialInv, InHand
    <3>5. QED
      BY <1>0, <3>2, <3>3, <3>4 DEF TypeOK
  <2>4. QED
    BY <1>0, <1>3, <2>1, <2>2, <2>3, GrantRows, CurrentStays
<1>4. CASE DeleteConfig
  BY <1>0, <1>4, CurrentStays DEF DeleteConfig, reqVars
<1>5. ASSUME NEW i \in RowId, Expire(i) PROVE Current(s)'
  <2>1. UNCHANGED <<pc, tok, faults>>
    BY <1>5 DEF Expire, reqVars
  <2>2. PICK w \in Row : /\ rows' = [rows EXCEPT ![i] = w]
                         /\ rows[i].exp = "fresh" /\ w.grant = rows[i].grant
    BY <1>0, <1>5, ExpireRows DEF WritesExpiry
  <2>3. pc[s] = "post" => tok[s].id \in RowId
    BY <1>0 DEF SerialInv, InHand
  <2>4. pc[s] = "post" => \/ rows'[tok[s].id] = rows[tok[s].id]
                          \/ /\ rows[tok[s].id].exp = "fresh"
                             /\ rows'[tok[s].id].grant = rows[tok[s].id].grant
    BY <1>0, <2>2, <2>3 DEF TypeOK
  <2>5. QED
    BY <2>1, <2>4, CurrentStays
<1>6. QED
  BY <1>1, <1>2, <1>3, <1>4, <1>5 DEF Next, NoRowRemoved, DeleteToken, DeleteProvider

LEMMA InitCurrent == Init => CurrentInv
<1> SUFFICES ASSUME Init PROVE CurrentInv
  OBVIOUS
<1>1. TableInv
  BY InitType DEF Init, TableInv, Unborn, OneRowPerAccount
<1>2. Exclusive /\ \A r \in Req : InHand(r) /\ Locked(r) /\ Current(r)
  BY DEF Init, Locks!Init, Exclusive, InHand, Locked, Current
<1>3. Places = {}
  BY DEF Init, Places, Held
<1>4. QED
  BY <1>1, <1>2, <1>3 DEF CurrentInv, SerialInv, Unwritten

\* As long as no row is removed and nothing fails, what a request posts is the row as
\* it is stored at that moment: the re-read under the lock leaves no window in which
\* another refresh could have replaced the refresh token (oauthtoken.go:156-171).
THEOREM RereadSeesTheRow ==
    ASSUME NoRowRemoved PROVE Spec => []RefreshesWhatIsStored
<1>1. CurrentInv /\ TypeOK' /\ [Next]_vars => CurrentInv'
  BY CurrentStep
<1>2. CurrentInv => RefreshesWhatIsStored
  BY DEF CurrentInv, Current, RefreshesWhatIsStored
<1>3. QED
  BY <1>1, <1>2, InitCurrent, TypeCorrect, PTL DEF Spec

-----------------------------------------------------------------------------
\* Rotation.  Where every consent returns a refresh token, a grant's refresh tokens
\* are found under one row id, so the lock of that row orders its refreshes.

EveryConsentRefreshes == GivesRefresh \subseteq {TRUE}

\* A row carries the refresh token of its own grant, and never one from the future.
Own(row) == /\ row.refresh # NoRefresh
            /\ row.refresh.grant = row.grant
            /\ row.refresh.gen <= live[row.grant]

OneHome == \A p, q \in Places : p.row.grant = q.row.grant => p.id = q.id

\* A callback holds the first generation of its grant, and no one has refreshed it.
Issued == \A c \in Callback : cpc[c] \in {"find", "write"} =>
            cnew[c].refresh = [grant |-> c, gen |-> 1] /\ live[c] = 1

\* What a request is about to store is what the provider accepts from now on.
Answer(r) == Refreshed(tok[r], reply[r]).refresh
Rotated(r) == pc[r] = "store" => /\ Answer(r) \in RefreshToken
                                 /\ Answer(r).grant = tok[r].row.grant
                                 /\ Answer(r).gen = live[tok[r].row.grant]

RotationInv == /\ SerialInv /\ Unwritten /\ OneHome /\ Issued
               /\ \A p \in Places : Own(p.row)
               /\ \A r \in Req : Rotated(r)

\* What a step does to the generations the provider accepts.
LEMMA LiveStep ==
    ASSUME TypeOK, [Next]_vars
    PROVE  \/ UNCHANGED live
           \/ \E c \in Callback : /\ cpc[c] = "exchange"
                                  /\ live' = [live EXCEPT ![c] = live'[c]]
           \/ \E r \in Req : /\ Post(r) /\ Accepts(tok[r].row.refresh)
                             /\ live' = [live EXCEPT ![tok[r].row.refresh.grant] = live[tok[r].row.refresh.grant] + 1]
<1>1. ASSUME NEW r \in Req, Post(r)
      PROVE  \/ UNCHANGED live
             \/ /\ Accepts(tok[r].row.refresh)
                /\ live' = [live EXCEPT ![tok[r].row.refresh.grant] = live[tok[r].row.refresh.grant] + 1]
  <2> DEFINE t == tok[r].row.refresh
  <2>1. t \in RefreshToken \cup {NoRefresh}
    BY <1>1 DEF Post, TypeOK, Copy, Row
  <2>2. ASSUME NEW new \in {NoRefresh, [grant |-> t.grant, gen |-> t.gen + 1]},
               Accepts(t), Rotates(t, new), ~UNCHANGED live
        PROVE  live' = [live EXCEPT ![t.grant] = live[t.grant] + 1]
    <3>1. t \in RefreshToken /\ live[t.grant] = t.gen
      BY <2>1, <2>2 DEF Accepts
    <3>2. /\ new = [t EXCEPT !.gen = @ + 1]
          /\ live' = [live EXCEPT ![t.grant] = new.gen]
      BY <2>2 DEF Rotates
    <3>3. new.gen = live[t.grant] + 1
      BY <3>1, <3>2 DEF RefreshToken
    <3>4. QED
      BY <3>2, <3>3
  <2>3. QED
    BY <1>1, <2>2 DEF Post
<1>2. ASSUME NEW c \in Callback, Exchange(c)
      PROVE  UNCHANGED live \/ (cpc[c] = "exchange" /\ live' = [live EXCEPT ![c] = live'[c]])
  BY <1>2 DEF Exchange, CGoto, TypeOK
<1>3. ASSUME NEW r \in Req,
             Serve(r) \/ \E a \in Account \cup {AnyAccount} : GetAccessToken(r, a), ~Post(r)
      PROVE  UNCHANGED live
  BY <1>3 DEF GetAccessToken, Serve, Refresh, ResolveProvider, FindToken, ReadProvider, LockRow,
     Reread, Store
<1>4. ASSUME NEW c \in Callback, Complete(c), ~Exchange(c) PROVE UNCHANGED live
  BY <1>4 DEF Complete, FindExisting, StoreGrant
<1>5. (DeleteConfig \/ DeleteProvider \/ \E i \in RowId : DeleteToken(i) \/ Expire(i))
        => UNCHANGED live
  BY DEF DeleteConfig, DeleteProvider, DeleteToken, Expire
<1>6. QED
  BY <1>1, <1>2, <1>3, <1>4, <1>5 DEF Next, vars

\* The generation accepted of a grant in use never goes down, and goes up only in the
\* hands of a request that holds the lock of that grant's row.
LEMMA LiveGrows ==
    ASSUME RotationInv, [Next]_vars, NEW p \in Places
    PROVE  /\ live[p.row.grant] \in Nat /\ live'[p.row.grant] \in Nat
           /\ live'[p.row.grant] >= live[p.row.grant]
           /\ \/ live'[p.row.grant] = live[p.row.grant]
              \/ \E r \in Req : Post(r) /\ tok[r].id = p.id
<1>0. TypeOK /\ Unwritten
  BY DEF RotationInv, SerialInv, TableInv
<1>1. p \in Copy /\ p.row.grant \in Callback
  BY <1>0, PlacesType DEF Copy, Row
<1>2. live[p.row.grant] \in Nat
  BY <1>0, <1>1 DEF TypeOK
<1>3. CASE UNCHANGED live
  BY <1>2, <1>3
<1>4. ASSUME NEW c \in Callback, cpc[c] = "exchange", live' = [live EXCEPT ![c] = live'[c]]
      PROVE  live'[p.row.grant] = live[p.row.grant]
  <2>1. p.row.grant # c
    BY <1>0, <1>4 DEF Unwritten
  <2>2. QED
    BY <1>0, <1>1, <1>4, <2>1 DEF TypeOK
<1>5. ASSUME NEW r \in Req, Post(r), Accepts(tok[r].row.refresh),
             live' = [live EXCEPT ![tok[r].row.refresh.grant] = live[tok[r].row.refresh.grant] + 1],
             live'[p.row.grant] # live[p.row.grant]
      PROVE  live'[p.row.grant] = live[p.row.grant] + 1 /\ tok[r].id = p.id
  <2>1. tok[r] \in Places
    BY <1>0, <1>5, CopyIsPlace DEF Post, TypeOK
  <2>2. tok[r].row.refresh.grant = tok[r].row.grant
    BY <2>1 DEF RotationInv, Own
  <2>3. p.row.grant = tok[r].row.grant
    BY <1>0, <1>1, <1>5, <2>2 DEF TypeOK
  <2>4. tok[r].id = p.id
    BY <2>1, <2>3 DEF RotationInv, OneHome
  <2>5. live'[p.row.grant] = live[p.row.grant] + 1
    BY <1>0, <1>1, <1>5, <2>2, <2>3 DEF TypeOK
  <2>6. QED
    BY <2>4, <2>5
<1>6. QED
  BY <1>0, <1>2, <1>3, <1>4, <1>5, LiveStep

\* A place of the next state is an old one or a fresh write; in each case its token
\* belongs to its grant.
LEMMA PlacesStep ==
    ASSUME TypeOK, [Next]_vars, NEW p \in Places'
    PROVE  \/ Kept(p)
           \/ \E r \in Req : Answered(p, r)
           \/ \E c \in Callback : Granted(p, c)
<1>1. CASE UNCHANGED vars
  BY <1>1 DEF vars, reqVars, Places, Held, Kept
<1>2. QED
  BY <1>1, RequestPlaces, CallbackPlaces, RemovalPlaces DEF Next

LEMMA OwnStep ==
    ASSUME RotationInv, [Next]_vars, NEW p \in Places' PROVE Own(p.row)'
<1>0. TypeOK
  BY DEF RotationInv, SerialInv, TableInv
<1>1. CASE Kept(p)
  <2>1. PICK q \in Places : p.row.grant = q.row.grant /\ p.row.refresh = q.row.refresh
    BY <1>1 DEF Kept
  <2>2. Own(q.row) /\ q \in Copy
    BY <1>0, PlacesType DEF RotationInv
  <2>3. q.row.refresh \in RefreshToken
    BY <2>2 DEF Own, Copy, Row
  <2>4. live'[q.row.grant] >= live[q.row.grant] /\ live[q.row.grant] \in Nat /\ live'[q.row.grant] \in Nat
    BY LiveGrows
  <2>5. q.row.refresh.gen \in Nat
    BY <2>3 DEF RefreshToken
  <2>6. QED
    BY <2>1, <2>2, <2>4, <2>5 DEF Own
<1>2. ASSUME NEW r \in Req, Answered(p, r) PROVE Own(p.row)'
  <2>1. /\ p.row.refresh \in RefreshToken /\ p.row.refresh.grant = p.row.grant
        /\ p.row.refresh.gen = live[p.row.grant]
    BY <1>2 DEF Answered, RotationInv, Rotated, Answer, Store
  <2>2. UNCHANGED live
    BY <1>2 DEF Answered, Store
  <2>3. p.row.refresh.gen \in Nat /\ p.row.refresh # NoRefresh
    BY <2>1, NullsAreNew DEF RefreshToken
  <2>4. QED
    BY <2>1, <2>2, <2>3 DEF Own
<1>3. ASSUME NEW c \in Callback, Granted(p, c) PROVE Own(p.row)'
  <2>1. cnew[c].refresh = [grant |-> c, gen |-> 1] /\ live[c] = 1 /\ live' = live
    BY <1>3 DEF Granted, StoreGrant, CGoto, RotationInv, Issued
  <2>2. [grant |-> c, gen |-> 1] # NoRefresh
    BY NullsAreNew DEF RefreshToken
  <2>3. p.row.refresh = [grant |-> c, gen |-> 1] /\ p.row.grant = c
    BY <1>3, <2>1, <2>2 DEF Granted
  <2>4. QED
    BY <2>1, <2>2, <2>3 DEF Own
<1>4. QED
  BY <1>0, <1>1, <1>2, <1>3, PlacesStep

LEMMA HomeStep ==
    ASSUME RotationInv, [Next]_vars PROVE OneHome'
<1>0. TypeOK /\ Unwritten
  BY DEF RotationInv, SerialInv, TableInv
<1>1. ASSUME NEW p \in Places', ~\E c \in Callback : Granted(p, c)
      PROVE  \E q \in Places : p.id = q.id /\ p.row.grant = q.row.grant
  <2>1. CASE Kept(p)
    BY <2>1 DEF Kept
  <2>2. ASSUME NEW r \in Req, Answered(p, r)
        PROVE  \E q \in Places : p.id = q.id /\ p.row.grant = q.row.grant
    BY <1>0, <2>2, CopyIsPlace DEF Answered, Store, TypeOK
  <2>3. QED
    BY <1>0, <1>1, <2>1, <2>2, PlacesStep
<1>2. ASSUME NEW p \in Places', NEW q \in Places', p.row.grant = q.row.grant,
             NEW c \in Callback, Granted(p, c)
      PROVE  p.id = q.id
  <2>1. cpc[c] # "done" /\ p.row.grant = c
    BY <1>2 DEF Granted, StoreGrant, CGoto
  <2>2. PICK d \in Callback : Granted(q, d)
    <3>1. ASSUME ~\E d \in Callback : Granted(q, d) PROVE FALSE
      BY <1>0, <1>1, <1>2, <2>1, <3>1 DEF Unwritten
    <3>2. QED
      BY <3>1
  <2>3. d = c
    BY <1>2, <2>1, <2>2 DEF Granted
  <2>4. /\ rows' = [rows EXCEPT ![p.id] = p.row] /\ rows' = [rows EXCEPT ![q.id] = q.row]
        /\ Held' = Held
    BY <1>2, <2>2 DEF Granted
  <2>5. ASSUME p.id # q.id PROVE FALSE
    <3>1. \A h \in Held : h.row.grant # c
      BY <1>0, <2>1 DEF Unwritten, Places
    <3>2. p \notin Held' /\ q \notin Held'
      BY <1>2, <2>1, <2>4, <3>1
    <3>3. q.id \in RowId /\ rows'[q.id] # NoRow /\ q.row = rows'[q.id]
      BY <3>2 DEF Places
    <3>4. rows'[q.id] = rows[q.id]
      BY <1>0, <2>4, <2>5, <3>3 DEF TypeOK
    <3>5. [id |-> q.id, row |-> rows[q.id]] \in Places
      BY <3>3, <3>4, RowIsPlace
    <3>6. QED
      BY <1>0, <1>2, <2>1, <3>3, <3>4, <3>5 DEF Unwritten
  <2>6. QED
    BY <2>5
<1>3. QED
  BY <1>1, <1>2 DEF OneHome, RotationInv

\* A step moves the request or the callback that takes it, and no other.
LEMMA CallbackAlone ==
    ASSUME TypeOK, [Next]_vars, NEW c \in Callback, ~Complete(c)
    PROVE  cpc'[c] = cpc[c] /\ cnew'[c] = cnew[c]
<1>1. ASSUME NEW r \in Req,
             Serve(r) \/ \E a \in Account \cup {AnyAccount} : GetAccessToken(r, a)
      PROVE  UNCHANGED cbVars
  BY <1>1 DEF GetAccessToken, Serve, Refresh, ResolveProvider, FindToken, ReadProvider, LockRow,
     Reread, Post, Store
<1>2. ASSUME NEW d \in Callback \ {c}, Complete(d) PROVE cpc'[c] = cpc[c] /\ cnew'[c] = cnew[c]
  BY <1>2 DEF Complete, Exchange, FindExisting, StoreGrant, CGoto, TypeOK
<1>3. CASE DeleteConfig \/ DeleteProvider \/ \E i \in RowId : DeleteToken(i) \/ Expire(i)
  BY <1>3 DEF DeleteConfig, DeleteProvider, DeleteToken, Expire, cbVars
<1>4. QED
  BY <1>1, <1>2, <1>3 DEF Next, vars, cbVars

LEMMA RequestAlone ==
    ASSUME TypeOK, [Next]_vars, NEW r \in Req, ~Serve(r),
           \A a \in Account \cup {AnyAccount} : ~GetAccessToken(r, a)
    PROVE  pc'[r] = pc[r] /\ tok'[r] = tok[r] /\ reply'[r] = reply[r]
<1>1. ASSUME NEW s \in Req \ {r}, NEW a \in Account \cup {AnyAccount}, GetAccessToken(s, a)
      PROVE  pc'[r] = pc[r] /\ tok'[r] = tok[r] /\ reply'[r] = reply[r]
  BY <1>1 DEF GetAccessToken, Goto, TypeOK
<1>2. ASSUME NEW s \in Req \ {r}, Serve(s)
      PROVE  pc'[r] = pc[r] /\ tok'[r] = tok[r] /\ reply'[r] = reply[r]
  <2>1. CASE Return(s)
    BY <2>1 DEF Return, TypeOK
  <2>2. CASE ~Return(s) /\ (ResolveProvider(s) \/ ReadProvider(s) \/ LockRow(s))
    BY <2>2 DEF ResolveProvider, ReadProvider, LockRow, Goto, TypeOK
  <2>3. CASE ~Return(s) /\ (FindToken(s) \/ Reread(s))
    BY <2>3 DEF FindToken, Reread, Goto, TypeOK
  <2>4. CASE ~Return(s) /\ Post(s)
    BY <2>4 DEF Post, Goto, TypeOK
  <2>5. QED
    BY <1>2, <2>1, <2>2, <2>3, <2>4 DEF Serve, Refresh, Store
<1>3. ASSUME NEW c \in Callback, Complete(c) PROVE UNCHANGED reqVars
  BY <1>3 DEF Complete, Exchange, FindExisting, StoreGrant
<1>4. CASE DeleteConfig \/ DeleteProvider \/ \E i \in RowId : DeleteToken(i) \/ Expire(i)
  BY <1>4 DEF DeleteConfig, DeleteProvider, DeleteToken, Expire, reqVars
<1>5. QED
  BY <1>1, <1>2, <1>3, <1>4 DEF Next, vars, reqVars

LEMMA IssuedStep ==
    ASSUME EveryConsentRefreshes, RotationInv, [Next]_vars PROVE Issued'
<1>0. TypeOK /\ Unwritten /\ Issued
  BY DEF RotationInv, SerialInv, TableInv
<1> SUFFICES ASSUME NEW c \in Callback, cpc'[c] \in {"find", "write"}
             PROVE  cnew'[c].refresh = [grant |-> c, gen |-> 1] /\ live'[c] = 1
  BY DEF Issued
<1>1. CASE Exchange(c)
  <2>1. CASE cpc' = [cpc EXCEPT ![c] = "done"]
    BY <1>0, <2>1 DEF TypeOK
  <2>2. ASSUME NEW a \in Account, NEW g \in GivesRefresh, NEW e \in GivesExpiry,
               live' = [live EXCEPT ![c] = IF g THEN 1 ELSE 0],
               cnew' = [cnew EXCEPT ![c] =
                  [refresh |-> IF g THEN [grant |-> c, gen |-> 1] ELSE NoRefresh, exp |-> e]]
        PROVE  cnew'[c].refresh = [grant |-> c, gen |-> 1] /\ live'[c] = 1
    BY <1>0, <2>2 DEF EveryConsentRefreshes, TypeOK
  <2>3. QED
    BY <1>1, <2>1, <2>2 DEF Exchange, CGoto
<1>2. CASE ~Exchange(c)
  <2>1. cpc[c] \in {"find", "write"} /\ cnew'[c] = cnew[c]
    <3>1. CASE FindExisting(c) \/ StoreGrant(c)
      BY <1>0, <3>1 DEF FindExisting, StoreGrant, CGoto, TypeOK
    <3>2. QED
      BY <1>0, <1>2, <3>1, CallbackAlone DEF Complete
  <2>2. cnew[c].refresh = [grant |-> c, gen |-> 1] /\ live[c] = 1
    BY <1>0, <2>1 DEF Issued
  <2>3. ASSUME NEW d \in Callback, cpc[d] = "exchange", live' = [live EXCEPT ![d] = live'[d]]
        PROVE  live'[c] = live[c]
    BY <1>0, <2>1, <2>3 DEF TypeOK
  <2>4. ASSUME NEW r \in Req, Post(r), Accepts(tok[r].row.refresh),
               live' = [live EXCEPT ![tok[r].row.refresh.grant] = live[tok[r].row.refresh.grant] + 1]
        PROVE  live'[c] = live[c]
    <3>1. tok[r] \in Places
      BY <1>0, <2>4, CopyIsPlace DEF Post, TypeOK
    <3>2. tok[r].row.refresh.grant = tok[r].row.grant /\ tok[r].row.grant # c
      BY <1>0, <2>1, <3>1 DEF RotationInv, Own, Unwritten
    <3>3. QED
      BY <1>0, <2>4, <3>2 DEF TypeOK
  <2>5. QED
    BY <1>0, <2>1, <2>2, <2>3, <2>4, LiveStep
<1>3. QED
  BY <1>1, <1>2

LEMMA RotatedStays ==
    ASSUME RotationInv, [Next]_vars, NEW r \in Req, pc[r] = "store",
           pc'[r] = pc[r], tok'[r] = tok[r], reply'[r] = reply[r],
           ~\E s \in Req : Post(s) /\ tok[s].id = tok[r].id
    PROVE  Rotated(r)'
<1>1. TypeOK
  BY DEF RotationInv, SerialInv, TableInv
<1>2. tok[r] \in Places
  BY <1>1, CopyIsPlace DEF TypeOK
<1>3. live'[tok[r].row.grant] = live[tok[r].row.grant]
  BY <1>2, LiveGrows
<1>4. QED
  BY <1>3 DEF Rotated, Answer, RotationInv

LEMMA PostRotates ==
    ASSUME RotationInv, NEW r \in Req, Post(r), pc'[r] = "store" PROVE Rotated(r)'
<1> DEFINE t == tok[r].row.refresh
           next == [grant |-> t.grant, gen |-> t.gen + 1]
<1>0. TypeOK
  BY DEF RotationInv, SerialInv, TableInv
<1>1. tok[r] \in Copy /\ tok[r] \in Places
  BY <1>0, CopyIsPlace DEF Post, TypeOK
<1>2. t \in RefreshToken /\ t.grant = tok[r].row.grant
  BY <1>1 DEF RotationInv, Own, Copy, Row
<1>3. ~Return(r)
  BY <1>0 DEF Return, TypeOK
<1>4. PICK e \in GivesExpiry, new \in {NoRefresh, next} :
        /\ Accepts(t) /\ Rotates(t, new)
        /\ reply' = [reply EXCEPT ![r] = [refresh |-> new, exp |-> e]]
        /\ UNCHANGED tok
  BY <1>3 DEF Post
<1>5. live[t.grant] = t.gen /\ t.grant \in Callback /\ t.gen \in Nat
  BY <1>2, <1>4 DEF Accepts, RefreshToken
<1>6. reply'[r].refresh = new /\ tok'[r] = tok[r]
  BY <1>0, <1>4 DEF TypeOK
<1>7. Answer(r)' = IF new = NoRefresh THEN t ELSE new
  BY <1>1, <1>6 DEF Answer, Refreshed, Copy, Row
<1>8. CASE new = NoRefresh /\ UNCHANGED live
  BY <1>2, <1>5, <1>6, <1>7, <1>8 DEF Rotated
<1>9. CASE /\ new = [t EXCEPT !.gen = @ + 1]
           /\ live' = [live EXCEPT ![t.grant] = new.gen]
  <2>1. new \in RefreshToken /\ new.grant = t.grant
    BY <1>2, <1>9 DEF RefreshToken
  <2>2. live'[t.grant] = new.gen
    BY <1>0, <1>5, <1>9 DEF TypeOK
  <2>3. new # NoRefresh
    BY <2>1, NullsAreNew
  <2>4. QED
    BY <1>2, <1>6, <1>7, <2>1, <2>2, <2>3 DEF Rotated
<1>10. QED
  BY <1>4, <1>8, <1>9 DEF Rotates

LEMMA RotatedStep ==
    ASSUME RotationInv, [Next]_vars, NEW s \in Req PROVE Rotated(s)'
<1>0. TypeOK /\ SerialInv
  BY DEF RotationInv, SerialInv, TableInv
<1> SUFFICES ASSUME pc'[s] = "store" PROVE Rotated(s)'
  BY DEF Rotated
<1>1. CASE Post(s)
  BY <1>1, PostRotates
<1>2. CASE ~Post(s)
  <2>1. pc[s] = "store" /\ tok'[s] = tok[s] /\ reply'[s] = reply[s]
    <3>1. CASE Serve(s) \/ \E a \in Account \cup {AnyAccount} : GetAccessToken(s, a)
      BY <1>0, <1>2, <3>1 DEF GetAccessToken, Serve, Refresh, ResolveProvider, FindToken,
         ReadProvider, LockRow, Reread, Store, Goto, Return, TypeOK
    <3>2. QED
      BY <1>0, <3>1, RequestAlone
  <2>2. ASSUME NEW q \in Req, Post(q), tok[q].id = tok[s].id PROVE FALSE
    <3>1. pc[q] = "post" /\ q # s
      BY <1>2, <2>2 DEF Post
    <3>2. holds[q] = tok[q].id /\ holds[s] = tok[s].id /\ tok[s].id \in RowId
      BY <1>0, <2>1, <3>1 DEF SerialInv, Locked, InHand
    <3>3. QED
      BY <1>0, <2>2, <3>1, <3>2 DEF SerialInv, Exclusive, RowId
  <2>3. QED
    BY <2>1, <2>2, RotatedStays
<1>3. QED
  BY <1>1, <1>2

LEMMA RotationStep ==
    ASSUME NoRowRemoved, EveryConsentRefreshes, RotationInv, TypeOK', [Next]_vars
    PROVE  RotationInv'
<1>1. SerialInv' /\ Unwritten'
  BY SerialStep, UnwrittenStep DEF RotationInv, SerialInv, TableInv
<1>2. OneHome' /\ Issued'
  BY HomeStep, IssuedStep
<1>3. \A p \in Places' : Own(p.row)'
  BY OwnStep
<1>4. \A r \in Req : Rotated(r)'
  BY RotatedStep
<1>5. QED
  BY <1>1, <1>2, <1>3, <1>4 DEF RotationInv

LEMMA InitRotation == Init => RotationInv
<1> SUFFICES ASSUME Init PROVE RotationInv
  OBVIOUS
<1>1. SerialInv /\ Unwritten
  BY InitCurrent DEF CurrentInv
<1>2. Places = {}
  BY DEF Init, Places, Held
<1>3. Issued /\ \A r \in Req : Rotated(r)
  BY DEF Init, Issued, Rotated
<1>4. QED
  BY <1>1, <1>2, <1>3 DEF RotationInv, OneHome

-----------------------------------------------------------------------------
\* What a row that is there after a step is: what it was, but for its expiry, or what a
\* request or a callback has just written.
LEMMA RowStep ==
    ASSUME TypeOK, [Next]_vars, NEW i \in RowId, rows'[i] # NoRow
    PROVE  \/ /\ rows[i] # NoRow
              /\ rows'[i].grant = rows[i].grant /\ rows'[i].refresh = rows[i].refresh
           \/ \E r \in Req : Answered([id |-> i, row |-> rows'[i]], r)
           \/ \E c \in Callback : Granted([id |-> i, row |-> rows'[i]], c)
<1> DEFINE p == [id |-> i, row |-> rows'[i]]
<1>1. CASE UNCHANGED rows
  BY <1>1
<1>2. ASSUME NEW r \in Req, Store(r), WritesAnswer(r), rows'[i] # rows[i]
      PROVE  Answered(p, r)
  <2>1. tok[r] \in Copy /\ tok[r].id \in RowId
    BY <1>2, StoreRows DEF Copy
  <2>2. PICK w \in Row : /\ rows' = [rows EXCEPT ![tok[r].id] = w]
                         /\ w.grant = tok[r].row.grant
                         /\ w.refresh = Refreshed(tok[r], reply[r]).refresh
    BY <1>2 DEF WritesAnswer
  <2>3. i = tok[r].id /\ rows'[i] = w
    BY <1>2, <2>1, <2>2 DEF TypeOK
  <2>4. QED
    BY <1>2, <2>1, <2>2, <2>3 DEF Answered
<1>3. ASSUME NEW c \in Callback, StoreGrant(c), WritesGrant(c), rows'[i] # rows[i]
      PROVE  Granted(p, c)
  <2>1. PICK j \in RowId, w \in Row :
          /\ rows' = [rows EXCEPT ![j] = w]
          /\ w.grant = c
          /\ cnew[c].refresh # NoRefresh => w.refresh = cnew[c].refresh
    BY <1>3 DEF WritesGrant
  <2>2. i = j /\ rows'[i] = w
    BY <1>3, <2>1 DEF TypeOK
  <2>3. Held' = Held
    BY <1>3 DEF StoreGrant, reqVars, Held
  <2>4. QED
    BY <1>3, <2>1, <2>2, <2>3 DEF Granted
<1>4. ASSUME NEW j \in RowId, Expire(j)
      PROVE  /\ rows[i] # NoRow
             /\ rows'[i].grant = rows[i].grant /\ rows'[i].refresh = rows[i].refresh
  BY <1>4, ExpireRows DEF WritesExpiry, Expire, TypeOK
<1>5. CASE DeleteConfig
  BY <1>5 DEF DeleteConfig
<1>6. CASE DeleteProvider
  BY <1>6 DEF DeleteProvider
<1>7. ASSUME NEW j \in RowId, DeleteToken(j) PROVE rows'[i] = rows[i]
  BY <1>7 DEF DeleteToken, TypeOK
<1>8. ASSUME NEW r \in Req,
             Serve(r) \/ \E a \in Account \cup {AnyAccount} : GetAccessToken(r, a)
      PROVE  UNCHANGED rows \/ (Store(r) /\ WritesAnswer(r))
  BY <1>8, StoreRows DEF GetAccessToken, Serve, Refresh, ResolveProvider, FindToken, ReadProvider,
     LockRow, Reread, Post
<1>9. ASSUME NEW c \in Callback, Complete(c)
      PROVE  UNCHANGED rows \/ (StoreGrant(c) /\ WritesGrant(c))
  BY <1>9, GrantRows
<1>10. UNCHANGED vars => UNCHANGED rows
  BY DEF vars
<1>11. QED
  BY <1>1, <1>2, <1>3, <1>4, <1>5, <1>6, <1>7, <1>8, <1>9, <1>10 DEF Next

\* A row that keeps its grant keeps its refresh token or takes a newer one.
LEMMA RowGrows ==
    ASSUME RotationInv, [Next]_vars, NEW i \in RowId, rows[i] # NoRow, rows'[i] # NoRow,
           rows[i].refresh.grant = rows'[i].refresh.grant
    PROVE  rows'[i].refresh.gen >= rows[i].refresh.gen
<1> DEFINE p == [id |-> i, row |-> rows'[i]]
           q == [id |-> i, row |-> rows[i]]
<1>0. TypeOK /\ Unwritten
  BY DEF RotationInv, SerialInv, TableInv
<1>1. q \in Places /\ q \in Copy
  BY <1>0, RowIsPlace, PlacesType
<1>2. /\ rows[i].refresh \in RefreshToken
      /\ rows[i].refresh.grant = rows[i].grant
      /\ rows[i].refresh.gen <= live[rows[i].grant]
  BY <1>1 DEF RotationInv, Own, Copy, Row
<1>3. CASE rows'[i].refresh = rows[i].refresh
  BY <1>2, <1>3 DEF RefreshToken
<1>4. ASSUME NEW r \in Req, Answered(p, r) PROVE rows'[i].refresh.gen >= rows[i].refresh.gen
  <2>1. /\ rows'[i].refresh \in RefreshToken /\ rows'[i].refresh.grant = rows'[i].grant
        /\ rows'[i].refresh.gen = live[rows'[i].grant]
    BY <1>4 DEF Answered, RotationInv, Rotated, Answer, Store
  <2>2. rows'[i].grant = rows[i].grant
    BY <1>2, <2>1
  <2>3. QED
    BY <1>2, <2>1, <2>2 DEF RefreshToken
<1>5. ASSUME NEW c \in Callback, Granted(p, c) PROVE FALSE
  <2>1. cnew[c].refresh = [grant |-> c, gen |-> 1] /\ cpc[c] # "done"
    BY <1>5 DEF Granted, StoreGrant, CGoto, RotationInv, Issued
  <2>2. [grant |-> c, gen |-> 1] # NoRefresh
    BY NullsAreNew DEF RefreshToken
  <2>3. rows'[i].refresh.grant = c
    BY <1>5, <2>1, <2>2 DEF Granted
  <2>4. q.row.grant # c
    BY <1>0, <1>1, <2>1 DEF Unwritten
  <2>5. QED
    BY <1>2, <2>3, <2>4
<1>6. QED
  BY <1>0, <1>3, <1>4, <1>5, RowStep

LEMMA RotationInvariance ==
    ASSUME NoRowRemoved, EveryConsentRefreshes PROVE Spec => []RotationInv
<1>1. RotationInv /\ TypeOK' /\ [Next]_vars => RotationInv'
  BY RotationStep
<1>2. QED
  BY <1>1, InitRotation, TypeCorrect, PTL DEF Spec

\* Whatever fails and however refreshes and reconnections interleave, no row goes back
\* to an older refresh token of its grant, as long as rows are not removed and every
\* consent returns a refresh token: the lock of the row orders its rotations
\* (oauthtoken.go:156-171).
THEOREM NoRotationReverts ==
    ASSUME NoRowRemoved, EveryConsentRefreshes PROVE Spec => RotationNeverReverts
<1> DEFINE Grows == \A i \in RowId :
              /\ rows[i] # NoRow /\ rows'[i] # NoRow
              /\ rows[i].refresh # NoRefresh /\ rows'[i].refresh # NoRefresh
              /\ rows[i].refresh.grant = rows'[i].refresh.grant
              => rows'[i].refresh.gen >= rows[i].refresh.gen
<1>1. RotationInv /\ [Next]_vars => [Grows]_vars
  BY RowGrows
<1>2. QED
  BY <1>1, RotationInvariance, PTL DEF Spec, RotationNeverReverts

-----------------------------------------------------------------------------
\* A stored token is live, or the request that rotated it is about to store its
\* successor, as long as nothing has failed.
LiveAt(i) ==
    faults = 0 =>
      \/ rows[i] = NoRow
      \/ Accepts(rows[i].refresh)
      \/ \E r \in Req : pc[r] = "store" /\ tok[r].id = i

LiveInv == RotationInv /\ \A i \in RowId : LiveAt(i)

\* A write stores a token the provider accepts.
LEMMA WritesAreLive ==
    ASSUME RotationInv, [Next]_vars, NEW i \in RowId,
           \/ \E r \in Req : Answered([id |-> i, row |-> rows'[i]], r)
           \/ \E c \in Callback : Granted([id |-> i, row |-> rows'[i]], c)
    PROVE  Accepts(rows[i].refresh)'
<1>1. ASSUME NEW r \in Req, Answered([id |-> i, row |-> rows'[i]], r)
      PROVE  Accepts(rows[i].refresh)'
  <2>1. /\ rows'[i].refresh \in RefreshToken /\ rows'[i].refresh.grant = rows'[i].grant
        /\ rows'[i].refresh.gen = live[rows'[i].grant]
    BY <1>1 DEF Answered, RotationInv, Rotated, Answer, Store
  <2>2. UNCHANGED live
    BY <1>1 DEF Answered, Store
  <2>3. QED
    BY <2>1, <2>2, NullsAreNew DEF Accepts
<1>2. ASSUME NEW c \in Callback, Granted([id |-> i, row |-> rows'[i]], c)
      PROVE  Accepts(rows[i].refresh)'
  <2>1. cnew[c].refresh = [grant |-> c, gen |-> 1] /\ live[c] = 1 /\ UNCHANGED live
    BY <1>2 DEF Granted, StoreGrant, CGoto, RotationInv, Issued
  <2>2. [grant |-> c, gen |-> 1] # NoRefresh
    BY NullsAreNew DEF RefreshToken
  <2>3. rows'[i].refresh = [grant |-> c, gen |-> 1]
    BY <1>2, <2>1, <2>2 DEF Granted
  <2>4. QED
    BY <2>1, <2>2, <2>3 DEF Accepts
<1>3. QED
  BY <1>1, <1>2

\* Without a fault a request leaves "store" by writing the row in hand.
LEMMA StoreWrites ==
    ASSUME RotationInv, NEW r \in Req, Store(r), UNCHANGED faults
    PROVE  Answered([id |-> tok[r].id, row |-> rows'[tok[r].id]], r)
<1>1. TypeOK /\ InHand(r) /\ pc[r] = "store"
  BY DEF RotationInv, SerialInv, TableInv, Store
<1>2. tok[r].id \in RowId /\ rows[tok[r].id] # NoRow
  BY <1>1 DEF InHand
<1>3. UpdateToken(tok[r].id, Refreshed(tok[r], reply[r]))
  BY <1>1 DEF Store, Fault, TypeOK
<1>4. WritesAnswer(r) /\ tok[r] \in Copy
  BY <1>1, <1>2, <1>3, AnswerWritten, StoreRows
<1>5. PICK w \in Row : /\ rows' = [rows EXCEPT ![tok[r].id] = w]
                       /\ w.grant = tok[r].row.grant
                       /\ w.refresh = Refreshed(tok[r], reply[r]).refresh
  BY <1>4 DEF WritesAnswer
<1>6. rows'[tok[r].id] = w
  BY <1>1, <1>2, <1>5 DEF TypeOK
<1>7. QED
  BY <1>4, <1>5, <1>6 DEF Answered

LEMMA FaultsStep ==
    ASSUME [Next]_vars PROVE UNCHANGED faults \/ Fault
<1>1. ASSUME NEW r \in Req,
             Serve(r) \/ \E a \in Account \cup {AnyAccount} : GetAccessToken(r, a)
      PROVE  UNCHANGED faults \/ Fault
  BY <1>1 DEF GetAccessToken, Serve, Refresh, ResolveProvider, FindToken, ReadProvider, LockRow,
     Reread, Post, Store
<1>2. ASSUME NEW c \in Callback, Complete(c) PROVE UNCHANGED faults \/ Fault
  BY <1>2 DEF Complete, Exchange, FindExisting, StoreGrant
<1>3. CASE DeleteConfig \/ DeleteProvider \/ \E i \in RowId : DeleteToken(i) \/ Expire(i)
  BY <1>3 DEF DeleteConfig, DeleteProvider, DeleteToken, Expire
<1>4. QED
  BY <1>1, <1>2, <1>3 DEF Next, vars

LEMMA LiveAtStep ==
    ASSUME LiveInv, TypeOK', [Next]_vars, NEW i \in RowId PROVE LiveAt(i)'
<1>0. TypeOK /\ RotationInv
  BY DEF LiveInv, RotationInv, SerialInv, TableInv
<1> SUFFICES ASSUME faults' = 0, rows'[i] # NoRow
             PROVE  \/ Accepts(rows[i].refresh)'
                    \/ \E r \in Req : pc'[r] = "store" /\ tok'[r].id = i
  BY DEF LiveAt
<1>1. faults = 0
  <2>1. UNCHANGED faults \/ Fault
    BY FaultsStep
  <2>2. QED
    BY <1>0, <2>1 DEF TypeOK, Fault
<1>2. CASE rows[i] = NoRow
  <2>1. \/ \E r \in Req : Answered([id |-> i, row |-> rows'[i]], r)
        \/ \E c \in Callback : Granted([id |-> i, row |-> rows'[i]], c)
    BY <1>0, <1>2, RowStep
  <2>2. QED
    BY <1>0, <2>1, WritesAreLive
<1>3. CASE rows[i] # NoRow /\ ~(rows'[i].grant = rows[i].grant /\ rows'[i].refresh = rows[i].refresh)
  <2>1. \/ \E r \in Req : Answered([id |-> i, row |-> rows'[i]], r)
        \/ \E c \in Callback : Granted([id |-> i, row |-> rows'[i]], c)
    BY <1>0, <1>3, RowStep
  <2>2. QED
    BY <1>0, <2>1, WritesAreLive
<1>4. CASE rows[i] # NoRow /\ rows'[i].grant = rows[i].grant /\ rows'[i].refresh = rows[i].refresh
  <2>1. CASE Accepts(rows[i].refresh)
    <3>1. [id |-> i, row |-> rows[i]] \in Places
      BY <1>4, RowIsPlace
    <3>2. rows[i].refresh.grant = rows[i].grant
      BY <1>0, <3>1 DEF RotationInv, Own
    <3>3. CASE live'[rows[i].grant] = live[rows[i].grant]
      BY <1>4, <2>1, <3>2, <3>3 DEF Accepts
    <3>4. CASE live'[rows[i].grant] # live[rows[i].grant]
      <4>1. PICK r \in Req : Post(r) /\ tok[r].id = i
        BY <1>0, <3>1, <3>4, LiveGrows
      <4>2. faults' = faults
        BY <1>1
      <4>3. Goto(r, "post", "store") /\ UNCHANGED tok
        BY <1>0, <3>4, <4>1, <4>2 DEF Post, Fault, TypeOK
      <4>4. QED
        BY <1>0, <4>1, <4>3 DEF Goto, TypeOK
    <3>5. QED
      BY <3>3, <3>4
  <2>2. ASSUME NEW r \in Req, pc[r] = "store", tok[r].id = i
        PROVE  \/ Accepts(rows[i].refresh)'
               \/ \E s \in Req : pc'[s] = "store" /\ tok'[s].id = i
    <3>1. CASE Store(r)
      <4>1. Answered([id |-> i, row |-> rows'[i]], r)
        BY <1>0, <1>1, <2>2, <3>1, StoreWrites
      <4>2. QED
        BY <1>0, <4>1, WritesAreLive
    <3>2. CASE ~Store(r)
      <4>1. ~Serve(r) /\ \A a \in Account \cup {AnyAccount} : ~GetAccessToken(r, a)
        BY <2>2, <3>2 DEF Serve, Refresh, GetAccessToken, ResolveProvider, FindToken,
           ReadProvider, LockRow, Reread, Post, Goto
      <4>2. pc'[r] = pc[r] /\ tok'[r] = tok[r]
        BY <1>0, <4>1, RequestAlone
      <4>3. QED
        BY <2>2, <4>2
    <3>3. QED
      BY <3>1, <3>2
  <2>3. QED
    BY <1>1, <1>4, <2>1, <2>2 DEF LiveInv, LiveAt
<1>5. QED
  BY <1>2, <1>3, <1>4

\* As long as no row is removed, every consent returns a refresh token and nothing
\* fails, a stored refresh token is one the provider still accepts, but between the
\* provider's rotation and the UPDATE (oauthtoken.go:156-171, 217-237).
THEOREM StoredIsAccepted ==
    ASSUME NoRowRemoved, EveryConsentRefreshes PROVE Spec => []StoredRefreshIsLive
<1>1. Init => LiveInv
  <2>1. Init => \A i \in RowId : LiveAt(i)
    BY DEF Init, LiveAt
  <2>2. QED
    BY <2>1, InitRotation DEF LiveInv
<1>2. LiveInv /\ TypeOK' /\ [Next]_vars => LiveInv'
  BY LiveAtStep, RotationStep DEF LiveInv
<1>3. LiveInv => StoredRefreshIsLive
  BY DEF LiveInv, LiveAt, StoredRefreshIsLive
<1>4. QED
  BY <1>1, <1>2, <1>3, TypeCorrect, PTL DEF Spec

=============================================================================

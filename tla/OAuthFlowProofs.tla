---------------------------- MODULE OAuthFlowProofs ----------------------------
(***************************************************************************)
(* Consents, callbacks, edits and deletions, of any number of actors: a    *)
(* code is sent once, and providers come and go whole.                     *)
(***************************************************************************)
EXTENDS OAuthFlow, TLAPS

\* A callback that has the state row and has not sent its code yet.
Claimed == {"resolve", "config", "exchange"}

\* Which steps each kind of actor has, and where it knows its provider.
Places ==
    /\ \A f \in Flow : pc[f] \in {"idle", "config", "insert", "done"}
    /\ \A d \in Delivery : pc[d] \in {"idle", "claim", "resolve", "config", "exchange", "find", "write", "done"}
    /\ \A e \in Editor : pc[e] \in {"idle", "find", "write"}
    /\ \A s \in Saver : pc[s] \in {"idle", "write"}
    /\ pc[Remover] \in {"idle", "configs", "tokens", "commit"}
    /\ pc[Remover] # "idle" => pid[Remover] # 0

\* Nothing of a provider that has not been minted yet is in a table.
NothingAhead == /\ provider <= minted
                /\ \A p \in config \cup token : p <= minted

\* A consent's row is inserted once; whoever removed it is alone with its code, which has
\* not been sent.
ClaimedOnce ==
    /\ \A f \in Flow : /\ pc[f] # "done" => state[f] = "none"
                       /\ posts[f] \in {0, 1}
                       /\ posts[f] = 1 => state[f] = "gone"
    /\ \A d \in Delivery :
         /\ pc[d] = "claim" => state[flow[d]] # "none"
         /\ pc[d] \in Claimed =>
              /\ state[flow[d]] = "gone" /\ posts[flow[d]] = 0
              /\ \A o \in Delivery \ {d} : flow[o] = flow[d] => pc[o] \notin Claimed

\* The parts of TypeOK that an actor's step can disturb.
StepsOK == pc \in [Actor -> {"idle", "config", "insert", "claim", "resolve", "exchange",
                             "find", "write", "configs", "tokens", "commit", "done"}]
CopiesOK == /\ pid \in [Actor -> 0 .. MaxProvider]
            /\ \A a \in Actor : pid[a] <= minted
KnownOK == \A a \in Actor \ Saver :
             pc[a] \in {"config", "exchange", "find", "write", "commit"} => pid[a] # 0
SeenOK == seen \in [Actor -> BOOLEAN]
TablesOK == /\ provider \in 0 .. MaxProvider /\ minted \in 0 .. MaxProvider
            /\ config \subseteq ProviderId /\ token \subseteq ProviderId
            /\ state \in [Flow -> {"none", "open", "expired", "gone"}]
            /\ posts \in [Flow -> Nat] /\ flow \in [Delivery -> Flow]
            /\ doomed \subseteq {"config", "token"} \X ProviderId

FlowInv == TypeOK /\ Places /\ NothingAhead /\ ClaimedOnce

\* What a step owes.
Kept == FlowInv' /\ KeepsProviderId /\ AddsClean /\ DeletesAsOne

LEMMA FlowInitInv == Init => FlowInv
  BY MaxProviderIsPositive, ActorsAreDistinct
     DEF Init, FlowInv, TypeOK, Places, NothingAhead, ClaimedOnce, ProviderId, Actor, Claimed

\* An actor's step that leaves the tables alone.
LEMMA TablesAlone == ASSUME UNCHANGED tables PROVE KeepsProviderId /\ AddsClean /\ DeletesAsOne
  BY DEF tables, KeepsProviderId, AddsClean, DeletesAsOne

LEMMA TablesStay ==
  ASSUME TypeOK, NothingAhead, UNCHANGED <<provider, minted, config, token, flow, doomed>>,
         state' \in [Flow -> {"none", "open", "expired", "gone"}], posts' \in [Flow -> Nat]
  PROVE  TablesOK' /\ NothingAhead'
  BY DEF TypeOK, NothingAhead, TablesOK

LEMMA BeginKept == ASSUME FlowInv, NEW f \in Flow, Begin(f) \/ Expire(f) PROVE Kept
<1>0. f \in Actor \ Saver /\ OneShot \subseteq Actor
  BY ActorsAreDistinct DEF Actor, OneShot
<1> USE ActorsAreDistinct DEF OneShot, Actor, locals, tables, FlowInv
<1>1. CASE BeginResolve(f) \/ BeginConfig(f)
  <2> USE <1>1 DEF BeginResolve, BeginConfig, Resolve, NeedConfig, Return, Goto
  <2>1. TypeOK'
    <3> HIDE DEF Actor
    <3>1. StepsOK'
      BY <1>0 DEF TypeOK, StepsOK
    <3>2. CopiesOK'
      BY <1>0, MaxProviderIsPositive DEF TypeOK, NothingAhead, CopiesOK
    <3>3. KnownOK'
      BY <1>0 DEF TypeOK, KnownOK
    <3>4. SeenOK'
      BY <1>0 DEF TypeOK, SeenOK
    <3>5. TablesOK' /\ NothingAhead'
      <4>1. posts' \in [Flow -> Nat] /\ UNCHANGED <<provider, minted, config, token, state, flow, doomed>>
        BY <1>0 DEF TypeOK
      <4> QED BY <4>1, TablesStay DEF TypeOK
    <3> QED BY <3>1, <3>2, <3>3, <3>4, <3>5 DEF TypeOK, StepsOK, CopiesOK, KnownOK, SeenOK, TablesOK
  <2>2. Places'
    BY DEF Places, TypeOK
  <2>3. NothingAhead'
    BY DEF NothingAhead
  <2>4. ClaimedOnce'
    BY DEF ClaimedOnce, Claimed, Places, TypeOK
  <2> QED BY <2>1, <2>2, <2>3, <2>4, TablesAlone DEF Kept
<1>3. CASE BeginInsert(f)
  <2> USE <1>3 DEF BeginInsert, Return
  <2>1. TypeOK'
    <3> HIDE DEF Actor
    <3>1. StepsOK'
      BY <1>0 DEF TypeOK, StepsOK
    <3>2. CopiesOK'
      BY <1>0, MaxProviderIsPositive DEF TypeOK, NothingAhead, CopiesOK
    <3>3. KnownOK'
      BY <1>0 DEF TypeOK, KnownOK
    <3>4. SeenOK'
      BY <1>0 DEF TypeOK, SeenOK
    <3>5. TablesOK' /\ NothingAhead'
      <4>1. state' \in [Flow -> {"none", "open", "expired", "gone"}]
        BY DEF TypeOK
      <4> QED BY <4>1, TablesStay DEF TypeOK
    <3> QED BY <3>1, <3>2, <3>3, <3>4, <3>5 DEF TypeOK, StepsOK, CopiesOK, KnownOK, SeenOK, TablesOK
  <2>2. Places'
    BY DEF Places, TypeOK
  <2>3. NothingAhead'
    BY DEF NothingAhead
  <2>4. ClaimedOnce'
    BY DEF ClaimedOnce, Claimed, Places, TypeOK
  <2> QED BY <2>1, <2>2, <2>3, <2>4 DEF Kept, KeepsProviderId, AddsClean, DeletesAsOne
<1>4. CASE Expire(f)
  BY <1>4 DEF Expire, Kept, TypeOK, Places, NothingAhead, ClaimedOnce, Claimed, KeepsProviderId, AddsClean, DeletesAsOne
<1> QED BY <1>1, <1>3, <1>4 DEF Begin

LEMMA CompleteKept == ASSUME FlowInv, NEW d \in Delivery, Complete(d) PROVE Kept
<1>0. d \in Actor \ Saver /\ OneShot \subseteq Actor
  BY ActorsAreDistinct DEF Actor, OneShot
<1> USE ActorsAreDistinct DEF OneShot, Actor, locals, tables, FlowInv
<1>1. CASE ReadState(d)
  <2> USE <1>1 DEF ReadState, Goto
  <2>1. TypeOK' /\ NothingAhead'
    BY MaxProviderIsPositive DEF TypeOK, ProviderId, NothingAhead
  <2>2. Places'
    BY DEF Places, TypeOK
  <2>4. ClaimedOnce'
    BY DEF ClaimedOnce, Claimed, Places, TypeOK
  <2> QED BY <2>1, <2>2, <2>4, TablesAlone DEF Kept
<1>2. CASE Claim(d)
  <2> USE <1>2 DEF Claim, Goto
  <2>1. TypeOK' /\ NothingAhead'
    BY MaxProviderIsPositive DEF TypeOK, ProviderId, NothingAhead
  <2>2. Places'
    BY DEF Places, TypeOK
  <2>4. ClaimedOnce'
    BY DEF ClaimedOnce, Claimed, Places, TypeOK
  <2> QED BY <2>1, <2>2, <2>4 DEF Kept, KeepsProviderId, AddsClean, DeletesAsOne
<1>3. CASE ResolveAgain(d) \/ ReadConfig(d)
  <2> USE <1>3 DEF ResolveAgain, ReadConfig, Resolve, NeedConfig, Return, Goto
  <2>1. TypeOK' /\ NothingAhead'
    <3> HIDE DEF Actor
    <3>1. StepsOK'
      BY <1>0 DEF TypeOK, StepsOK
    <3>2. CopiesOK'
      BY <1>0, MaxProviderIsPositive DEF TypeOK, NothingAhead, CopiesOK
    <3>3. KnownOK'
      BY <1>0 DEF TypeOK, KnownOK
    <3>4. SeenOK'
      BY <1>0 DEF TypeOK, SeenOK
    <3>5. TablesOK' /\ NothingAhead'
      <4>1. posts' \in [Flow -> Nat] /\ UNCHANGED <<provider, minted, config, token, state, flow, doomed>>
        BY <1>0 DEF TypeOK
      <4> QED BY <4>1, TablesStay DEF TypeOK
    <3> QED BY <3>1, <3>2, <3>3, <3>4, <3>5 DEF TypeOK, StepsOK, CopiesOK, KnownOK, SeenOK, TablesOK
  <2>2. Places'
    BY DEF Places, TypeOK
  <2>4. ClaimedOnce'
    BY DEF ClaimedOnce, Claimed, Places, TypeOK
  <2> QED BY <2>1, <2>2, <2>4, TablesAlone DEF Kept
<1>4. CASE Exchange(d) \/ FindToken(d)
  <2> USE <1>4 DEF Exchange, FindToken, Goto
  <2>1. TypeOK' /\ NothingAhead'
    <3> HIDE DEF Actor
    <3>1. StepsOK'
      BY <1>0 DEF TypeOK, StepsOK
    <3>2. CopiesOK'
      BY <1>0, MaxProviderIsPositive DEF TypeOK, NothingAhead, CopiesOK
    <3>3. KnownOK'
      BY <1>0 DEF TypeOK, KnownOK
    <3>4. SeenOK'
      <4>1. (pid[d] \in token) \in BOOLEAN
        OBVIOUS
      <4>2. \/ seen' = seen \/ seen' = [seen EXCEPT ![d] = FALSE]
            \/ seen' = [seen EXCEPT ![d] = pid[d] \in token]
        BY <1>0
      <4> QED BY <4>1, <4>2, <1>0 DEF TypeOK, SeenOK
    <3>5. TablesOK' /\ NothingAhead'
      <4>1. posts' \in [Flow -> Nat] /\ UNCHANGED <<provider, minted, config, token, state, flow, doomed>>
        BY <1>0 DEF TypeOK
      <4> QED BY <4>1, TablesStay DEF TypeOK
    <3> QED BY <3>1, <3>2, <3>3, <3>4, <3>5 DEF TypeOK, StepsOK, CopiesOK, KnownOK, SeenOK, TablesOK
  <2>2. Places'
    BY DEF Places, TypeOK
  <2>4. ClaimedOnce'
    BY DEF ClaimedOnce, Claimed, Places, TypeOK
  <2> QED BY <2>1, <2>2, <2>4, TablesAlone DEF Kept
<1>5. CASE StoreToken(d)
  <2> USE <1>5 DEF StoreToken, Return
  <2>1. TypeOK' /\ NothingAhead'
    <3> HIDE DEF Actor
    <3>1. StepsOK'
      BY <1>0 DEF TypeOK, StepsOK
    <3>2. CopiesOK'
      BY <1>0, MaxProviderIsPositive DEF TypeOK, NothingAhead, CopiesOK
    <3>3. KnownOK'
      BY <1>0 DEF TypeOK, KnownOK
    <3>4. SeenOK'
      BY <1>0 DEF TypeOK, SeenOK
    <3>5. TablesOK' /\ NothingAhead'
      <4>1. pid[d] \in ProviderId /\ pid[d] <= minted
        BY <1>0, MaxProviderIsPositive DEF TypeOK, ProviderId
      <4>2. token' \subseteq token \cup {pid[d]}
        OBVIOUS
      <4> QED BY <4>1, <4>2 DEF TypeOK, NothingAhead, TablesOK
    <3> QED BY <3>1, <3>2, <3>3, <3>4, <3>5 DEF TypeOK, StepsOK, CopiesOK, KnownOK, SeenOK, TablesOK
  <2>2. Places'
    BY DEF Places, TypeOK
  <2>4. ClaimedOnce'
    BY DEF ClaimedOnce, Claimed, Places, TypeOK
  <2> QED BY <2>1, <2>2, <2>4 DEF Kept, KeepsProviderId, AddsClean, DeletesAsOne
<1> QED BY <1>1, <1>2, <1>3, <1>4, <1>5 DEF Complete

LEMMA EditKept == ASSUME FlowInv, NEW e \in Editor, Edit(e) PROVE Kept
<1>0. e \in Actor \ Saver /\ OneShot \subseteq Actor
  BY ActorsAreDistinct DEF Actor, OneShot
<1> USE ActorsAreDistinct DEF OneShot, Actor, locals, tables, FlowInv
<1>1. CASE EditResolve(e) \/ FindConfig(e)
  <2> USE <1>1 DEF EditResolve, FindConfig, Resolve, Return, Goto
  <2>1. TypeOK' /\ NothingAhead'
    <3> HIDE DEF Actor
    <3>1. StepsOK'
      BY <1>0 DEF TypeOK, StepsOK
    <3>2. CopiesOK'
      BY <1>0, MaxProviderIsPositive DEF TypeOK, NothingAhead, CopiesOK
    <3>3. KnownOK'
      BY <1>0 DEF TypeOK, KnownOK
    <3>4. SeenOK'
      <4>1. (pid[e] \in config) \in BOOLEAN
        OBVIOUS
      <4>2. \/ seen' = seen \/ seen' = [seen EXCEPT ![e] = FALSE]
            \/ seen' = [seen EXCEPT ![e] = pid[e] \in config]
        BY <1>0
      <4> QED BY <4>1, <4>2, <1>0 DEF TypeOK, SeenOK
    <3>5. TablesOK' /\ NothingAhead'
      <4>1. posts' \in [Flow -> Nat] /\ UNCHANGED <<provider, minted, config, token, state, flow, doomed>>
        BY <1>0 DEF TypeOK
      <4> QED BY <4>1, TablesStay DEF TypeOK
    <3> QED BY <3>1, <3>2, <3>3, <3>4, <3>5 DEF TypeOK, StepsOK, CopiesOK, KnownOK, SeenOK, TablesOK
  <2>2. Places'
    BY DEF Places, TypeOK
  <2>4. ClaimedOnce'
    BY DEF ClaimedOnce, Claimed, Places, TypeOK
  <2> QED BY <2>1, <2>2, <2>4, TablesAlone DEF Kept
<1>2. CASE StoreConfig(e)
  <2> USE <1>2 DEF StoreConfig, Return
  <2>1. TypeOK' /\ NothingAhead'
    <3> HIDE DEF Actor
    <3>1. StepsOK'
      BY <1>0 DEF TypeOK, StepsOK
    <3>2. CopiesOK'
      BY <1>0, MaxProviderIsPositive DEF TypeOK, NothingAhead, CopiesOK
    <3>3. KnownOK'
      BY <1>0 DEF TypeOK, KnownOK
    <3>4. SeenOK'
      BY <1>0 DEF TypeOK, SeenOK
    <3>5. TablesOK' /\ NothingAhead'
      <4>1. pid[e] \in ProviderId /\ pid[e] <= minted
        BY <1>0, MaxProviderIsPositive DEF TypeOK, ProviderId
      <4>2. config' \subseteq config \cup {pid[e]}
        OBVIOUS
      <4> QED BY <4>1, <4>2 DEF TypeOK, NothingAhead, TablesOK
    <3> QED BY <3>1, <3>2, <3>3, <3>4, <3>5 DEF TypeOK, StepsOK, CopiesOK, KnownOK, SeenOK, TablesOK
  <2>2. Places'
    BY DEF Places, TypeOK
  <2>4. ClaimedOnce'
    BY DEF ClaimedOnce, Claimed, Places, TypeOK
  <2> QED BY <2>1, <2>2, <2>4 DEF Kept, KeepsProviderId, AddsClean, DeletesAsOne
<1> QED BY <1>1, <1>2 DEF Edit

\* The new id is one that no table and no actor has.
LEMMA SaveKept == ASSUME FlowInv, NEW s \in Saver, Save(s) PROVE Kept
<1> USE ActorsAreDistinct DEF OneShot, Actor, locals, tables, FlowInv
<1>1. CASE ReadManifest(s)
  <2> USE <1>1 DEF ReadManifest, Goto
  <2>1. TypeOK' /\ NothingAhead'
    BY MaxProviderIsPositive DEF TypeOK, ProviderId, NothingAhead
  <2>2. Places'
    BY DEF Places, TypeOK
  <2>4. ClaimedOnce'
    BY DEF ClaimedOnce, Claimed, Places, TypeOK
  <2> QED BY <2>1, <2>2, <2>4, TablesAlone DEF Kept
<1>2. CASE SaveManifest(s)
  <2>0. /\ pc' = [pc EXCEPT ![s] = "idle"] /\ pid' = [pid EXCEPT ![s] = 0]
        /\ seen' = [seen EXCEPT ![s] = FALSE] /\ UNCHANGED <<flow, config, token, state, posts, doomed>>
        /\ \/ UNCHANGED <<provider, minted>>
           \/ /\ provider = 0 /\ minted < MaxProvider
              /\ minted' = minted + 1 /\ provider' = minted + 1
    BY <1>2 DEF SaveManifest, Return, InsertManifest, UpdateManifest
  <2>1. TypeOK' /\ NothingAhead'
    BY <2>0, MaxProviderIsPositive DEF TypeOK, ProviderId, NothingAhead
  <2>2. Places'
    BY <2>0 DEF Places, TypeOK
  <2>4. ClaimedOnce'
    BY <2>0 DEF ClaimedOnce, Claimed, Places, TypeOK
  <2>5. KeepsProviderId /\ AddsClean /\ DeletesAsOne
    BY <2>0, MaxProviderIsPositive DEF KeepsProviderId, AddsClean, DeletesAsOne, TypeOK, NothingAhead, ProviderId
  <2> QED BY <2>1, <2>2, <2>4, <2>5 DEF Kept
<1> QED BY <1>1, <1>2 DEF Save

\* A statement or a call that fails: the actor returns, and the tables stay as they are.
LEMMA FailKept == ASSUME FlowInv, NEW a \in Actor \ {Remover}, Fail(a), UNCHANGED doomed PROVE Kept
<1> USE ActorsAreDistinct DEF Fail, Return, FlowInv, tables
<1>0. OneShot \subseteq Actor
  BY DEF Actor, OneShot
<1>1. TypeOK'
  <2>1. StepsOK'
    BY <1>0 DEF TypeOK, StepsOK
  <2>2. CopiesOK'
    BY MaxProviderIsPositive DEF TypeOK, NothingAhead, CopiesOK
  <2>3. KnownOK'
    BY DEF TypeOK, KnownOK
  <2>4. SeenOK'
    BY DEF TypeOK, SeenOK
  <2>5. TablesOK' /\ NothingAhead'
    BY TablesStay DEF TypeOK
  <2> QED BY <2>1, <2>2, <2>3, <2>4, <2>5 DEF TypeOK, StepsOK, CopiesOK, KnownOK, SeenOK, TablesOK
<1>2. Places'
  BY DEF Places, TypeOK, Actor, OneShot
<1>3. NothingAhead'
  BY DEF NothingAhead
<1>4. ClaimedOnce'
  BY DEF ClaimedOnce, Claimed, Places, TypeOK, Actor, OneShot
<1> QED BY <1>1, <1>2, <1>3, <1>4, TablesAlone DEF Kept

\* The deletion of one row by its id.
LEMMA DeleteKept ==
  ASSUME FlowInv, NEW p \in ProviderId, DeleteConfig(p) \/ DeleteToken(p) PROVE Kept
<1> USE DEF FlowInv, DeleteConfig, DeleteToken, locals
<1>1. /\ UNCHANGED <<provider, minted, state, posts, pc, pid, seen, flow, doomed>>
      /\ config' \subseteq config /\ token' \subseteq token
  OBVIOUS
<1>2. TypeOK' /\ Places' /\ NothingAhead' /\ ClaimedOnce'
  BY <1>1 DEF TypeOK, Places, NothingAhead, ClaimedOnce, Claimed
<1>3. KeepsProviderId /\ AddsClean
  BY <1>1 DEF KeepsProviderId, AddsClean
<1>4. DeletesAsOne
  BY DEF DeletesAsOne
<1> QED BY <1>2, <1>3, <1>4 DEF Kept

\* The transaction removes rows when it commits, and then only those of the provider
\* that goes with it.
LEMMA CascadeKept == ASSUME FlowInv, CascadeSelect \/ Cascade PROVE Kept
<1> USE ActorsAreDistinct DEF FlowInv, locals, tables
<1>0. Remover \in Actor \ Saver /\ OneShot \subseteq Actor /\ Remover \notin OneShot
  BY DEF Actor, OneShot
<1>1. CASE CascadeSelect
  <2> USE <1>1 DEF CascadeSelect, Goto
  <2>1. TypeOK' /\ NothingAhead'
    <3> HIDE DEF Actor
    <3>1. StepsOK'
      BY <1>0 DEF TypeOK, StepsOK
    <3>2. CopiesOK'
      BY <1>0, MaxProviderIsPositive DEF TypeOK, NothingAhead, CopiesOK
    <3>3. KnownOK'
      BY <1>0 DEF TypeOK, KnownOK, Places
    <3>4. SeenOK'
      BY <1>0 DEF TypeOK, SeenOK
    <3>5. TablesOK' /\ NothingAhead'
      BY TablesStay DEF TypeOK
    <3> QED BY <3>1, <3>2, <3>3, <3>4, <3>5 DEF TypeOK, StepsOK, CopiesOK, KnownOK, SeenOK, TablesOK
  <2>2. Places'
    BY <1>0 DEF Places, TypeOK
  <2>3. ClaimedOnce'
    BY <1>0 DEF ClaimedOnce, Claimed, Places, TypeOK
  <2> QED BY <2>1, <2>2, <2>3, TablesAlone DEF Kept
<1>2. CASE CascadeConfigs
  <2> USE <1>2 DEF CascadeConfigs, Goto
  <2>1. TypeOK' /\ NothingAhead'
    <3> HIDE DEF Actor
    <3>1. StepsOK'
      BY <1>0 DEF TypeOK, StepsOK
    <3>2. CopiesOK'
      BY <1>0, MaxProviderIsPositive DEF TypeOK, NothingAhead, CopiesOK
    <3>3. KnownOK'
      BY <1>0 DEF TypeOK, KnownOK, Places
    <3>4. SeenOK'
      BY <1>0 DEF TypeOK, SeenOK
    <3>5. TablesOK' /\ NothingAhead'
      BY DEF TypeOK, NothingAhead, TablesOK
    <3> QED BY <3>1, <3>2, <3>3, <3>4, <3>5 DEF TypeOK, StepsOK, CopiesOK, KnownOK, SeenOK, TablesOK
  <2>2. Places'
    BY <1>0 DEF Places, TypeOK
  <2>3. ClaimedOnce'
    BY <1>0 DEF ClaimedOnce, Claimed, Places, TypeOK
  <2> QED BY <2>1, <2>2, <2>3, TablesAlone DEF Kept
<1>3. CASE CascadeTokens
  <2> USE <1>3 DEF CascadeTokens, Goto
  <2>1. TypeOK' /\ NothingAhead'
    <3> HIDE DEF Actor
    <3>1. StepsOK'
      BY <1>0 DEF TypeOK, StepsOK
    <3>2. CopiesOK'
      BY <1>0, MaxProviderIsPositive DEF TypeOK, NothingAhead, CopiesOK
    <3>3. KnownOK'
      BY <1>0 DEF TypeOK, KnownOK, Places
    <3>4. SeenOK'
      BY <1>0 DEF TypeOK, SeenOK
    <3>5. TablesOK' /\ NothingAhead'
      BY DEF TypeOK, NothingAhead, TablesOK
    <3> QED BY <3>1, <3>2, <3>3, <3>4, <3>5 DEF TypeOK, StepsOK, CopiesOK, KnownOK, SeenOK, TablesOK
  <2>2. Places'
    BY <1>0 DEF Places, TypeOK
  <2>3. ClaimedOnce'
    BY <1>0 DEF ClaimedOnce, Claimed, Places, TypeOK
  <2> QED BY <2>1, <2>2, <2>3, TablesAlone DEF Kept
<1>4. CASE CascadeCommit
  <2> USE <1>4 DEF CascadeCommit, Return
  <2>1. TypeOK' /\ NothingAhead'
    <3> HIDE DEF Actor
    <3>1. StepsOK'
      BY <1>0 DEF TypeOK, StepsOK
    <3>2. CopiesOK'
      BY <1>0, MaxProviderIsPositive DEF TypeOK, NothingAhead, CopiesOK
    <3>3. KnownOK'
      BY <1>0 DEF TypeOK, KnownOK, Places
    <3>4. SeenOK'
      BY <1>0 DEF TypeOK, SeenOK
    <3>5. TablesOK' /\ NothingAhead'
      BY MaxProviderIsPositive DEF TypeOK, NothingAhead, TablesOK
    <3> QED BY <3>1, <3>2, <3>3, <3>4, <3>5 DEF TypeOK, StepsOK, CopiesOK, KnownOK, SeenOK, TablesOK
  <2>2. Places'
    BY <1>0 DEF Places, TypeOK
  <2>3. ClaimedOnce'
    BY <1>0 DEF ClaimedOnce, Claimed, Places, TypeOK
  <2>4. KeepsProviderId /\ AddsClean /\ DeletesAsOne
    BY DEF KeepsProviderId, AddsClean, DeletesAsOne, ProviderId
  <2> QED BY <2>1, <2>2, <2>3, <2>4 DEF Kept
<1>5. CASE Rollback
  <2> USE <1>5 DEF Rollback, Fail, Return
  <2>1. TypeOK' /\ NothingAhead'
    <3> HIDE DEF Actor
    <3>1. StepsOK'
      BY <1>0 DEF TypeOK, StepsOK
    <3>2. CopiesOK'
      BY <1>0, MaxProviderIsPositive DEF TypeOK, NothingAhead, CopiesOK
    <3>3. KnownOK'
      BY <1>0 DEF TypeOK, KnownOK, Places
    <3>4. SeenOK'
      BY <1>0 DEF TypeOK, SeenOK
    <3>5. TablesOK' /\ NothingAhead'
      BY DEF TypeOK, NothingAhead, TablesOK
    <3> QED BY <3>1, <3>2, <3>3, <3>4, <3>5 DEF TypeOK, StepsOK, CopiesOK, KnownOK, SeenOK, TablesOK
  <2>2. Places'
    BY <1>0 DEF Places, TypeOK
  <2>3. ClaimedOnce'
    BY <1>0 DEF ClaimedOnce, Claimed, Places, TypeOK
  <2> QED BY <2>1, <2>2, <2>3, TablesAlone DEF Kept
<1> QED BY <1>1, <1>2, <1>3, <1>4, <1>5 DEF Cascade

LEMMA FlowStep ==
  FlowInv /\ [Next]_vars => FlowInv' /\ [KeepsProviderId]_vars /\ [AddsClean]_vars /\ [DeletesAsOne]_vars
<1> SUFFICES ASSUME FlowInv, [Next]_vars
             PROVE  FlowInv' /\ [KeepsProviderId]_vars /\ [AddsClean]_vars /\ [DeletesAsOne]_vars
  OBVIOUS
<1>1. CASE Next
  <2>1. Kept
    BY <1>1, BeginKept, CompleteKept, EditKept, SaveKept, FailKept, DeleteKept, CascadeKept DEF Next
  <2> QED BY <2>1 DEF Kept
<1>2. CASE UNCHANGED vars
  BY <1>2 DEF vars, tables, locals, FlowInv, TypeOK, Places, NothingAhead, ClaimedOnce, Claimed
<1> QED BY <1>1, <1>2

LEMMA AlwaysFlowInv == Spec => []FlowInv
<1>1. FlowInv /\ [Next]_vars => FlowInv'
  BY FlowStep
<1> QED BY FlowInitInv, <1>1, PTL DEF Spec

\* Every actor stays where its handler can be, and uses a provider id that it has looked up.
THEOREM TypeCorrect == Spec => []TypeOK
<1>1. FlowInv => TypeOK
  BY DEF FlowInv
<1> QED BY <1>1, AlwaysFlowInv, PTL

\* However many callbacks are delivered for however many consents, a code is presented at
\* the token endpoint once: only the callback whose DELETE removed the state row goes on
\* (oauthflow.go:186).
THEOREM CodeOnce == Spec => []CodeSentOnce
<1>1. FlowInv => CodeSentOnce
  <2> SUFFICES ASSUME FlowInv, NEW f \in Flow PROVE posts[f] <= 1
    BY DEF CodeSentOnce
  <2>1. posts[f] \in {0, 1}
    BY DEF FlowInv, ClaimedOnce
  <2> QED BY <2>1
<1> QED BY <1>1, AlwaysFlowInv, PTL

\* A provider keeps its id as long as it lives, whoever saves it at the same time
\* (resolver.go:76-77).
THEOREM StableIds == Spec => StableProviderId
<1>1. FlowInv /\ [Next]_vars => [KeepsProviderId]_vars
  BY FlowStep
<1> QED BY <1>1, AlwaysFlowInv, PTL DEF Spec, StableProviderId

\* A provider that is added again has no config and no token, and no goroutine that is
\* still on its way has its id (resolver.go:89).
THEOREM CleanStart == Spec => StartsClean
<1>1. FlowInv /\ [Next]_vars => [AddsClean]_vars
  BY FlowStep
<1> QED BY <1>1, AlwaysFlowInv, PTL DEF Spec, StartsClean

\* A config or a token goes alone only when it is asked to; the deletion of a provider that
\* does not commit takes nothing (postgres.go:448-480).
THEOREM WholeDeletion == Spec => DeletionIsAtomic
<1>1. FlowInv /\ [Next]_vars => [DeletesAsOne]_vars
  BY FlowStep
<1> QED BY <1>1, AlwaysFlowInv, PTL DEF Spec, DeletionIsAtomic
=============================================================================

---------------------------- MODULE RequestsProofs -----------------------------
(***************************************************************************)
(* However many requests, keys and replicas: the limiter keeps its windows *)
(* and whoever is answered behind the gate was entitled to what the route  *)
(* asks for.                                                               *)
(***************************************************************************)
EXTENDS StartupProofs

-----------------------------------------------------------------------------
(* The limiter alone: for any replicas, requests, addresses, limit and window. *)

\* No request has read a time, and no window has started, that lies ahead of the clock;
\* a request in allow is at a process that has its map.
Timely ==
    /\ \A r \in Req : /\ seen[r] <= clock
                      /\ from[r] # NoAddr => windows[from[r][1]] # NoMap
    /\ \A p \in Replica, a \in Addr :
         windows[p] # NoMap /\ windows[p][a] # NoWindow => windows[p][a].start <= clock

RateInv == RateTypeOK /\ Timely

\* A sweep changes a map into a map, and keeps each window that is not over.
LEMMA SweptKeeps ==
    ASSUME NEW m \in Map, NEW now \in Nat
    PROVE  /\ Swept(m, now) \in Map
           /\ \A a \in Addr : Swept(m, now)[a] \in {m[a], NoWindow}
           /\ \A a \in Addr : ~Over(m[a], now) => Swept(m, now)[a] = m[a]
  BY DEF Swept, Map

\* The map after a hit is a map, whose windows started no later than the ones before or
\* at the time of the hit.
LEMMA CountedKeeps ==
    ASSUME NEW m \in Map, NEW now \in Nat, NEW a \in Addr
    PROVE  /\ Counted(m, a, now) \in Map
           /\ \A b \in Addr : Counted(m, a, now)[b] # NoWindow =>
                \/ Counted(m, a, now)[b].start = now
                \/ m[b] # NoWindow /\ Counted(m, a, now)[b].start = m[b].start
           /\ \A b \in Addr : ~Over(m[b], now) =>
                /\ Counted(m, a, now)[b] # NoWindow
                /\ Counted(m, a, now)[b].start = m[b].start
                /\ Counted(m, a, now)[b].count >= m[b].count
<1> DEFINE s == Swept(m, now)
           c == Counted(m, a, now)
           new == IF Over(m[a], now) THEN [start |-> now, count |-> 1]
                                     ELSE [start |-> m[a].start, count |-> m[a].count + 1]
<1>1. /\ s \in Map
      /\ \A b \in Addr : s[b] \in {m[b], NoWindow}
      /\ \A b \in Addr : ~Over(m[b], now) => s[b] = m[b]
  BY SweptKeeps
<1>2. c = [s EXCEPT ![a] = new]
  BY DEF Counted
<1>3. c[a] = new /\ \A b \in Addr \ {a} : c[b] = s[b]
  BY <1>1, <1>2 DEF Map
<1>4. /\ new \in Window
      /\ ~Over(m[a], now) => new.start = m[a].start /\ new.count = m[a].count + 1
      /\ Over(m[a], now) => new.start = now
  <2>1. CASE Over(m[a], now)
    BY <2>1 DEF Window
  <2>2. CASE ~Over(m[a], now)
    <3>1. m[a] \in Window
      BY <2>2 DEF Over, Map
    <3> QED BY <2>2, <3>1 DEF Window
  <2> QED BY <2>1, <2>2
<1>5. c \in Map
  BY <1>1, <1>2, <1>4 DEF Map
<1>6. \A b \in Addr : m[b] # NoWindow => m[b] \in Window
  BY DEF Map
<1>7. NoWindow \notin Window
  BY MarksAreNew
<1> HIDE DEF s, c, new
<1>8. ASSUME NEW b \in Addr, c[b] # NoWindow
      PROVE  c[b].start = now \/ (m[b] # NoWindow /\ c[b].start = m[b].start)
  <2>1. CASE b = a
    BY <2>1, <1>3, <1>4 DEF Over
  <2>2. CASE b # a
    BY <2>2, <1>1, <1>3, <1>8
  <2> QED BY <2>1, <2>2
<1>9. ASSUME NEW b \in Addr, ~Over(m[b], now)
      PROVE  c[b] # NoWindow /\ c[b].start = m[b].start /\ c[b].count >= m[b].count
  <2>0. m[b] \in Window
    BY <1>6, <1>9 DEF Over
  <2>1. CASE b = a
    BY <2>0, <2>1, <1>3, <1>4, <1>7, <1>9 DEF Window
  <2>2. CASE b # a
    BY <2>0, <2>2, <1>1, <1>3, <1>7, <1>9 DEF Window
  <2> QED BY <2>1, <2>2
<1> QED BY <1>5, <1>8, <1>9 DEF c

\* The time a request read lies behind the clock: what runs by the clock runs by it too.
LEMMA OverLater ==
    ASSUME NEW w \in Window \cup {NoWindow}, NEW now \in Nat, NEW later \in Nat, now <= later,
           ~Over(w, later)
    PROVE  ~Over(w, now)
  BY LimitsArePositive DEF Over, Window

LEMMA RateInitInv == RateInit => RateInv
  BY MarksAreNew, AddrIsNew DEF RateInit, RateInv, RateTypeOK, Timely

\* A step that leaves the maps alone keeps their windows.
LEMMA SameMaps == RateInv /\ windows' = windows => KeepsRunningWindows
  BY DEF RateInv, RateTypeOK, KeepsRunningWindows, Map, Window, Over

LEMMA TickStep == RateInv /\ Tick => RateInv' /\ KeepsRunningWindows
<1> SUFFICES ASSUME RateInv, Tick PROVE RateInv' /\ KeepsRunningWindows
  OBVIOUS
<1>1. RateTypeOK'
  BY DEF Tick, RateInv, RateTypeOK
<1>2. Timely'
  BY DEF Tick, RateInv, RateTypeOK, Timely, Map, Window
<1> QED BY <1>1, <1>2, SameMaps DEF RateInv, Tick

LEMMA NewLimiterStep ==
    ASSUME NEW p \in Replica, RateInv, windows[p] = NoMap, NewLimiter(p)
    PROVE  RateInv' /\ KeepsRunningWindows
<1> USE DEF RateInv, NewLimiter
<1>1. EmptyMap \in Map
  BY DEF EmptyMap, Map
<1>2. RateTypeOK'
  BY <1>1 DEF RateTypeOK
<1>3. Timely'
  BY <1>1, MarksAreNew DEF RateTypeOK, Timely, EmptyMap
<1>4. KeepsRunningWindows
  BY DEF RateTypeOK, KeepsRunningWindows, Map, Window, Over
<1> QED BY <1>2, <1>3, <1>4

LEMMA LoseLimiterStep ==
    ASSUME NEW p \in Replica, RateInv, LoseLimiter(p)
    PROVE  RateInv' /\ KeepsRunningWindows
<1> USE DEF RateInv, LoseLimiter
<1>1. RateTypeOK'
  BY DEF RateTypeOK
<1>2. Timely'
  BY AddrIsNew DEF RateTypeOK, Timely
<1>3. KeepsRunningWindows
  BY DEF RateTypeOK, KeepsRunningWindows, Map, Window, Over
<1> QED BY <1>1, <1>2, <1>3

LEMMA ReadClockStep ==
    ASSUME NEW r \in Req, NEW p \in Replica, NEW a \in Addr, RateInv, ReadClock(r, p, a)
    PROVE  RateInv' /\ KeepsRunningWindows
<1> USE DEF RateInv, ReadClock
<1>1. RateTypeOK'
  BY DEF RateTypeOK
<1>2. Timely'
  BY DEF RateTypeOK, Timely
<1> QED BY <1>1, <1>2, SameMaps

\* The step the property is about: the time r acts on lies behind the clock.
LEMMA HitStep ==
    ASSUME NEW r \in Req, RateInv, Hit(r)
    PROVE  RateInv' /\ KeepsRunningWindows
<1> USE DEF RateInv
<1>1. PICK p \in Replica, a \in Addr : from[r] = <<p, a>>
  BY DEF Hit, RateTypeOK
<1>2. windows[p] \in Map /\ seen[r] \in Nat /\ seen[r] <= clock /\ clock \in Nat
  <2>1. from[r] # NoAddr /\ from[r][1] = p
    BY <1>1, AddrIsNew DEF Hit
  <2>2. windows[p] # NoMap /\ seen[r] <= clock
    BY <2>1 DEF Timely
  <2> QED BY <2>2 DEF RateTypeOK
<1> DEFINE c == Counted(windows[p], a, seen[r])
<1>3. /\ windows' = [windows EXCEPT ![p] = c]
      /\ from' = [from EXCEPT ![r] = NoAddr]
      /\ seen' = [seen EXCEPT ![r] = 0]
      /\ clock' = clock
  BY <1>1 DEF Hit
<1>4. /\ c \in Map
      /\ \A b \in Addr : c[b] # NoWindow =>
           c[b].start = seen[r] \/ (windows[p][b] # NoWindow /\ c[b].start = windows[p][b].start)
      /\ \A b \in Addr : ~Over(windows[p][b], seen[r]) =>
           /\ c[b] # NoWindow
           /\ c[b].start = windows[p][b].start
           /\ c[b].count >= windows[p][b].count
  BY <1>2, CountedKeeps
<1> HIDE DEF c
<1>5. RateTypeOK'
  BY <1>3, <1>4 DEF RateTypeOK
<1>6. Timely'
  <2>1. \A q \in Req : /\ seen'[q] <= clock'
                       /\ from'[q] # NoAddr => windows'[from'[q][1]] # NoMap
    BY <1>3, <1>4, AddrIsNew, MarksAreNew DEF RateTypeOK, Timely
  <2>2. \A o \in Replica, b \in Addr :
          windows'[o] # NoMap /\ windows'[o][b] # NoWindow => windows'[o][b].start <= clock'
    BY <1>2, <1>3, <1>4, MarksAreNew DEF RateTypeOK, Timely
  <2> QED BY <2>1, <2>2 DEF Timely
<1>7. KeepsRunningWindows
  <2> SUFFICES ASSUME NEW o \in Replica, NEW b \in Addr,
                      windows[o] # NoMap, ~Over(windows[o][b], clock)
               PROVE  /\ windows'[o][b] # NoWindow
                      /\ windows'[o][b].start = windows[o][b].start
                      /\ windows'[o][b].count >= windows[o][b].count
    BY DEF KeepsRunningWindows
  <2>1. CASE o = p
    <3>1. windows[p][b] \in Window \cup {NoWindow}
      BY <1>2 DEF Map
    <3>2. ~Over(windows[p][b], seen[r])
      BY <1>2, <2>1, <3>1, OverLater
    <3> QED BY <1>3, <1>4, <2>1, <3>2 DEF RateTypeOK
  <2>2. CASE o # p
    BY <1>3, <2>2 DEF RateTypeOK, Map, Window, Over
  <2> QED BY <2>1, <2>2
<1> QED BY <1>5, <1>6, <1>7

LEMMA RateStep == RateInv /\ [RateNext]_rateVars => RateInv' /\ [KeepsRunningWindows]_rateVars
<1> SUFFICES ASSUME RateInv, [RateNext]_rateVars
             PROVE  RateInv' /\ [KeepsRunningWindows]_rateVars
  OBVIOUS
<1>1. CASE Tick
  BY <1>1, TickStep
<1>2. ASSUME NEW p \in Replica, (windows[p] = NoMap /\ NewLimiter(p)) \/ LoseLimiter(p)
      PROVE  RateInv' /\ KeepsRunningWindows
  BY <1>2, NewLimiterStep, LoseLimiterStep
<1>3. ASSUME NEW r \in Req, Hit(r) \/ \E p \in Replica, a \in Addr : ReadClock(r, p, a)
      PROVE  RateInv' /\ KeepsRunningWindows
  BY <1>3, HitStep, ReadClockStep
<1>4. CASE UNCHANGED rateVars
  BY <1>4 DEF rateVars, RateInv, RateTypeOK, Timely
<1> QED BY <1>1, <1>2, <1>3, <1>4 DEF RateNext

-----------------------------------------------------------------------------
\* The limiter keeps its types, and every map it counts in exists.
THEOREM RateTypes == RateSpec => []RateTypeOK
<1>1. RateInv => RateTypeOK
  BY DEF RateInv
<1> QED BY <1>1, RateInitInv, RateStep, PTL DEF RateSpec

\* ipRateLimiter (limits.go:39-59): whichever requests hit and in whatever order they come
\* to the mutex, no window that is still running is dropped, restarted or counted down.
THEOREM WindowsKept == RateSpec => RunningWindowKept
  BY RateInitInv, RateStep, PTL DEF RateSpec, RunningWindowKept
-----------------------------------------------------------------------------
(* The requests. *)

ReqFields == {"pc", "at", "ask", "who", "copy", "status", "got", "events"}
Gated == {"serve", "touch", "write", "page"}

\* A request in flight is on a replica that is up, has no status yet, and every access
\* key of now is a witness of it; behind the gate its caller is entitled.
RequestInv(r) ==
    /\ DOMAIN req[r] = ReqFields
    /\ InFlight(r) => /\ req[r].at \in Replica /\ boot[req[r].at] = "up"
                      /\ keys \subseteq sinceKeys[r]
    /\ req[r].pc # "done" => req[r].status = 0
    /\ req[r].pc \in Gated => Entitled(r, req[r].who)

GateInv == /\ load \in DOMAIN Loads
           /\ DOMAIN req = Req /\ DOMAIN sinceKeys = Req
           /\ \A r \in Req : RequestInv(r)

LEMMA GateInitInv == Init => GateInv
  BY DEF Init, RequestInit, Idle, GateInv, RequestInv, ReqFields, Gated, InFlight

-----------------------------------------------------------------------------
\* A replica that serves goes on with the configuration it has.
ReplicasStay == \A p \in Replica : boot[p] = "up" => boot'[p] = "up" /\ conf'[p] = conf[p]

\* Versions are only added to what a request in flight has witnessed.
Witnesses(r) == InFlight(r) => sinceKeys[r] \subseteq sinceKeys'[r] /\ keys' \subseteq sinceKeys'[r]

\* Only entitlement of an earlier moment counts: it is never lost.
LEMMA EntitledStays ==
    ASSUME NEW r \in Req, NEW who, Entitled(r, who), InFlight(r), Witnesses(r),
           req'[r].ask = req[r].ask, req'[r].at = req[r].at,
           conf'[req[r].at] = conf[req[r].at]
    PROVE  Entitled(r, who)'
<1>1. A(r)' = A(r) /\ Ours(r)' = Ours(r)
  BY DEF A, Ours
<1>2. (\E k \in sinceKeys[r] : /\ k.id = A(r).by.key /\ k.enabled /\ k.user = who
                               /\ HasScope(k.scopes, Required(A(r).op)))
      => \E k \in sinceKeys'[r] : /\ k.id = A(r).by.key /\ k.enabled /\ k.user = who
                                  /\ HasScope(k.scopes, Required(A(r).op))
  BY DEF Witnesses
<1> QED BY <1>1, <1>2 DEF Entitled

\* A request that waits while others step.
LEMMA Unaffected ==
    ASSUME NEW r \in Req, RequestInv(r), req'[r] = req[r], Witnesses(r), ReplicasStay
    PROVE  RequestInv(r)'
<1>1. InFlight(r)' <=> InFlight(r)
  BY DEF InFlight
<1>2. req[r].pc \in Gated => InFlight(r) /\ Entitled(r, req[r].who)'
  BY EntitledStays DEF RequestInv, ReplicasStay, InFlight, Gated
<1> QED BY <1>1, <1>2 DEF RequestInv, Witnesses, ReplicasStay

\* What the fields of a request are after a step.
LEMMA Stepped ==
    ASSUME NEW r \in Req, DOMAIN req = Req, DOMAIN req[r] = ReqFields,
           NEW change, DOMAIN change \subseteq ReqFields, Step(r, change)
    PROVE  /\ DOMAIN req' = Req
           /\ \A q \in Req \ {r} : req'[q] = req[q]
           /\ DOMAIN req'[r] = ReqFields
           /\ \A f \in ReqFields : req'[r][f] = IF f \in DOMAIN change THEN change[f] ELSE req[r][f]
  BY DEF Step, With

\* A request goes on behind the gate, or is answered.
MovesOn(r) ==
    /\ DOMAIN req' = Req /\ \A q \in Req \ {r} : req'[q] = req[q]
    /\ DOMAIN req'[r] = ReqFields
    /\ req'[r].at = req[r].at /\ req'[r].ask = req[r].ask /\ req'[r].who = req[r].who
    /\ \/ req'[r].pc = "done"
       \/ req'[r].pc \in Gated /\ req'[r].status = req[r].status

LEMMA Answers ==
    ASSUME NEW r \in Req, DOMAIN req = Req, DOMAIN req[r] = ReqFields,
           NEW code, NEW secret, NEW events, Answer(r, code, secret, events)
    PROVE  MovesOn(r) /\ req'[r].pc = "done" /\ req'[r].status = code
  BY DEF Answer, Step, With, ReqFields, MovesOn

LEMMA GoesOn ==
    ASSUME NEW r \in Req, DOMAIN req = Req, DOMAIN req[r] = ReqFields,
           NEW pc \in Gated, NEW x, Step(r, [pc |-> pc]) \/ Step(r, [pc |-> pc, copy |-> x])
    PROVE  MovesOn(r)
  BY DEF Step, With, ReqFields, MovesOn

\* Every handler answers or goes on behind the gate, and witnesses what it writes.
LEMMA HandlesBehindGate ==
    ASSUME NEW r \in Req, DOMAIN req = Req, DOMAIN req[r] = ReqFields, Handle(r)
    PROVE  MovesOn(r) /\ req[r].pc \in Gated /\ (UNCHANGED <<keys, sinceKeys>> \/ Witness)
<1> USE DEF Gated
<1>1. CASE Malformed(r) \/ QueryFails(r) \/ Me(r)
  BY <1>1, Answers DEF Malformed, QueryFails, Me, Serving, Refuse, tables, history
<1>2. CASE Reveal(r) \/ Touch(r)
  <2>1. req[r].pc \in Gated /\ UNCHANGED <<keys, sinceKeys>>
    BY <1>2 DEF Reveal, Touch, Serving, tables, history
  <2>2. CASE Touch(r)
    BY <2>1, <2>2, Answers DEF Touch
  <2>3. CASE Reveal(r)
    <3>1. \/ Refuse(r, 404, {"TokenNotFound"}) \/ Refuse(r, 500, {})
          \/ \E x : Step(r, [pc |-> "touch", copy |-> x])
      BY <2>3 DEF Reveal
    <3>2. CASE Refuse(r, 404, {"TokenNotFound"}) \/ Refuse(r, 500, {})
      BY <2>1, <3>2, Answers DEF Refuse
    <3>3. ASSUME NEW x, Step(r, [pc |-> "touch", copy |-> x]) PROVE MovesOn(r)
      BY <3>3, GoesOn
    <3> QED BY <2>1, <3>1, <3>2, <3>3
  <2> QED BY <1>2, <2>2, <2>3
<1>3. CASE ReadForSave(r)
  BY <1>3, Answers, GoesOn DEF ReadForSave, Serving, Refuse, tables, history
<1>4. CASE InsertRow(r) \/ UpdateRow(r)
  BY <1>4, Answers DEF InsertRow, UpdateRow, Refuse
<1>5. CASE Remove(r) \/ List(r) \/ ShapeOnly(r)
  BY <1>5, Answers DEF Remove, List, ShapeOnly, Serving, Refuse, tables, history
<1>6. CASE NewKey(r)
  BY <1>6, Answers DEF NewKey, Serving, Refuse
<1>7. CASE SetKeyEnabled(r) \/ RemoveKey(r) \/ ListKeys(r)
  BY <1>7, Answers DEF SetKeyEnabled, RemoveKey, ListKeys, Serving, Refuse, tables, history
<1>8. CASE CountTrail(r) \/ PageTrail(r)
  BY <1>8, Answers, GoesOn DEF CountTrail, PageTrail, Serving, Refuse, tables, history
<1> QED BY <1>1, <1>2, <1>3, <1>4, <1>5, <1>6, <1>7, <1>8 DEF Handle

LEMMA HandleInv ==
    ASSUME GateInv, NEW r \in Req, Handle(r), ReplicasStay, load' = load
    PROVE  GateInv' /\ PassesOnlyEntitled
<1>1. MovesOn(r) /\ req[r].pc \in Gated /\ (UNCHANGED <<keys, sinceKeys>> \/ Witness)
  BY HandlesBehindGate DEF GateInv, RequestInv
<1>2. DOMAIN sinceKeys' = Req /\ \A q \in Req : Witnesses(q)
  BY <1>1 DEF GateInv, RequestInv, Witnesses, Witness
<1>3. ASSUME NEW q \in Req \ {r} PROVE RequestInv(q)' /\ req'[q] = req[q]
  BY <1>1, <1>2, Unaffected DEF MovesOn, GateInv
<1>4. /\ InFlight(r) /\ Witnesses(r) /\ RequestInv(r) /\ Entitled(r, req[r].who)
      /\ req'[r].at = req[r].at /\ req'[r].ask = req[r].ask /\ req'[r].who = req[r].who
  BY <1>1, <1>2 DEF MovesOn, GateInv, RequestInv, Gated, InFlight
<1>5. RequestInv(r)'
  <2>1. boot'[req[r].at] = "up" /\ conf'[req[r].at] = conf[req[r].at] /\ req[r].at \in Replica
    BY <1>4 DEF RequestInv, ReplicasStay
  <2>2. Entitled(r, req[r].who)'
    BY <1>4, <2>1, EntitledStays
  <2>3. keys' \subseteq sinceKeys'[r]
    BY <1>4 DEF Witnesses
  <2>4. req'[r].pc # "done" => req'[r].status = 0
    BY <1>1, <1>4 DEF MovesOn, RequestInv, InFlight
  <2> QED BY <1>1, <1>4, <2>1, <2>2, <2>3, <2>4 DEF MovesOn, RequestInv
<1>6. PassesOnlyEntitled
  BY <1>3, <1>4 DEF PassesOnlyEntitled, Ends, InFlight
<1> QED BY <1>1, <1>2, <1>3, <1>5, <1>6 DEF GateInv, MovesOn

LEMMA AsksAreKnown ==
    ASSUME load \in DOMAIN Loads, NEW r \in Req, Comes(r)
    PROVE  \E p \in Replica, q \in Ask : Arrive(r, p, q)
<1>1. Loads[load].asks[r] \subseteq Replica \X Ask
  BY LoadsAreStates DEF Comes
<1> QED BY <1>1 DEF Comes

\* A request comes to a replica that is up, and witnesses the keys of that moment.
LEMMA ArriveInv ==
    ASSUME GateInv, NEW r \in Req, Comes(r), ReplicasStay
    PROVE  GateInv' /\ PassesOnlyEntitled
<1>1. PICK p \in Replica, q \in Ask : Arrive(r, p, q)
  BY AsksAreKnown DEF GateInv
<1>2. /\ DOMAIN req' = Req /\ \A o \in Req \ {r} : req'[o] = req[o]
      /\ DOMAIN req'[r] = ReqFields
      /\ req'[r].pc = "limit" /\ req'[r].at = p /\ req'[r].status = req[r].status
  BY <1>1 DEF Arrive, Step, With, ReqFields, GateInv, RequestInv
<1>3. /\ boot[p] = "up" /\ req[r].pc = "new"
      /\ sinceKeys' = [sinceKeys EXCEPT ![r] = keys] /\ UNCHANGED <<keys, boot, load>>
  BY <1>1 DEF Arrive, Comes, tables, bootVars, bootState
<1>4. DOMAIN sinceKeys' = Req /\ \A o \in Req \ {r} : Witnesses(o)
  BY <1>3 DEF GateInv, RequestInv, Witnesses
<1>5. RequestInv(r)'
  BY <1>2, <1>3 DEF GateInv, RequestInv, InFlight, Gated
<1>6. \A o \in Req \ {r} : RequestInv(o)'
  BY <1>2, <1>4, Unaffected DEF GateInv
<1>7. PassesOnlyEntitled
  BY <1>2 DEF PassesOnlyEntitled, Ends, InFlight
<1> QED BY <1>2, <1>3, <1>4, <1>5, <1>6, <1>7 DEF GateInv

\* A request is let on to the credential, admitted as what its credential says, or refused.
Passes(r) ==
    /\ DOMAIN req' = Req /\ \A q \in Req \ {r} : req'[q] = req[q]
    /\ DOMAIN req'[r] = ReqFields
    /\ req'[r].at = req[r].at /\ req'[r].ask = req[r].ask
    /\ \/ req'[r].pc = "auth" /\ req'[r].status = req[r].status
       \/ /\ req'[r].pc = "serve" /\ req'[r].status = req[r].status
          /\ Entitled(r, req'[r].who)
       \/ /\ req'[r].pc = "done"
          /\ req'[r].status \in {401, 403, 429, 503} \/ A(r).op = "config"

LEMMA Refuses ==
    ASSUME NEW r \in Req, DOMAIN req = Req, DOMAIN req[r] = ReqFields,
           NEW code, NEW events, Refuse(r, code, events),
           code \in {401, 403, 429, 503} \/ A(r).op = "config"
    PROVE  Passes(r)
  BY Answers DEF Refuse, Passes, MovesOn

\* Admit asks for the scope that Entitled does.
LEMMA AdmitsEntitled ==
    ASSUME NEW r \in Req, DOMAIN req = Req, DOMAIN req[r] = ReqFields,
           NEW user, NEW granted, NEW events, Admit(r, user, granted, events),
           HasScope(granted, Required(A(r).op)) => Entitled(r, user)
    PROVE  Passes(r)
<1>1. CASE HasScope(granted, Required(A(r).op))
  BY <1>1 DEF Admit, Step, With, ReqFields, Passes
<1>2. CASE ~HasScope(granted, Required(A(r).op))
  BY <1>2, Refuses DEF Admit
<1> QED BY <1>1, <1>2

LEMMA GatePasses ==
    ASSUME NEW r \in Req, DOMAIN req = Req, RequestInv(r), Limits(r) \/ Authenticate(r)
    PROVE  Passes(r)
<1>0. DOMAIN req[r] = ReqFields
  BY DEF RequestInv
<1>1. CASE Limits(r)
  <2>1. CASE Refuse(r, 429, {}) \/ (A(r).op = "config" /\ Refuse(r, 200, {}))
    BY <1>0, <2>1, Refuses
  <2>2. CASE Step(r, [pc |-> "auth"])
    BY <1>0, <2>2 DEF Step, With, ReqFields, Passes
  <2> QED BY <1>1, <2>1, <2>2 DEF Limits
<1>2. CASE AuthenticateKey(r)
  <2>1. CASE Refuse(r, 401, {"AuthFailed"})
    BY <1>0, <2>1, Refuses
  <2>2. ASSUME NEW k \in UsableKey(r), Admit(r, k.user, k.scopes, {"AuthSucceeded"})
        PROVE  Passes(r)
    <3>1. k \in sinceKeys[r] /\ k.id = A(r).by.key /\ k.enabled /\ A(r).by.type = "key"
      BY <1>2 DEF UsableKey, AuthenticateKey, RequestInv, InFlight
    <3>2. HasScope(k.scopes, Required(A(r).op)) => Entitled(r, k.user)
      BY <3>1 DEF Entitled
    <3> QED BY <1>0, <2>2, <3>2, AdmitsEntitled
  <2> QED BY <1>2, <2>1, <2>2 DEF AuthenticateKey
<1>3. CASE AuthenticateToken(r)
  <2> DEFINE t == A(r).by
  <2>1. CASE Refuse(r, 503, {}) \/ Refuse(r, 401, {"AuthFailed"}) \/ Refuse(r, 401, {})
    BY <1>0, <2>1, Refuses
  <2>2. CASE t.valid /\ t.sub /\ Admit(r, t.user, VaultScopesFor(t.client), {})
    <3>1. HasScope(VaultScopesFor(t.client), Required(A(r).op)) => Entitled(r, t.user)
      BY <1>3, <2>2 DEF Entitled, AuthenticateToken
    <3> QED BY <1>0, <2>2, <3>1, AdmitsEntitled
  <2> QED BY <1>3, <2>1, <2>2 DEF AuthenticateToken
<1>4. CASE NoCredential(r)
  BY <1>0, <1>4, Refuses DEF NoCredential
<1> QED BY <1>1, <1>2, <1>3, <1>4 DEF Authenticate

\* Limiter and authentication refuse or let on; who is admitted is entitled.
LEMMA GateKeeps ==
    ASSUME GateInv, NEW r \in Req, Limits(r) \/ Authenticate(r), ReplicasStay, load' = load
    PROVE  GateInv' /\ PassesOnlyEntitled
<1>1. UNCHANGED <<keys, sinceKeys>> /\ RequestInv(r) /\ InFlight(r)
  BY DEF Limits, Authenticate, AuthenticateKey, AuthenticateToken, NoCredential, tables, history,
         GateInv, InFlight
<1>2. \A o \in Req : Witnesses(o)
  BY <1>1 DEF GateInv, RequestInv, Witnesses
<1>3. Passes(r)
  BY <1>1, GatePasses DEF GateInv
<1>4. ASSUME NEW o \in Req \ {r} PROVE RequestInv(o)' /\ req'[o] = req[o]
  BY <1>2, <1>3, Unaffected DEF Passes, GateInv
<1>5. RequestInv(r)'
  <2>1. boot'[req[r].at] = "up" /\ conf'[req[r].at] = conf[req[r].at] /\ req[r].at \in Replica
    BY <1>1 DEF RequestInv, ReplicasStay
  <2>2. ASSUME req'[r].pc = "serve" PROVE Entitled(r, req[r].who)'
    <3>1. PICK w : w = req'[r].who
      OBVIOUS
    <3>2. Entitled(r, w)
      BY <1>3, <2>2, <3>1 DEF Passes
    <3>3. Entitled(r, w)'
      BY <1>1, <1>2, <1>3, <2>1, <3>2, EntitledStays DEF Passes
    <3> QED BY <3>1, <3>3 DEF Entitled
  <2>3. keys' \subseteq sinceKeys'[r] /\ req[r].status = 0
    BY <1>1 DEF RequestInv, InFlight
  <2> QED BY <1>3, <2>1, <2>2, <2>3 DEF Passes, RequestInv, Gated
<1>6. PassesOnlyEntitled
  BY <1>3, <1>4 DEF PassesOnlyEntitled, Passes, Ends, InFlight
<1> QED BY <1>1, <1>3, <1>4, <1>5, <1>6 DEF GateInv, Passes

\* A killed process ends its requests without a status, and leaves the others.
LEMMA KilledInv ==
    ASSUME GateInv, BootInv, NEW p \in Replica, Killed(p)
    PROVE  GateInv' /\ PassesOnlyEntitled
<1>1. /\ DOMAIN req' = Req /\ UNCHANGED <<load, keys, sinceKeys, conf>>
      /\ boot' = [boot EXCEPT ![p] = "down"]
      /\ \A r \in Req : req'[r] = IF InFlight(r) /\ req[r].at = p
                                    THEN [req[r] EXCEPT !.pc = "done", !.copy = NoRow]
                                    ELSE req[r]
  BY DEF Killed, CutOff, Crash, Go, tables, history
<1>2. ASSUME NEW r \in Req PROVE RequestInv(r)' /\ (Ends(r) => req'[r].status = 0)
  <2>0. RequestInv(r)
    BY DEF GateInv
  <2>1. CASE InFlight(r) /\ req[r].at = p
    BY <1>1, <2>0, <2>1 DEF RequestInv, ReqFields, InFlight, Gated
  <2>2. CASE ~InFlight(r)
    BY <1>1, <2>0, <2>2 DEF RequestInv, InFlight, Gated, Ends
  <2>3. CASE InFlight(r) /\ req[r].at # p
    <3>1. /\ req'[r] = req[r] /\ Witnesses(r)
          /\ boot'[req[r].at] = "up" /\ conf'[req[r].at] = conf[req[r].at]
      BY <1>1, <2>0, <2>3 DEF RequestInv, Witnesses, BootInv, BootTypes
    <3>2. req[r].pc \in Gated => Entitled(r, req[r].who)'
      BY <2>0, <2>3, <3>1, EntitledStays DEF RequestInv
    <3> QED BY <2>0, <2>3, <3>1, <3>2, <1>1 DEF RequestInv, Ends, InFlight
  <2> QED BY <2>1, <2>2, <2>3
<1>3. PassesOnlyEntitled
  BY <1>2 DEF PassesOnlyEntitled
<1> QED BY <1>1, <1>2, <1>3 DEF GateInv

\* Whatever else happens to a replica, one that serves is left alone.
LEMMA Undisturbed ==
    ASSUME GateInv, ReplicasStay, UNCHANGED <<load, reqVars>>
    PROVE  GateInv' /\ PassesOnlyEntitled
<1>1. UNCHANGED <<load, req, keys, sinceKeys>>
  BY DEF reqVars, tables, history
<1>2. \A r \in Req : Witnesses(r) /\ RequestInv(r) /\ req'[r] = req[r]
  BY <1>1 DEF GateInv, RequestInv, Witnesses
<1>3. \A r \in Req : RequestInv(r)'
  BY <1>2, Unaffected
<1> QED BY <1>1, <1>2, <1>3 DEF GateInv, PassesOnlyEntitled, Ends, InFlight

LEMMA StartsStay ==
    ASSUME BootInv, NEW p \in Replica, Starts(p) \/ Retries(p) PROVE ReplicasStay
  BY DEF Starts, Retries, RetryVerifier, Proceed, NewServer, Load, NewPostgres, AcquireConn, TakeLock,
         EnsureTable, Check, BeginTx, ApplyBody, Record, Commit, Unlock, NewKekProvider, NextVersion,
         Go, ReplicasStay, BootInv, BootTypes

LEMMA SurroundingsStay == ASSUME BootInv, Surroundings PROVE ReplicasStay
  BY DEF Surroundings, Launch, StatementFails, Fail, CommitUnanswered, IdpFails, IdpReturns,
         Go, ReplicasStay, BootInv, BootTypes

LEMMA GateStep ==
    BootInv /\ GateInv /\ [Next]_vars => GateInv' /\ [PassesOnlyEntitled]_reqVars
<1> SUFFICES ASSUME BootInv, GateInv, [Next]_vars PROVE GateInv' /\ PassesOnlyEntitled
  OBVIOUS
<1>0. UNCHANGED bootState => ReplicasStay
  BY DEF bootState, ReplicasStay
<1>1. ASSUME NEW p \in Replica, Starts(p) \/ Retries(p) PROVE GateInv' /\ PassesOnlyEntitled
  BY <1>1, StartsStay, Undisturbed DEF Starts, Retries
<1>2. ASSUME NEW p \in Replica, Killed(p) PROVE GateInv' /\ PassesOnlyEntitled
  BY <1>2, KilledInv
<1>3. ASSUME NEW p \in Replica, Sweeping(p) \/ Settles(p) PROVE GateInv' /\ PassesOnlyEntitled
  BY <1>0, <1>3, Undisturbed DEF Sweeping, Settles
<1>4. CASE Surroundings
  BY <1>4, SurroundingsStay, Undisturbed DEF Surroundings
<1>5. CASE Time \/ Trailing
  BY <1>0, <1>5, Undisturbed DEF Time, Trailing
<1>6. ASSUME NEW r \in Req, Comes(r) PROVE GateInv' /\ PassesOnlyEntitled
  BY <1>0, <1>6, ArriveInv DEF Comes, bootVars
<1>7. ASSUME NEW r \in Req, Serves(r) PROVE GateInv' /\ PassesOnlyEntitled
  BY <1>0, <1>7, GateKeeps, HandleInv DEF Serves
<1>8. CASE UNCHANGED vars
  BY <1>0, <1>8, Undisturbed DEF vars, bootVars
<1> QED BY <1>1, <1>2, <1>3, <1>4, <1>5, <1>6, <1>7, <1>8 DEF Next

-----------------------------------------------------------------------------
\* authMiddleware and scopeGate (middleware.go:34-70, scopemap.go) of however many requests and
\* replicas: nobody is answered behind the gate whose credential has not entitled them, at some
\* moment since the request came, to the scope that its route asks for.
THEOREM OnlyTheEntitledPass == Spec => AuthorizedOnly
<1>1. Init => BootInv /\ GateInv
  BY BootInitInv, GateInitInv
<1>2. BootInv /\ GateInv /\ [Next]_vars => (BootInv /\ GateInv)' /\ [PassesOnlyEntitled]_reqVars
  BY BootStep, GateStep
<1> QED BY <1>1, <1>2, PTL DEF Spec, AuthorizedOnly

-----------------------------------------------------------------------------
\* The limiter of the server: a process that is not up has no map.
LimiterInv == RateInv /\ \A p \in Replica : boot[p] # "up" => windows[p] = NoMap

LEMMA LimiterInitInv == Init => LimiterInv
<1> SUFFICES ASSUME Init PROVE LimiterInv
  OBVIOUS
<1>1. EmptyMap \in Map
  BY DEF EmptyMap, Map
<1> QED BY <1>1, MarksAreNew, AddrIsNew DEF Init, LimiterInv, RateInv, RateTypeOK, Timely, EmptyMap

\* To the limiter, every step of the server is one of its own.
LEMMA LimiterStep ==
    BootInv /\ LimiterInv /\ [Next]_vars => LimiterInv' /\ [RateNext]_rateVars
<1> SUFFICES ASSUME BootInv, LimiterInv, [Next]_vars PROVE LimiterInv' /\ [RateNext]_rateVars
  OBVIOUS
<1> USE DEF LimiterInv
<1>1. ASSUME [RateNext]_rateVars PROVE RateInv'
  BY <1>1, RateStep
<1>2. ASSUME UNCHANGED rateVars, ReplicasStay PROVE LimiterInv' /\ [RateNext]_rateVars
  BY <1>1, <1>2 DEF rateVars, ReplicasStay
<1>3. UNCHANGED bootState => ReplicasStay /\ UNCHANGED boot
  BY DEF bootState, ReplicasStay
<1>4. ASSUME NEW p \in Replica, Starts(p) \/ Retries(p) PROVE LimiterInv' /\ [RateNext]_rateVars
  <2>1. CASE UNCHANGED rateVars
    BY <1>2, <1>4, <2>1, StartsStay
  <2>2. CASE NewServer(p) /\ boot'[p] = "up" /\ NewLimiter(p)
    <3>1. windows[p] = NoMap
      BY <2>2 DEF NewServer
    <3>2. RateNext
      BY <2>2, <3>1 DEF RateNext
    <3>3. \A q \in Replica : boot'[q] # "up" => windows'[q] = NoMap
      BY <2>2 DEF NewServer, NewLimiter, Go, RateInv, RateTypeOK, BootInv, BootTypes
    <3> QED BY <1>1, <3>2, <3>3
  <2> QED BY <1>4, <2>1, <2>2 DEF Starts, Retries
<1>5. ASSUME NEW p \in Replica, Killed(p) PROVE LimiterInv' /\ [RateNext]_rateVars
  <2>1. RateNext
    BY <1>5 DEF Killed, RateNext
  <2>2. \A q \in Replica : boot'[q] # "up" => windows'[q] = NoMap
    BY <1>5 DEF Killed, Crash, LoseLimiter, Go, RateInv, RateTypeOK, BootInv, BootTypes
  <2> QED BY <1>1, <2>1, <2>2
<1>6. ASSUME NEW p \in Replica, Sweeping(p) \/ Settles(p) PROVE LimiterInv' /\ [RateNext]_rateVars
  BY <1>2, <1>3, <1>6 DEF Sweeping, Settles
<1>7. CASE Surroundings
  BY <1>2, <1>7, SurroundingsStay DEF Surroundings
<1>8. CASE Time \/ Trailing
  <2>1. CASE Tick /\ UNCHANGED bootState
    BY <1>1, <1>3, <2>1 DEF Tick, RateNext
  <2> QED BY <1>2, <1>3, <1>8, <2>1 DEF Time, Trailing
<1>9. ASSUME NEW r \in Req, Comes(r) PROVE LimiterInv' /\ [RateNext]_rateVars
  <2>1. PICK p \in Replica, a \in Addr : boot[p] = "up" /\ ReadClock(r, p, a)
    BY <1>9, AsksAreKnown DEF Arrive, BootInv
  <2>2. RateNext /\ UNCHANGED <<windows, boot>>
    BY <1>9, <2>1 DEF RateNext, ReadClock, Comes, bootVars, bootState
  <2> QED BY <1>1, <2>2
<1>10. ASSUME NEW r \in Req, Serves(r) PROVE LimiterInv' /\ [RateNext]_rateVars
  <2>1. CASE Hit(r)
    <3>1. RateNext /\ UNCHANGED boot
      BY <1>10, <2>1 DEF RateNext, Serves, bootState
    <3>2. \A p \in Replica : boot[p] # "up" => windows'[p] = windows[p]
      BY <2>1, AddrIsNew DEF Hit, RateInv, RateTypeOK, Timely
    <3> QED BY <1>1, <3>1, <3>2
  <2> QED BY <1>2, <1>3, <1>10, <2>1 DEF Serves, Limits
<1>11. CASE UNCHANGED vars
  BY <1>2, <1>3, <1>11 DEF vars, bootVars
<1> QED BY <1>4, <1>5, <1>6, <1>7, <1>8, <1>9, <1>10, <1>11 DEF Next

\* ipRateLimiter as the server uses it (server.go:103, limits.go:62-90): requests that wait for the
\* mutex with an old time, and processes that start and are killed, make no running window
\* forget what it has counted.
THEOREM ServerKeepsWindows == Spec => RunningWindowKept
<1>1. Init => BootInv /\ LimiterInv
  BY BootInitInv, LimiterInitInv
<1>2. BootInv /\ LimiterInv /\ [Next]_vars => (BootInv /\ LimiterInv)' /\ [KeepsRunningWindows]_rateVars
  BY BootStep, LimiterStep, RateStep DEF LimiterInv
<1> QED BY <1>1, <1>2, PTL DEF Spec, RunningWindowKept
=============================================================================

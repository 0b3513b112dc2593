------------------------------ MODULE RateLimiter ------------------------------
(***************************************************************************)
(* The fixed windows of httpapi/limits.go.  Every replica has one counter  *)
(* per client address, shared by the requests it serves.  A request reads  *)
(* the clock before it waits for the mutex, so it may act on an older time *)
(* than another that was let in first.  Time is counted in ticks.          *)
(***************************************************************************)
EXTENDS Integers, FiniteSets

CONSTANTS Replica,     \* server processes
          Req,         \* goroutines that serve requests
          Addr,        \* client addresses
          NoAddr,      \* no address: the request is not in allow
          NoWindow,    \* an address without entry in the map
          NoMap,       \* a process that has not made its map
          Limit,       \* rateLimitPerWindow
          Period,      \* rateLimitWindow, in ticks
          SweepAbove   \* the size of the map above which a hit sweeps it

ASSUME LimitsArePositive == Limit \in Nat \ {0} /\ Period \in Nat \ {0} /\ SweepAbove \in Nat
ASSUME AddrIsNew == NoAddr \notin Addr

VARIABLES clock,    \* the time
          windows,  \* [Replica -> its map: [Addr -> [start, count] or NoWindow]]
          from,     \* a request in allow: the replica and the address
          seen      \* a request in allow: the time it read

rateVars == <<clock, windows, from, seen>>

Window == [start : Nat, count : Nat \ {0}]
Map == [Addr -> Window \cup {NoWindow}]
EmptyMap == [a \in Addr |-> NoWindow]

ASSUME MarksAreNew == NoWindow \notin Window /\ NoMap \notin Map

RateTypeOK == /\ clock \in Nat
              /\ windows \in [Replica -> Map \cup {NoMap}]
              /\ from \in [Req -> (Replica \X Addr) \cup {NoAddr}]
              /\ seen \in [Req -> Nat]

RateInit == /\ clock = 0
            /\ windows = [p \in Replica |-> NoMap]
            /\ from = [r \in Req |-> NoAddr]
            /\ seen = [r \in Req |-> 0]

Tick == clock' = clock + 1 /\ UNCHANGED <<windows, from, seen>>

\* A process makes its map when it starts, and takes it along when it ends.
NewLimiter(p) == windows' = [windows EXCEPT ![p] = EmptyMap] /\ UNCHANGED <<clock, from, seen>>

LoseLimiter(p) ==
    /\ windows' = [windows EXCEPT ![p] = NoMap]
    /\ from' = [r \in Req |-> IF from[r] \in {p} \X Addr THEN NoAddr ELSE from[r]]
    /\ seen' = [r \in Req |-> IF from[r] \in {p} \X Addr THEN 0 ELSE seen[r]]
    /\ UNCHANGED clock

\* The call of allow, up to the mutex.
ReadClock(r, p, a) == /\ windows[p] # NoMap /\ from[r] = NoAddr
                      /\ from' = [from EXCEPT ![r] = <<p, a>>]
                      /\ seen' = [seen EXCEPT ![r] = clock]
                      /\ UNCHANGED <<clock, windows>>

Over(w, now) == w = NoWindow \/ now - w.start >= Period

Tracked(m) == {a \in Addr : m[a] # NoWindow}

\* Mutant: a full map is emptied.
SweptOfAll(m, now) == IF Cardinality(Tracked(m)) > SweepAbove THEN EmptyMap ELSE m

\* A map that has grown drops the windows that are over.
Swept(m, now) == IF Cardinality(Tracked(m)) > SweepAbove
                   THEN [a \in Addr |-> IF Over(m[a], now) THEN NoWindow ELSE m[a]]
                   ELSE m

\* Whether the hit of r is within the budget of its address.
Within(r) == LET w == windows[from[r][1]][from[r][2]]
             IN  Over(w, seen[r]) \/ w.count < Limit

\* allow under the mutex: every hit is counted, the refused ones too.
Counted(m, a, now) ==
    [Swept(m, now) EXCEPT ![a] =
       IF Over(m[a], now) THEN [start |-> now, count |-> 1]
                          ELSE [start |-> m[a].start, count |-> m[a].count + 1]]

Hit(r) == /\ from[r] # NoAddr
          /\ windows' = [windows EXCEPT ![from[r][1]] = Counted(@, from[r][2], seen[r])]
          /\ from' = [from EXCEPT ![r] = NoAddr]
          /\ seen' = [seen EXCEPT ![r] = 0]
          /\ UNCHANGED clock

RateNext == \/ Tick
            \/ \E p \in Replica : (windows[p] = NoMap /\ NewLimiter(p)) \/ LoseLimiter(p)
            \/ \E r \in Req : Hit(r) \/ \E p \in Replica, a \in Addr : ReadClock(r, p, a)

RateSpec == RateInit /\ [][RateNext]_rateVars

-----------------------------------------------------------------------------
\* A step that forgets or restarts no running window.
KeepsRunningWindows ==
    \A p \in Replica, a \in Addr :
      /\ windows[p] # NoMap
      /\ windows'[p] # NoMap
      /\ ~Over(windows[p][a], clock)
      => /\ windows'[p][a] # NoWindow
         /\ windows'[p][a].start = windows[p][a].start
         /\ windows'[p][a].count >= windows[p][a].count

\* What a running window has counted stays counted, whoever hits and however late:
\* neither the sweep ("bounded memory without a goroutine", limits.go:18-20) nor a
\* request that read an older time forgets or restarts it, and a refused hit does
\* not prolong it.
RunningWindowKept == [][KeepsRunningWindows]_rateVars
=============================================================================

----------------------------- MODULE KeyedMutex -----------------------------
(***************************************************************************)
(* service/keyedmutex.go: a map from key to reference-counted mutex,       *)
(* itself guarded by the mutex k.mu.  One step per statement that touches  *)
(* shared state, so that everything k.mu protects can be seen interleaved. *)
(***************************************************************************)
EXTENDS Naturals, FiniteSets

CONSTANTS Caller,    \* goroutines
          Key,       \* token row ids
          Mutex,     \* refCountedMutex objects the heap can hold
          NoKey, NoMutex, NoCaller

ASSUME CallerIsFinite == IsFiniteSet(Caller)
ASSUME NullsAreNew == /\ NoKey \notin Key
                      /\ NoMutex \notin Mutex
                      /\ NoCaller \notin Caller

VARIABLES guard,     \* k.mu: the caller that holds it, or NoCaller
          locks,     \* k.locks: [Key -> Mutex or NoMutex], NoMutex = no entry
          refs,      \* m.refs of every object
          owner,     \* m.mu of every object: the caller that holds it, or NoCaller
          pc,        \* the statement each caller is about to run
          key,       \* the argument of a caller's lock(key)
          mine       \* a caller's local variable m

vars == <<guard, locks, refs, owner, pc, key, mine>>

-----------------------------------------------------------------------------
Statement == {"idle",                                   \* outside lock/unlock
              "lock_k", "lookup", "create", "count", "unlock_k", "lock_m",
              "held",                                   \* lock has returned
              "relock_k", "uncount", "drop", "reunlock_k"}

TypeOK == /\ guard \in Caller \cup {NoCaller}
          /\ locks \in [Key -> Mutex \cup {NoMutex}]
          /\ refs \in [Mutex -> Nat]
          /\ owner \in [Mutex -> Caller \cup {NoCaller}]
          /\ pc \in [Caller -> Statement]
          /\ key \in [Caller -> Key \cup {NoKey}]
          /\ mine \in [Caller -> Mutex \cup {NoMutex}]

Init == /\ guard = NoCaller
        /\ locks = [k \in Key |-> NoMutex]
        /\ refs = [m \in Mutex |-> 0]
        /\ owner = [m \in Mutex |-> NoCaller]
        /\ pc = [c \in Caller |-> "idle"]
        /\ key = [c \in Caller |-> NoKey]
        /\ mine = [c \in Caller |-> NoMutex]

Goto(c, from, to) == /\ pc[c] = from
                     /\ pc' = [pc EXCEPT ![c] = to]

\* An object that neither the map nor a caller refers to: what a new
\* &refCountedMutex{} can be.
Unreachable(m) == /\ \A k \in Key : locks[k] # m
                  /\ \A c \in Caller : mine[c] # m

-----------------------------------------------------------------------------
Call(c, k) == /\ Goto(c, "idle", "lock_k")
              /\ key' = [key EXCEPT ![c] = k]
              /\ UNCHANGED <<guard, locks, refs, owner, mine>>

LockMap(c, from, to) == /\ guard = NoCaller
                        /\ Goto(c, from, to)
                        /\ guard' = c
                        /\ UNCHANGED <<locks, refs, owner, key, mine>>

UnlockMap(c, from, to) == /\ Goto(c, from, to)
                          /\ guard' = NoCaller
                          /\ UNCHANGED <<locks, refs, owner, key>>

Lookup(c) == /\ Goto(c, "lookup",
                     IF locks[key[c]] = NoMutex THEN "create" ELSE "count")
             /\ mine' = [mine EXCEPT ![c] = locks[key[c]]]
             /\ UNCHANGED <<guard, locks, refs, owner, key>>

Create(c) == /\ Goto(c, "create", "count")
             /\ \E m \in Mutex :
                  /\ Unreachable(m)
                  /\ mine' = [mine EXCEPT ![c] = m]
                  /\ locks' = [locks EXCEPT ![key[c]] = m]
                  /\ refs' = [refs EXCEPT ![m] = 0]
                  /\ owner' = [owner EXCEPT ![m] = NoCaller]
             /\ UNCHANGED <<guard, key>>

\* Mutant: m.refs++ forgotten.
CountNothing(c) == /\ Goto(c, "count", "unlock_k")
                   /\ UNCHANGED <<guard, locks, refs, owner, key, mine>>

Count(c) == /\ Goto(c, "count", "unlock_k")
            /\ refs' = [refs EXCEPT ![mine[c]] = @ + 1]
            /\ UNCHANGED <<guard, locks, owner, key, mine>>

Enter(c) == /\ UnlockMap(c, "unlock_k", "lock_m")
            /\ UNCHANGED mine

Acquire(c) == /\ Goto(c, "lock_m", "held")
              /\ owner[mine[c]] = NoCaller
              /\ owner' = [owner EXCEPT ![mine[c]] = c]
              /\ UNCHANGED <<guard, locks, refs, key, mine>>

\* Mutant: the unlock function returns before it releases the per-key mutex.
ReleaseNothing(c) == /\ Goto(c, "held", "relock_k")
                     /\ UNCHANGED <<guard, locks, refs, owner, key, mine>>

Release(c) == /\ Goto(c, "held", "relock_k")
              /\ owner' = [owner EXCEPT ![mine[c]] = NoCaller]
              /\ UNCHANGED <<guard, locks, refs, key, mine>>

\* Mutant: the entry is dropped by whoever unlocks, waiters or not.
UncountAlwaysDrops(c) == /\ Goto(c, "uncount", "drop")
                         /\ refs' = [refs EXCEPT ![mine[c]] = @ - 1]
                         /\ UNCHANGED <<guard, locks, owner, key, mine>>

Uncount(c) == /\ Goto(c, "uncount", IF refs[mine[c]] = 1 THEN "drop" ELSE "reunlock_k")
              /\ refs' = [refs EXCEPT ![mine[c]] = @ - 1]
              /\ UNCHANGED <<guard, locks, owner, key, mine>>

\* Mutant: idle entries stay in the map.
DropNothing(c) == /\ Goto(c, "drop", "reunlock_k")
                  /\ UNCHANGED <<guard, locks, refs, owner, key, mine>>

Drop(c) == /\ Goto(c, "drop", "reunlock_k")
           /\ locks' = [locks EXCEPT ![key[c]] = NoMutex]
           /\ UNCHANGED <<guard, refs, owner, key, mine>>

Leave(c) == /\ UnlockMap(c, "reunlock_k", "idle")
            /\ mine' = [mine EXCEPT ![c] = NoMutex]

Lock(c) == \/ LockMap(c, "lock_k", "lookup")
           \/ Lookup(c) \/ Create(c) \/ Count(c) \/ Enter(c) \/ Acquire(c)

Unlock(c) == \/ Release(c)
             \/ LockMap(c, "relock_k", "uncount")
             \/ Uncount(c) \/ Drop(c) \/ Leave(c)

Next == \E c \in Caller : (\E k \in Key : Call(c, k)) \/ Lock(c) \/ Unlock(c)

\* A caller always has one next statement.  Only the two Lock() calls can block,
\* and sync.Mutex hands over to a waiter that has been starved for 1 ms, so a
\* caller that keeps finding its mutex free gets it: strong fairness.  The holder
\* goes on because the only caller of lock unlocks in a defer around bounded work
\* (oauthtoken.go:161-162, 30 s client timeout at main.go:99).
Fairness == \A c \in Caller : SF_vars(Lock(c) \/ Unlock(c))

Spec == Init /\ [][Next]_vars /\ Fairness

-----------------------------------------------------------------------------
\* The callers whose reference on the entry of key k is counted.
Users(k) == {c \in Caller : key[c] = k /\
               pc[c] \in {"unlock_k", "lock_m", "held", "relock_k", "uncount"}}

\* Two callers never hold the lock of one key, whatever mutex objects they
\* hold it through: an entry dropped while someone waits on its object would
\* give the next caller a second object for the same key (keyedmutex.go:9-10).
MutualExclusion ==
    \A c, d \in Caller : pc[c] = "held" /\ pc[d] = "held" /\ c # d => key[c] # key[d]

\* The map does not grow without bound (keyedmutex.go:10-11): whenever k.mu is
\* free, exactly the keys in use have an entry, and its count is the number of users.
OnlyKeysInUse ==
    guard = NoCaller =>
      \A k \in Key : /\ locks[k] = NoMutex <=> Users(k) = {}
                     /\ locks[k] # NoMutex => refs[locks[k]] = Cardinality(Users(k))

\* The map implements one lock per key: a caller wants its key from the call of
\* lock until the per-key mutex is released, and holds it in between.
KL == INSTANCE KeyLock WITH
        wants <- [c \in Caller |->
                    IF pc[c] \in {"idle", "relock_k", "uncount", "drop", "reunlock_k"}
                      THEN NoKey ELSE key[c]],
        holds <- [c \in Caller |-> IF pc[c] = "held" THEN key[c] ELSE NoKey]

\* Refinement, with liveness: every caller that asks for a key gets it, as long
\* as holders give their keys back (keyedmutex.go:26-47).
OneLockPerKey == KL!Spec
=============================================================================

-------------------------- MODULE KeyedMutexProofs --------------------------
(***************************************************************************)
(* Proofs about KeyedMutex for every set of goroutines, keys and objects:  *)
(* its types, one holder per key, a map that holds the keys in use and no  *)
(* other, and that it implements KeyLock step by step.                     *)
(***************************************************************************)
EXTENDS KeyedMutex, FiniteSetTheorems, TLAPS

\* Between LockMap and UnlockMap.
InGuard(c) == pc[c] \in {"lookup", "create", "count", "unlock_k",
                         "uncount", "drop", "reunlock_k"}

\* m is the entry of the caller's key, counted or about to be, or about to go.
Attached(c) == pc[c] \in {"count", "unlock_k", "lock_m", "held", "relock_k",
                          "uncount", "drop"}

GuardHeld == \A c \in Caller : InGuard(c) => guard = c

KeyKnown == \A c \in Caller : pc[c] # "idle" => key[c] \in Key

EntryIsMine == \A c \in Caller :
                 Attached(c) => mine[c] \in Mutex /\ locks[key[c]] = mine[c]

NoEntryAtCreate == \A c \in Caller : pc[c] = "create" => locks[key[c]] = NoMutex

OneKeyPerObject == \A j, k \in Key : locks[j] = locks[k] /\ locks[j] # NoMutex => j = k

HolderOwns == \A c \in Caller : pc[c] = "held" => owner[mine[c]] = c

RefsCountUsers == \A k \in Key :
                    locks[k] # NoMutex => refs[locks[k]] = Cardinality(Users(k))

EntryHasAReason == \A k \in Key : locks[k] # NoMutex =>
                     \/ Users(k) # {}
                     \/ \E c \in Caller : key[c] = k /\ pc[c] \in {"count", "drop"}

DropsUnused == \A c \in Caller : pc[c] = "drop" => Users(key[c]) = {}

IInv == /\ TypeOK /\ GuardHeld /\ KeyKnown /\ EntryIsMine /\ NoEntryAtCreate
        /\ OneKeyPerObject /\ HolderOwns /\ RefsCountUsers /\ EntryHasAReason
        /\ DropsUnused

-----------------------------------------------------------------------------
\* Users is a finite set, and it grows and shrinks by the caller that counts
\* itself in or out (m.refs++ and m.refs--).
LEMMA UsersFinite == \A k \in Key : IsFiniteSet(Users(k))
<1>1. \A k \in Key : Users(k) \in SUBSET Caller
  BY DEF Users
<1>2. QED
  BY <1>1, CallerIsFinite, FS_Subset

LEMMA InitInv == Init => IInv
<1> SUFFICES ASSUME Init PROVE IInv
  OBVIOUS
<1> USE NullsAreNew DEF Init
<1>1. TypeOK
  BY DEF TypeOK, Statement
<1>2. GuardHeld /\ KeyKnown /\ EntryIsMine /\ NoEntryAtCreate /\ HolderOwns /\ DropsUnused
  BY DEF GuardHeld, InGuard, KeyKnown, EntryIsMine, Attached, NoEntryAtCreate,
         HolderOwns, DropsUnused
<1>3. OneKeyPerObject /\ RefsCountUsers /\ EntryHasAReason
  BY DEF OneKeyPerObject, RefsCountUsers, EntryHasAReason
<1>4. QED
  BY <1>1, <1>2, <1>3 DEF IInv

-----------------------------------------------------------------------------
\* Each statement preserves the invariant.  Only the conjuncts a statement can
\* disturb need more than the frame: the entry count for Count and Uncount, the
\* map for Create and Drop, the owner for Acquire and Release.

LEMMA CallInv == ASSUME IInv, NEW c \in Caller, NEW k \in Key, Call(c, k)
                 PROVE  IInv'
<1> USE DEF Call, Goto, IInv, TypeOK, Statement
<1>1. TypeOK'
  OBVIOUS
<1>2. \A j \in Key : Users(j)' = Users(j)
  BY DEF Users
<1>3. GuardHeld' /\ KeyKnown' /\ EntryIsMine' /\ NoEntryAtCreate' /\ HolderOwns'
  BY DEF GuardHeld, InGuard, KeyKnown, EntryIsMine, Attached, NoEntryAtCreate, HolderOwns
<1>4. OneKeyPerObject' /\ RefsCountUsers'
  BY <1>2 DEF OneKeyPerObject, RefsCountUsers
<1>5. EntryHasAReason'
  BY <1>2 DEF EntryHasAReason
<1>6. DropsUnused'
  BY <1>2 DEF DropsUnused, KeyKnown
<1>7. QED
  BY <1>1, <1>3, <1>4, <1>5, <1>6

LEMMA LockMapInv ==
    ASSUME IInv, NEW c \in Caller, NEW from, NEW to, LockMap(c, from, to),
           <<from, to>> \in {<<"lock_k", "lookup">>, <<"relock_k", "uncount">>}
    PROVE  IInv'
<1> USE DEF LockMap, Goto, IInv, TypeOK, Statement
<1>1. TypeOK'
  OBVIOUS
<1>2. \A j \in Key : Users(j)' = Users(j)
  BY DEF Users
<1>3. GuardHeld' 
  BY NullsAreNew DEF GuardHeld, InGuard
<1>4. KeyKnown' /\ EntryIsMine' /\ NoEntryAtCreate' /\ HolderOwns'
  BY DEF KeyKnown, EntryIsMine, Attached, NoEntryAtCreate, HolderOwns
<1>5. OneKeyPerObject' /\ RefsCountUsers'
  BY <1>2 DEF OneKeyPerObject, RefsCountUsers
<1>6. EntryHasAReason'
  BY <1>2 DEF EntryHasAReason
<1>7. DropsUnused'
  BY <1>2 DEF DropsUnused, KeyKnown
<1>8. QED
  BY <1>1, <1>3, <1>4, <1>5, <1>6, <1>7

LEMMA LookupInv == ASSUME IInv, NEW c \in Caller, Lookup(c) PROVE IInv'
<1> USE DEF Lookup, Goto, IInv, TypeOK, Statement
<1>0. key[c] \in Key
  BY DEF KeyKnown
<1>1. TypeOK'
  BY <1>0
<1>2. \A j \in Key : Users(j)' = Users(j)
  BY DEF Users
<1>3. GuardHeld' /\ KeyKnown'
  BY DEF GuardHeld, InGuard, KeyKnown
<1>4. EntryIsMine' /\ NoEntryAtCreate' /\ HolderOwns'
  BY <1>0 DEF EntryIsMine, Attached, NoEntryAtCreate, HolderOwns
<1>5. OneKeyPerObject' /\ RefsCountUsers'
  BY <1>2 DEF OneKeyPerObject, RefsCountUsers
<1>6. EntryHasAReason'
  BY <1>2 DEF EntryHasAReason
<1>7. DropsUnused'
  BY <1>2 DEF DropsUnused, KeyKnown
<1>8. QED
  BY <1>1, <1>3, <1>4, <1>5, <1>6, <1>7

LEMMA CreateInv == ASSUME IInv, NEW c \in Caller, Create(c) PROVE IInv'
<1> USE DEF Goto, IInv, TypeOK, Statement
<1>0. /\ key[c] \in Key
      /\ locks[key[c]] = NoMutex
      /\ pc[c] = "create"
  BY DEF Create, KeyKnown, NoEntryAtCreate
<1> PICK m \in Mutex : /\ Unreachable(m)
                       /\ mine' = [mine EXCEPT ![c] = m]
                       /\ locks' = [locks EXCEPT ![key[c]] = m]
                       /\ refs' = [refs EXCEPT ![m] = 0]
                       /\ owner' = [owner EXCEPT ![m] = NoCaller]
  BY DEF Create
<1>1. UNCHANGED <<guard, key>> /\ pc' = [pc EXCEPT ![c] = "count"]
  BY DEF Create
<1>2. TypeOK'
  BY <1>0, <1>1
<1>3. \A j \in Key : Users(j)' = Users(j)
  BY <1>0, <1>1 DEF Users
<1>4. GuardHeld' /\ KeyKnown'
  BY <1>0, <1>1 DEF GuardHeld, InGuard, KeyKnown
<1>5. \A d \in Caller : Attached(d) => key[d] # key[c]
  BY <1>0, NullsAreNew DEF EntryIsMine
<1>6. Users(key[c]) = {}
  BY <1>5 DEF Users, Attached
<1>7. EntryIsMine'
  BY <1>0, <1>1, <1>5 DEF EntryIsMine, Attached, KeyKnown
<1>8. NoEntryAtCreate'
  BY <1>0, <1>1 DEF NoEntryAtCreate, GuardHeld, InGuard, KeyKnown
<1>9. OneKeyPerObject'
  BY <1>0 DEF OneKeyPerObject, Unreachable
<1>10. HolderOwns'
  BY <1>0, <1>1 DEF HolderOwns, Unreachable
<1>11. RefsCountUsers'
  BY <1>0, <1>3, <1>6, FS_EmptySet DEF RefsCountUsers, Unreachable
<1>12. EntryHasAReason'
  BY <1>0, <1>1, <1>3 DEF EntryHasAReason
<1>13. DropsUnused'
  BY <1>0, <1>1, <1>3 DEF DropsUnused, KeyKnown
<1>14. QED
  BY <1>2, <1>4, <1>7, <1>8, <1>9, <1>10, <1>11, <1>12, <1>13

LEMMA CountInv == ASSUME IInv, NEW c \in Caller, Count(c) PROVE IInv'
<1> USE DEF Count, Goto, IInv, TypeOK, Statement
<1>0. /\ key[c] \in Key
      /\ mine[c] \in Mutex
      /\ locks[key[c]] = mine[c]
  BY DEF KeyKnown, EntryIsMine, Attached
<1>1. TypeOK'
  BY <1>0
<1>2. \A j \in Key : Users(j)' = IF j = key[c] THEN Users(j) \cup {c} ELSE Users(j)
  BY <1>0 DEF Users
<1>3. c \notin Users(key[c])
  BY DEF Users
<1>4. GuardHeld' /\ KeyKnown'
  BY DEF GuardHeld, InGuard, KeyKnown
<1>5. EntryIsMine' /\ NoEntryAtCreate' /\ HolderOwns'
  BY DEF EntryIsMine, Attached, NoEntryAtCreate, HolderOwns
<1>6. OneKeyPerObject'
  BY DEF OneKeyPerObject
<1>7. Cardinality(Users(key[c])') = Cardinality(Users(key[c])) + 1
  BY <1>0, <1>2, <1>3, UsersFinite, FS_AddElement
<1>8. RefsCountUsers'
  BY <1>0, <1>2, <1>7, NullsAreNew DEF RefsCountUsers, OneKeyPerObject
<1>9. EntryHasAReason'
  <2> SUFFICES ASSUME NEW j \in Key, locks[j] # NoMutex
               PROVE  \/ Users(j)' # {}
                      \/ \E d \in Caller : key[d] = j /\ pc'[d] \in {"count", "drop"}
    BY DEF EntryHasAReason
  <2>1. CASE j = key[c]
    BY <2>1, <1>2
  <2>2. CASE j # key[c]
    BY <2>2, <1>2 DEF EntryHasAReason
  <2>3. QED
    BY <2>1, <2>2
<1>10. DropsUnused'
  BY <1>0, <1>2 DEF DropsUnused, GuardHeld, InGuard, KeyKnown
<1>11. QED
  BY <1>1, <1>4, <1>5, <1>6, <1>8, <1>9, <1>10

LEMMA EnterInv == ASSUME IInv, NEW c \in Caller, Enter(c) PROVE IInv'
<1> USE DEF Enter, UnlockMap, Goto, IInv, TypeOK, Statement
<1>1. TypeOK'
  OBVIOUS
<1>2. \A j \in Key : Users(j)' = Users(j)
  BY DEF Users
<1>3. GuardHeld'
  BY DEF GuardHeld, InGuard
<1>4. KeyKnown' /\ EntryIsMine' /\ NoEntryAtCreate' /\ HolderOwns'
  BY DEF KeyKnown, EntryIsMine, Attached, NoEntryAtCreate, HolderOwns
<1>5. OneKeyPerObject' /\ RefsCountUsers'
  BY <1>2 DEF OneKeyPerObject, RefsCountUsers
<1>6. EntryHasAReason'
  BY <1>2 DEF EntryHasAReason
<1>7. DropsUnused'
  BY <1>2 DEF DropsUnused, KeyKnown
<1>8. QED
  BY <1>1, <1>3, <1>4, <1>5, <1>6, <1>7

LEMMA AcquireInv == ASSUME IInv, NEW c \in Caller, Acquire(c) PROVE IInv'
<1> USE DEF Acquire, Goto, IInv, TypeOK, Statement
<1>0. mine[c] \in Mutex
  BY DEF EntryIsMine, Attached
<1>1. TypeOK'
  BY <1>0
<1>2. \A j \in Key : Users(j)' = Users(j)
  BY DEF Users
<1>3. GuardHeld' /\ KeyKnown' /\ EntryIsMine' /\ NoEntryAtCreate'
  BY DEF GuardHeld, InGuard, KeyKnown, EntryIsMine, Attached, NoEntryAtCreate
<1>4. HolderOwns'
  BY <1>0, NullsAreNew DEF HolderOwns
<1>5. OneKeyPerObject' /\ RefsCountUsers'
  BY <1>2 DEF OneKeyPerObject, RefsCountUsers
<1>6. EntryHasAReason'
  BY <1>2 DEF EntryHasAReason
<1>7. DropsUnused'
  BY <1>2 DEF DropsUnused, KeyKnown
<1>8. QED
  BY <1>1, <1>3, <1>4, <1>5, <1>6, <1>7

\* The holder's object is its own: releasing it takes no lock from another holder.
LEMMA ReleaseInv == ASSUME IInv, NEW c \in Caller, Release(c) PROVE IInv'
<1> USE DEF Release, Goto, IInv, TypeOK, Statement
<1>0. mine[c] \in Mutex /\ owner[mine[c]] = c
  BY DEF EntryIsMine, Attached, HolderOwns
<1>1. TypeOK'
  BY <1>0
<1>2. \A j \in Key : Users(j)' = Users(j)
  BY DEF Users
<1>3. GuardHeld' /\ KeyKnown' /\ EntryIsMine' /\ NoEntryAtCreate'
  BY DEF GuardHeld, InGuard, KeyKnown, EntryIsMine, Attached, NoEntryAtCreate
<1>4. HolderOwns'
  BY <1>0 DEF HolderOwns
<1>5. OneKeyPerObject' /\ RefsCountUsers'
  BY <1>2 DEF OneKeyPerObject, RefsCountUsers
<1>6. EntryHasAReason'
  BY <1>2 DEF EntryHasAReason
<1>7. DropsUnused'
  BY <1>2 DEF DropsUnused, KeyKnown
<1>8. QED
  BY <1>1, <1>3, <1>4, <1>5, <1>6, <1>7

LEMMA UncountInv == ASSUME IInv, NEW c \in Caller, Uncount(c) PROVE IInv'
<1> USE DEF Uncount, Goto, IInv, TypeOK, Statement
<1>0. /\ key[c] \in Key
      /\ mine[c] \in Mutex
      /\ locks[key[c]] = mine[c]
  BY DEF KeyKnown, EntryIsMine, Attached
<1>1. c \in Users(key[c])
  BY DEF Users
<1>2. \A j \in Key : Users(j)' = IF j = key[c] THEN Users(j) \ {c} ELSE Users(j)
  BY <1>0 DEF Users
<1>3. /\ refs[mine[c]] = Cardinality(Users(key[c]))
      /\ Cardinality(Users(key[c])) \in Nat
      /\ Cardinality(Users(key[c])) # 0
      /\ Cardinality(Users(key[c])') = Cardinality(Users(key[c])) - 1
      /\ IsFiniteSet(Users(key[c])')
  <2>1. refs[mine[c]] = Cardinality(Users(key[c]))
    BY <1>0, NullsAreNew DEF RefsCountUsers
  <2>2. IsFiniteSet(Users(key[c]))
    BY <1>0, UsersFinite
  <2>3. Users(key[c])' = Users(key[c]) \ {c}
    BY <1>0, <1>2
  <2>4. QED
    BY <1>1, <2>1, <2>2, <2>3, FS_CardinalityType, FS_EmptySet, FS_RemoveElement
<1>4. TypeOK'
  BY <1>0, <1>3
<1>5. Users(key[c])' = {} <=> refs[mine[c]] = 1
  BY <1>3, FS_EmptySet
<1>6. GuardHeld' /\ KeyKnown'
  BY DEF GuardHeld, InGuard, KeyKnown
<1>7. EntryIsMine' /\ NoEntryAtCreate' /\ HolderOwns'
  BY DEF EntryIsMine, Attached, NoEntryAtCreate, HolderOwns
<1>8. OneKeyPerObject'
  BY DEF OneKeyPerObject
<1>9. RefsCountUsers'
  BY <1>0, <1>2, <1>3, NullsAreNew DEF RefsCountUsers, OneKeyPerObject
<1>10. EntryHasAReason'
  BY <1>0, <1>2, <1>5 DEF EntryHasAReason
<1>11. DropsUnused'
  BY <1>0, <1>2, <1>5 DEF DropsUnused, GuardHeld, InGuard, KeyKnown
<1>12. QED
  BY <1>4, <1>6, <1>7, <1>8, <1>9, <1>10, <1>11

LEMMA DropInv == ASSUME IInv, NEW c \in Caller, Drop(c) PROVE IInv'
<1> USE DEF Drop, Goto, IInv, TypeOK, Statement
<1>0. key[c] \in Key
  BY DEF KeyKnown
<1>1. TypeOK'
  BY <1>0
<1>2. \A j \in Key : Users(j)' = Users(j)
  BY DEF Users
<1>3. \A d \in Caller : Attached(d) /\ d # c => key[d] # key[c]
  <2> SUFFICES ASSUME NEW d \in Caller, Attached(d), d # c, key[d] = key[c]
               PROVE  FALSE
    OBVIOUS
  <2>1. d \notin Users(key[c])
    BY DEF DropsUnused
  <2>2. pc[d] \in {"count", "drop"}
    BY <2>1 DEF Users, Attached
  <2>3. QED
    BY <2>2 DEF GuardHeld, InGuard
<1>4. GuardHeld' /\ KeyKnown'
  BY DEF GuardHeld, InGuard, KeyKnown
<1>5. EntryIsMine'
  BY <1>0, <1>3 DEF EntryIsMine, Attached, KeyKnown
<1>6. NoEntryAtCreate' /\ HolderOwns'
  BY DEF NoEntryAtCreate, HolderOwns, KeyKnown
<1>7. OneKeyPerObject'
  BY <1>0 DEF OneKeyPerObject
<1>8. RefsCountUsers'
  BY <1>0, <1>2 DEF RefsCountUsers
<1>9. EntryHasAReason'
  BY <1>0, <1>2 DEF EntryHasAReason
<1>10. DropsUnused'
  BY <1>2 DEF DropsUnused, KeyKnown
<1>11. QED
  BY <1>1, <1>4, <1>5, <1>6, <1>7, <1>8, <1>9, <1>10

LEMMA LeaveInv == ASSUME IInv, NEW c \in Caller, Leave(c) PROVE IInv'
<1> USE DEF Leave, UnlockMap, Goto, IInv, TypeOK, Statement
<1>1. TypeOK'
  OBVIOUS
<1>2. \A j \in Key : Users(j)' = Users(j)
  BY DEF Users
<1>3. GuardHeld'
  BY DEF GuardHeld, InGuard
<1>4. KeyKnown' /\ EntryIsMine' /\ NoEntryAtCreate' /\ HolderOwns'
  BY DEF KeyKnown, EntryIsMine, Attached, NoEntryAtCreate, HolderOwns
<1>5. OneKeyPerObject' /\ RefsCountUsers'
  BY <1>2 DEF OneKeyPerObject, RefsCountUsers
<1>6. EntryHasAReason'
  BY <1>2 DEF EntryHasAReason
<1>7. DropsUnused'
  BY <1>2 DEF DropsUnused, KeyKnown
<1>8. QED
  BY <1>1, <1>3, <1>4, <1>5, <1>6, <1>7

LEMMA NextInv == IInv /\ [Next]_vars => IInv'
<1> SUFFICES ASSUME IInv, [Next]_vars PROVE IInv'
  OBVIOUS
<1>1. CASE UNCHANGED vars
  <2>1. \A j \in Key : Users(j)' = Users(j)
    BY <1>1 DEF vars, Users
  <2>2. TypeOK' /\ GuardHeld' /\ KeyKnown' /\ EntryIsMine' /\ NoEntryAtCreate' /\ HolderOwns'
    BY <1>1 DEF vars, IInv, TypeOK, GuardHeld, InGuard, KeyKnown, EntryIsMine, Attached,
                NoEntryAtCreate, HolderOwns
  <2>3. OneKeyPerObject' /\ RefsCountUsers' /\ EntryHasAReason'
    BY <1>1, <2>1 DEF vars, IInv, OneKeyPerObject, RefsCountUsers, EntryHasAReason
  <2>4. DropsUnused'
    BY <1>1, <2>1 DEF vars, IInv, DropsUnused, KeyKnown
  <2>5. QED
    BY <2>2, <2>3, <2>4 DEF IInv
<1>2. ASSUME NEW c \in Caller, NEW k \in Key, Call(c, k) PROVE IInv'
  BY <1>2, CallInv
<1>3. ASSUME NEW c \in Caller, Lock(c) PROVE IInv'
  BY <1>3, LockMapInv, LookupInv, CreateInv, CountInv, EnterInv, AcquireInv DEF Lock
<1>4. ASSUME NEW c \in Caller, Unlock(c) PROVE IInv'
  BY <1>4, LockMapInv, ReleaseInv, UncountInv, DropInv, LeaveInv DEF Unlock
<1>5. QED
  BY <1>1, <1>2, <1>3, <1>4 DEF Next

LEMMA Invariance == Spec => []IInv
BY InitInv, NextInv, PTL DEF Spec

-----------------------------------------------------------------------------
\* The variables keep their types: in particular m.refs, decremented by every
\* unlock, never goes below zero (keyedmutex.go:41).
THEOREM TypeCorrect == Spec => []TypeOK
<1>1. IInv => TypeOK
  BY DEF IInv
<1>2. QED
  BY <1>1, Invariance, PTL

LEMMA InvExcludes == IInv => MutualExclusion
<1> SUFFICES ASSUME IInv, NEW c \in Caller, NEW d \in Caller,
                    pc[c] = "held", pc[d] = "held", key[c] = key[d]
             PROVE  c = d
  BY DEF MutualExclusion
<1>1. mine[c] = mine[d]
  BY DEF IInv, EntryIsMine, Attached
<1>2. QED
  BY <1>1 DEF IInv, HolderOwns

\* However many goroutines ask for however many keys, one holds each key
\* (keyedmutex.go:27-38).
THEOREM Exclusion == Spec => []MutualExclusion
BY Invariance, InvExcludes, PTL

\* The map holds an entry for the keys in use and for no other, and the count in
\* an entry is the number of its users (keyedmutex.go:40-44).
THEOREM NoIdleEntry == Spec => []OnlyKeysInUse
<1>1. IInv => OnlyKeysInUse
  <2> SUFFICES ASSUME IInv, guard = NoCaller, NEW k \in Key
               PROVE  /\ locks[k] = NoMutex <=> Users(k) = {}
                      /\ locks[k] # NoMutex => refs[locks[k]] = Cardinality(Users(k))
    BY DEF OnlyKeysInUse
  <2>1. \A c \in Caller : pc[c] \notin {"count", "drop"}
    BY NullsAreNew DEF IInv, GuardHeld, InGuard
  <2>2. Users(k) # {} => locks[k] # NoMutex
    BY NullsAreNew DEF IInv, Users, EntryIsMine, Attached
  <2>3. QED
    BY <2>1, <2>2 DEF IInv, EntryHasAReason, RefsCountUsers
<1>2. QED
  BY <1>1, Invariance, PTL

-----------------------------------------------------------------------------
\* The refinement mapping of KL, named.
Wants == [c \in Caller |->
            IF pc[c] \in {"idle", "relock_k", "uncount", "drop", "reunlock_k"}
              THEN NoKey ELSE key[c]]
Holds == [c \in Caller |-> IF pc[c] = "held" THEN key[c] ELSE NoKey]

LEMMA StepRefines == IInv /\ [Next]_vars => [KL!Next]_(KL!vars)
<1> SUFFICES ASSUME IInv, [Next]_vars PROVE KL!Next \/ UNCHANGED <<Wants, Holds>>
  BY DEF KL!vars, Wants, Holds
<1> USE DEF IInv, TypeOK, Statement, Goto
<1>1. CASE UNCHANGED vars
  BY <1>1 DEF vars, Wants, Holds
<1>2. ASSUME NEW c \in Caller, NEW k \in Key, Call(c, k) PROVE KL!Ask(c, k)
  BY <1>2 DEF Call, KL!Ask
<1>3. ASSUME NEW c \in Caller, Acquire(c) PROVE KL!Grant(c)
  <2>1. key[c] \in Key /\ key[c] # NoKey
    BY <1>3, NullsAreNew DEF Acquire, KeyKnown
  <2>2. \A d \in Caller : pc[d] = "held" => key[d] # key[c]
    BY <1>3, NullsAreNew DEF Acquire, EntryIsMine, Attached, HolderOwns
  <2>3. \A d \in Caller : Holds[d] # key[c]
    BY <2>1, <2>2 DEF Holds
  <2>4. Wants[c] = key[c] /\ Holds[c] = NoKey
    BY <1>3 DEF Acquire, Wants, Holds
  <2>5. Holds' = [Holds EXCEPT ![c] = Wants[c]] /\ Wants' = Wants
    BY <1>3 DEF Acquire, Wants, Holds
  <2>6. QED
    BY <2>1, <2>3, <2>4, <2>5 DEF KL!Grant, Wants, Holds
<1>4. ASSUME NEW c \in Caller, Release(c) PROVE KL!Free(c)
  <2>1. Holds[c] # NoKey
    BY <1>4, NullsAreNew DEF Release, KeyKnown, Holds
  <2>2. Holds' = [Holds EXCEPT ![c] = NoKey] /\ Wants' = [Wants EXCEPT ![c] = NoKey]
    BY <1>4 DEF Release, Wants, Holds
  <2>3. QED
    BY <2>1, <2>2 DEF KL!Free, Wants, Holds
<1>5. ASSUME NEW c \in Caller, Lock(c), ~Acquire(c) PROVE UNCHANGED <<Wants, Holds>>
  BY <1>5 DEF Lock, LockMap, Lookup, Create, Count, Enter, UnlockMap, Wants, Holds
<1>6. ASSUME NEW c \in Caller, Unlock(c), ~Release(c) PROVE UNCHANGED <<Wants, Holds>>
  BY <1>6 DEF Unlock, LockMap, Uncount, Drop, Leave, UnlockMap, Wants, Holds
<1>7. QED
  BY <1>1, <1>2, <1>3, <1>4, <1>5, <1>6 DEF Next, KL!Next, Lock, Unlock

\* keyedMutex implements one lock per key: every step of the map and its objects is
\* a step of KeyLock or leaves what its callers see as it was (keyedmutex.go:26-47).
\* Its liveness is model-checked only.
THEOREM Refinement == Spec => KL!Init /\ [][KL!Next]_(KL!vars)
<1>1. Init => KL!Init
  BY DEF Init, KL!Init
<1>2. QED
  BY <1>1, Invariance, StepRefines, PTL DEF Spec

=============================================================================

------------------------------- MODULE KeyLock -------------------------------
(***************************************************************************)
(* What service/keyedmutex.go promises its callers: one lock per key.      *)
(* A caller asks for a key, waits while another caller holds that key and  *)
(* no longer, works, and gives the key back.  Nothing here says how the    *)
(* per-key locks are stored; module KeyedMutex does, and implements this.  *)
(***************************************************************************)
CONSTANTS Caller,   \* goroutines that call keyedMutex.lock
          Key,      \* token row ids
          NoKey     \* no key: not in Key

VARIABLES wants,    \* [Caller -> Key or NoKey]: the key a caller has asked for
          holds     \* [Caller -> Key or NoKey]: the key a caller has the lock of

vars == <<wants, holds>>

Init == /\ wants = [c \in Caller |-> NoKey]
        /\ holds = [c \in Caller |-> NoKey]

Ask(c, k) == /\ wants[c] = NoKey
             /\ wants' = [wants EXCEPT ![c] = k]
             /\ UNCHANGED holds

Grant(c) == /\ wants[c] # NoKey
            /\ holds[c] = NoKey
            /\ \A d \in Caller : holds[d] # wants[c]
            /\ holds' = [holds EXCEPT ![c] = wants[c]]
            /\ UNCHANGED wants

Free(c) == /\ holds[c] # NoKey
           /\ wants' = [wants EXCEPT ![c] = NoKey]
           /\ holds' = [holds EXCEPT ![c] = NoKey]

Next == \E c \in Caller : (\E k \in Key : Ask(c, k)) \/ Grant(c) \/ Free(c)

\* A holder gives the key back, and a caller that keeps finding its key free
\* is served in the end.
Fairness == \A c \in Caller : WF_vars(Free(c)) /\ SF_vars(Grant(c))

Spec == Init /\ [][Next]_vars /\ Fairness
=============================================================================

-------------------------- MODULE AuditPipelineProofs --------------------------
(***************************************************************************)
(* The audit pipeline for any handlers, events, capacity, batch size and   *)
(* faults: its memory is bounded, its rows are in order and inserted once, *)
(* and it takes the steps of the ledger.                                   *)
(***************************************************************************)
EXTENDS AuditPipeline, SequenceTheorems, FiniteSetTheorems, TLAPS

Persisting == {"call", "inflight", "backoff"}

\* x was emitted before y by the same handler, or by another one.
Before(x, y) == x[1] = y[1] => x[2] < y[2]
Precede(S, T) == \A x \in S, y \in T : Before(x, y)

\* The events of a sequence are in the order of their emission.
Ordered(s) == \A i, j \in DOMAIN s : i < j => Before(s[i], s[j])

\* What the writer holds, and on which context.
Holding ==
    /\ wpc \in {"select", "drain"} => wctx = "run" /\ attempt = 0
    /\ wpc \in Persisting => batch # <<>> /\ attempt > 0
    /\ wpc = "backoff" => attempt < MaxAttempts
    /\ wpc = "done" => wctx = "drain"
    /\ wctx = "drain" => closed
    /\ wpc = "drain" => cancelled

\* A batch has room for one more, and at the end for the channel.
Room ==
    /\ Len(ch) <= Capacity
    /\ wpc = "select" => Len(batch) < BatchSize
    /\ wpc \in Persisting /\ wctx = "run" => Len(batch) <= BatchSize
    /\ wpc = "drain" => Len(batch) + Len(ch) < BatchSize + Capacity
    /\ wpc \in Persisting /\ wctx = "drain" =>
         \/ Len(batch) < BatchSize
         \/ cancelled /\ Len(batch) < BatchSize + Capacity
    /\ wpc = "done" => batch = <<>>

\* Nothing is anywhere before it has been emitted.
Past == \A e \in Elems(stored) \cup logged \cup dropped \cup late \cup Elems(batch) \cup Elems(ch) :
          e[2] <= sent[e[1]]

\* Events move on in the order they were emitted.  Only a batch whose answer was lost is in
\* the table and in the writer's hand, and then all of it.
InLine ==
    /\ Ordered(batch) /\ Ordered(ch)
    /\ Precede(Elems(batch), Elems(ch))
    /\ Precede(Elems(stored) \cup logged, Elems(ch))
    /\ Precede(logged, Elems(batch))
    /\ \A x \in Elems(stored), y \in Elems(batch) :
         Before(x, y) \/ (wpc \in Persisting /\ {x, y} \subseteq doubt)
    /\ \/ Elems(batch) \cap Elems(stored) = {}
       \/ Elems(batch) \subseteq Elems(stored)
    /\ (dropped \cup late) \cap (Elems(stored) \cup logged \cup Elems(batch) \cup Elems(ch)) = {}
    /\ dropped \cap late = {}

\* What StoredOnce and InOrder say, without counting.
Once == /\ \A i, j \in DOMAIN stored : stored[i] = stored[j] /\ i # j => stored[i] \in doubt
        /\ logged \cap Elems(stored) \subseteq doubt
        /\ InOrder

PipeInv == TypeOK /\ Holding /\ Room /\ Past /\ InLine /\ Once

-----------------------------------------------------------------------------
(* Sequences and what is in them. *)

LEMMA EmptyElems == Elems(<<>>) = {} /\ Ordered(<<>>)
  BY DEF Elems, Ordered

LEMMA AppendElems ==
  ASSUME NEW S, NEW s \in Seq(S), NEW e \in S
  PROVE  /\ Append(s, e) \in Seq(S) /\ Len(Append(s, e)) = Len(s) + 1
         /\ Elems(Append(s, e)) = Elems(s) \cup {e}
         /\ Ordered(s) /\ Precede(Elems(s), {e}) => Ordered(Append(s, e))
<1> DEFINE t == Append(s, e)
<1>1. /\ t \in Seq(S) /\ Len(t) = Len(s) + 1 /\ Len(s) \in Nat
      /\ \A i \in 1 .. Len(s) : t[i] = s[i]
      /\ t[Len(s) + 1] = e
      /\ DOMAIN s = 1 .. Len(s) /\ DOMAIN t = 1 .. (Len(s) + 1)
  BY AppendProperties, LenProperties
<1> HIDE DEF t
<1>2. Elems(t) = Elems(s) \cup {e}
  BY <1>1 DEF Elems
<1>3. ASSUME Ordered(s), Precede(Elems(s), {e}) PROVE Ordered(t)
  <2> SUFFICES ASSUME NEW i \in DOMAIN t, NEW j \in DOMAIN t, i < j PROVE Before(t[i], t[j])
    BY DEF Ordered
  <2>1. i \in DOMAIN s /\ t[i] = s[i] /\ s[i] \in Elems(s)
    BY <1>1 DEF Elems
  <2>2. CASE j \in DOMAIN s
    BY <1>1, <1>3, <2>1, <2>2 DEF Ordered
  <2>3. CASE j = Len(s) + 1
    BY <1>1, <1>3, <2>1, <2>3 DEF Precede
  <2> QED BY <1>1, <2>2, <2>3
<1> QED BY <1>1, <1>2, <1>3 DEF t

LEMMA HeadTailElems ==
  ASSUME NEW S, NEW s \in Seq(S), s # <<>>
  PROVE  /\ Head(s) \in S /\ Tail(s) \in Seq(S) /\ Len(Tail(s)) = Len(s) - 1 /\ Len(s) > 0
         /\ Elems(s) = {Head(s)} \cup Elems(Tail(s))
         /\ Ordered(s) => Ordered(Tail(s)) /\ Precede({Head(s)}, Elems(Tail(s)))
<1> DEFINE t == Tail(s)
           h == Head(s)
<1>1. /\ h \in S /\ t \in Seq(S) /\ Len(t) = Len(s) - 1 /\ Len(s) \in Nat /\ Len(s) > 0
      /\ h = s[1]
      /\ \A i \in 1 .. Len(s) - 1 : t[i] = s[i + 1]
      /\ DOMAIN s = 1 .. Len(s) /\ DOMAIN t = 1 .. (Len(s) - 1)
  BY HeadTailProperties, LenProperties, EmptySeq
<1> HIDE DEF t, h
<1>2. Elems(s) = {h} \cup Elems(t)
  <2>1. ASSUME NEW x \in Elems(s) PROVE x = h \/ x \in Elems(t)
    <3>1. PICK i \in 1 .. Len(s) : x = s[i]
      BY <1>1 DEF Elems
    <3>2. CASE i = 1
      BY <3>1, <3>2, <1>1
    <3>3. CASE i > 1
      <4>1. i - 1 \in DOMAIN t /\ t[i - 1] = x
        BY <3>1, <3>3, <1>1
      <4> QED BY <4>1 DEF Elems
    <3> QED BY <3>1, <3>2, <3>3, <1>1
  <2>2. Elems(t) \subseteq Elems(s) /\ h \in Elems(s)
    <3>1. \A i \in DOMAIN t : t[i] = s[i + 1] /\ i + 1 \in DOMAIN s
      BY <1>1
    <3>2. 1 \in DOMAIN s
      BY <1>1
    <3> QED BY <1>1, <3>1, <3>2 DEF Elems
  <2> QED BY <2>1, <2>2
<1>3. ASSUME Ordered(s) PROVE Ordered(t) /\ Precede({h}, Elems(t))
  <2>1. \A i \in DOMAIN t : t[i] = s[i + 1] /\ i + 1 \in DOMAIN s /\ 1 < i + 1 /\ 1 \in DOMAIN s
    BY <1>1
  <2>2. \A i, j \in DOMAIN t : i < j => i + 1 < j + 1
    BY <1>1
  <2>3. Ordered(t)
    BY <1>3, <2>1, <2>2 DEF Ordered
  <2>4. Precede({h}, Elems(t))
    BY <1>1, <1>3, <2>1 DEF Ordered, Precede, Elems
  <2> QED BY <2>3, <2>4
<1> QED BY <1>1, <1>2, <1>3 DEF t, h

LEMMA ConcatElems ==
  ASSUME NEW S, NEW s \in Seq(S), NEW t \in Seq(S)
  PROVE  /\ s \o t \in Seq(S) /\ Elems(s \o t) = Elems(s) \cup Elems(t)
         /\ \A i \in DOMAIN (s \o t) :
              \/ i \in DOMAIN s /\ (s \o t)[i] = s[i]
              \/ i - Len(s) \in DOMAIN t /\ i > Len(s) /\ (s \o t)[i] = t[i - Len(s)]
<1> DEFINE u == s \o t
<1>1. /\ u \in Seq(S) /\ Len(u) = Len(s) + Len(t) /\ Len(s) \in Nat /\ Len(t) \in Nat
      /\ \A i \in 1 .. Len(s) + Len(t) : u[i] = IF i <= Len(s) THEN s[i] ELSE t[i - Len(s)]
      /\ DOMAIN s = 1 .. Len(s) /\ DOMAIN t = 1 .. Len(t) /\ DOMAIN u = 1 .. (Len(s) + Len(t))
  BY ConcatProperties, LenProperties
<1> HIDE DEF u
<1>2. ASSUME NEW i \in DOMAIN u
      PROVE  \/ i \in DOMAIN s /\ u[i] = s[i]
             \/ i - Len(s) \in DOMAIN t /\ i > Len(s) /\ u[i] = t[i - Len(s)]
  <2>1. i \in 1 .. Len(s) + Len(t) /\ u[i] = IF i <= Len(s) THEN s[i] ELSE t[i - Len(s)]
    BY <1>1
  <2>2. CASE i <= Len(s)
    BY <1>1, <2>1, <2>2
  <2>3. CASE i > Len(s)
    BY <1>1, <2>1, <2>3
  <2> QED BY <1>1, <2>1, <2>2, <2>3
<1>3. Elems(u) \subseteq Elems(s) \cup Elems(t)
  BY <1>2 DEF Elems
<1>4. Elems(s) \subseteq Elems(u)
  <2>1. \A i \in DOMAIN s : i \in DOMAIN u /\ u[i] = s[i]
    BY <1>1
  <2> QED BY <2>1 DEF Elems
<1>5. Elems(t) \subseteq Elems(u)
  <2>1. \A i \in DOMAIN t : i + Len(s) \in DOMAIN u /\ u[i + Len(s)] = t[i]
    BY <1>1
  <2> QED BY <2>1 DEF Elems
<1> QED BY <1>1, <1>2, <1>3, <1>4, <1>5 DEF u
\* Events, and what lies before what.
LEMMA EventParts ==
  /\ \A e \in Event : e[1] \in Handler /\ e[2] \in Nat /\ ~Before(e, e)
  /\ \A e, f \in Event : e[1] = f[1] /\ e[2] = f[2] => e = f
  BY BoundsAreNat DEF Event, Before

LEMMA ElemsAreEvents == ASSUME NEW s \in Seq(Event) PROVE Elems(s) \subseteq Event
  BY LenProperties DEF Elems

\* An ordered batch of events has none of them twice.
LEMMA OrderedOnce ==
  ASSUME NEW s \in Seq(Event), Ordered(s), NEW i \in DOMAIN s, NEW j \in DOMAIN s, i # j
  PROVE  s[i] # s[j]
<1>1. DOMAIN s = 1 .. Len(s) /\ Len(s) \in Nat /\ s[i] \in Event /\ s[j] \in Event
  BY LenProperties
<1>2. CASE i < j
  BY <1>1, <1>2, EventParts DEF Ordered
<1>3. CASE j < i
  BY <1>1, <1>3, EventParts DEF Ordered
<1> QED BY <1>1, <1>2, <1>3

\* Every place an event can be.
LEMMA PlacesAreEvents ==
  TypeOK => /\ Elems(ch) \subseteq Event /\ Elems(batch) \subseteq Event
            /\ Elems(stored) \subseteq Event /\ logged \subseteq Event
            /\ dropped \subseteq Event /\ late \subseteq Event
            /\ doubt \subseteq Event
  BY ElemsAreEvents DEF TypeOK

\* The batch, unless its answer was lost, is none of the rows; the log lines and the
\* channel have nothing of it.
LEMMA Apart ==
  ASSUME TypeOK, InLine
  PROVE  /\ Elems(batch) \cap logged = {} /\ Elems(batch) \cap Elems(ch) = {}
         /\ (Elems(stored) \cup logged) \cap Elems(ch) = {}
         /\ Elems(batch) \cap Elems(stored) \subseteq doubt
         /\ wpc \notin Persisting => Elems(batch) \cap Elems(stored) = {}
  BY PlacesAreEvents, EventParts DEF InLine, Precede

-----------------------------------------------------------------------------
(* What happens to the data, whichever action does it. *)

\* The head of the channel joins the batch.
LEMMA MoveKeeps ==
  ASSUME TypeOK, Past, InLine, Once, ch # <<>>, wpc \notin Persisting,
         ch' = Tail(ch), batch' = Append(batch, Head(ch)),
         UNCHANGED <<sent, dropped, late, stored, logged, doubt>>
  PROVE  /\ Past' /\ InLine' /\ Once'
         /\ ch' \in Seq(Event) /\ Len(ch') = Len(ch) - 1 /\ Len(ch) > 0
         /\ batch' \in Seq(Event) /\ Len(batch') = Len(batch) + 1
         /\ Elems(batch') \cup Elems(ch') = Elems(batch) \cup Elems(ch)
<1> DEFINE e == Head(ch)
<1>1. /\ ch \in Seq(Event) /\ batch \in Seq(Event) /\ stored \in Seq(Event)
  BY DEF TypeOK
<1>2. /\ e \in Event /\ ch' \in Seq(Event) /\ Len(ch') = Len(ch) - 1 /\ Len(ch) > 0
      /\ Elems(ch) = {e} \cup Elems(ch')
      /\ Ordered(ch') /\ Precede({e}, Elems(ch'))
  BY <1>1, HeadTailElems DEF InLine
<1>3. Precede(Elems(batch), {e})
  BY <1>2 DEF InLine, Precede
<1>4. /\ batch' \in Seq(Event) /\ Len(batch') = Len(batch) + 1
      /\ Elems(batch') = Elems(batch) \cup {e}
      /\ Ordered(batch')
  <2>1. Ordered(batch) /\ batch \in Seq(Event) /\ e \in Event
    BY <1>1, <1>2 DEF InLine
  <2> HIDE DEF e
  <2>2. /\ Append(batch, e) \in Seq(Event) /\ Len(Append(batch, e)) = Len(batch) + 1
        /\ Elems(Append(batch, e)) = Elems(batch) \cup {e}
        /\ Ordered(batch) /\ Precede(Elems(batch), {e}) => Ordered(Append(batch, e))
    BY <2>1, AppendElems, Zenon
  <2> QED BY <1>3, <2>1, <2>2 DEF e
<1> HIDE DEF e
<1>5. Past'
  BY <1>2, <1>4 DEF Past
<1>6. Elems(stored)' = Elems(stored)
  OBVIOUS
<1>7. Elems(batch') \cap Elems(stored) = {}
  BY <1>2, <1>4, Apart
<1>8. InLine'
  <2>1. Precede(Elems(batch'), Elems(ch'))
    BY <1>2, <1>4 DEF InLine, Precede
  <2>2. Precede(Elems(stored) \cup logged, Elems(ch')) /\ Precede(logged, Elems(batch'))
    BY <1>2, <1>4 DEF InLine, Precede
  <2>3. \A x \in Elems(stored), y \in Elems(batch') : Before(x, y)
    BY <1>2, <1>4 DEF InLine, Precede
  <2>4. (dropped \cup late) \cap (Elems(stored) \cup logged \cup Elems(batch') \cup Elems(ch')) = {}
    BY <1>2, <1>4 DEF InLine
  <2> QED BY <1>2, <1>4, <1>6, <1>7, <2>1, <2>2, <2>3, <2>4 DEF InLine
<1>9. Once'
  BY DEF Once, InOrder
<1> QED BY <1>2, <1>4, <1>5, <1>8, <1>9

\* The table as it is after an insertion whose answer is in doubt, or is not.
LEMMA InsertedOnce ==
  ASSUME TypeOK, InLine, Once, NEW d, doubt \subseteq d
  PROVE  LET t == stored \o batch IN
         /\ t \in Seq(Event) /\ Elems(t) = Elems(stored) \cup Elems(batch)
         /\ \A i, j \in DOMAIN t : t[i] = t[j] /\ i # j => t[i] \in d
         /\ \A i, j \in DOMAIN t :
              i < j /\ t[i][1] = t[j][1] /\ t[i][2] > t[j][2] => {t[i], t[j]} \subseteq d
<1> DEFINE t == stored \o batch
           n == Len(stored)
<1>1. ch \in Seq(Event) /\ batch \in Seq(Event) /\ stored \in Seq(Event) /\ n \in Nat
  BY LenProperties DEF TypeOK
<1>2. /\ t \in Seq(Event) /\ Elems(t) = Elems(stored) \cup Elems(batch)
      /\ \A i \in DOMAIN t : \/ i \in DOMAIN stored /\ t[i] = stored[i]
                             \/ i - n \in DOMAIN batch /\ i > n /\ t[i] = batch[i - n]
  BY <1>1, ConcatElems
<1>3. /\ \A i \in DOMAIN stored : i \in Nat /\ i <= n /\ stored[i] \in Elems(stored)
                                  /\ stored[i] \in Event
      /\ \A i \in DOMAIN batch : i \in Nat /\ batch[i] \in Elems(batch) /\ batch[i] \in Event
  BY <1>1, LenProperties DEF Elems
<1>4. \A i \in DOMAIN t : i \in Nat
  BY <1>2, LenProperties
<1>5. ASSUME NEW x \in Elems(stored), NEW y \in Elems(batch), ~Before(x, y)
      PROVE  {x, y} \subseteq d
  BY <1>5 DEF InLine
<1> HIDE DEF t, n
<1>6. ASSUME NEW i \in DOMAIN t, NEW j \in DOMAIN t, i < j,
             ~Before(t[i], t[j])
      PROVE  {t[i], t[j]} \subseteq d
  <2>1. CASE i \in DOMAIN stored /\ t[i] = stored[i] /\ j \in DOMAIN stored /\ t[j] = stored[j]
    <3>1. t[i] \in Event /\ t[j] \in Event /\ t[i][2] \in Nat /\ t[j][2] \in Nat
      BY <1>3, <2>1, EventParts
    <3>2. t[i][1] = t[j][1] /\ t[i][2] >= t[j][2]
      BY <1>6, <3>1 DEF Before
    <3>3. CASE t[i][2] = t[j][2]
      BY <1>6, <2>1, <3>1, <3>2, <3>3, <1>4, EventParts DEF Once
    <3>4. CASE t[i][2] > t[j][2]
      BY <1>6, <2>1, <3>2, <3>4 DEF Once, InOrder
    <3> QED BY <3>1, <3>2, <3>3, <3>4
  <2>2. CASE i \in DOMAIN stored /\ t[i] = stored[i] /\ j - n \in DOMAIN batch /\ t[j] = batch[j - n]
    BY <1>3, <1>5, <1>6, <2>2
  <2>3. CASE /\ i - n \in DOMAIN batch /\ t[i] = batch[i - n]
             /\ j - n \in DOMAIN batch /\ t[j] = batch[j - n]
    <3>1. i - n < j - n
      BY <1>1, <1>4, <1>6
    <3> QED BY <1>6, <2>3, <3>1 DEF InLine, Ordered
  <2>4. CASE i > n /\ j \in DOMAIN stored
    BY <1>1, <1>3, <1>4, <1>6, <2>4
  <2> QED BY <1>2, <2>1, <2>2, <2>3, <2>4
<1>7. \A i \in DOMAIN t : t[i] \in Event /\ t[i][2] \in Nat /\ ~Before(t[i], t[i])
  BY <1>2, <1>3, EventParts
<1>8. ASSUME NEW i \in DOMAIN t, NEW j \in DOMAIN t, t[i] = t[j], i # j
      PROVE  t[i] \in d
  <2>1. CASE i < j
    BY <1>6, <1>7, <1>8, <2>1
  <2>2. CASE j < i
    BY <1>6, <1>7, <1>8, <2>2
  <2> QED BY <1>4, <1>8, <2>1, <2>2
<1>9. ASSUME NEW i \in DOMAIN t, NEW j \in DOMAIN t,
             i < j, t[i][1] = t[j][1], t[i][2] > t[j][2]
      PROVE  {t[i], t[j]} \subseteq d
  BY <1>6, <1>7, <1>9 DEF Before
<1> QED BY <1>2, <1>8, <1>9 DEF t

\* A batch reaches the table, the log, both or neither, and leaves the writer's hand
\* unless it is kept for another attempt.
LEMMA SettleKeeps ==
  ASSUME TypeOK, Past, InLine, Once,
         UNCHANGED <<sent, ch, dropped, late>>,
         stored' = stored \/ stored' = stored \o batch,
         doubt' = doubt \/ doubt' = doubt \cup Elems(batch),
         logged' = logged \/ logged' = logged \cup Elems(batch),
         stored' = stored \/ logged' = logged \/ Elems(batch) \subseteq doubt',
         \/ batch' = <<>>
         \/ /\ batch' = batch /\ wpc' \in Persisting /\ logged' = logged
            /\ stored' = stored \/ Elems(batch) \subseteq doubt'
  PROVE  /\ Past' /\ InLine' /\ Once'
         /\ stored' \in Seq(Event) /\ batch' \in Seq(Event)
         /\ logged' \subseteq Event /\ doubt' \subseteq Event
<1> DEFINE X == Elems(stored)
           B == Elems(batch)
<1>1. /\ stored \in Seq(Event) /\ batch \in Seq(Event)
      /\ X \subseteq Event /\ B \subseteq Event /\ logged \subseteq Event /\ doubt \subseteq Event
      /\ B \cap logged = {} /\ B \cap X \subseteq doubt /\ logged \cap X \subseteq doubt
  BY PlacesAreEvents, Apart DEF TypeOK, Once
<1>2. doubt \subseteq doubt' /\ logged \subseteq logged' /\ logged' \subseteq logged \cup B
  OBVIOUS
<1>3. /\ stored' \in Seq(Event)
      /\ Elems(stored') = X \/ Elems(stored') = X \cup B
      /\ stored' = stored \/ Elems(stored') = X \cup B
      /\ \A i, j \in DOMAIN stored' : stored'[i] = stored'[j] /\ i # j => stored'[i] \in doubt'
      /\ InOrder'
  <2>1. CASE stored' = stored
    BY <1>1, <1>2, <2>1 DEF Once, InOrder
  <2>2. CASE stored' = stored \o batch
    <3>1. doubt \subseteq doubt'
      BY <1>2
    <3>2. /\ stored \o batch \in Seq(Event) /\ Elems(stored \o batch) = X \cup B
          /\ \A i, j \in DOMAIN (stored \o batch) :
               (stored \o batch)[i] = (stored \o batch)[j] /\ i # j => (stored \o batch)[i] \in doubt'
          /\ \A i, j \in DOMAIN (stored \o batch) :
               /\ i < j /\ (stored \o batch)[i][1] = (stored \o batch)[j][1]
               /\ (stored \o batch)[i][2] > (stored \o batch)[j][2]
               => {(stored \o batch)[i], (stored \o batch)[j]} \subseteq doubt'
      BY <3>1, InsertedOnce
    <3> QED BY <2>2, <3>2 DEF InOrder
  <2> QED BY <2>1, <2>2
<1>4. /\ batch' \in Seq(Event) /\ Ordered(batch') /\ (Elems(batch') = B \/ Elems(batch') = {})
      /\ batch' = batch \/ Elems(batch') = {}
  BY <1>1, EmptyElems, EmptySeq DEF InLine
<1>5. Elems(ch') = Elems(ch) /\ Ordered(ch')
  BY DEF InLine
<1> HIDE DEF X, B
<1>6. Past'
  <2>1. \A e \in Elems(stored') \cup logged' \cup Elems(batch') : e \in X \cup logged \cup B
    BY <1>2, <1>3, <1>4
  <2> QED BY <2>1, <1>5 DEF Past, X, B
<1>7. InLine'
  <2>1. Precede(Elems(batch'), Elems(ch'))
    BY <1>4, <1>5 DEF InLine, Precede, B
  <2>2. Precede(Elems(stored') \cup logged', Elems(ch'))
    BY <1>2, <1>3, <1>5 DEF InLine, Precede, B, X
  <2>3. Precede(logged', Elems(batch'))
    BY <1>4, EmptyElems DEF InLine, Precede, B
  <2>4. \A x \in Elems(stored'), y \in Elems(batch') :
          Before(x, y) \/ (wpc' \in Persisting /\ {x, y} \subseteq doubt')
    <3> SUFFICES ASSUME NEW x \in Elems(stored'), NEW y \in Elems(batch'), ~Before(x, y)
                 PROVE  wpc' \in Persisting /\ {x, y} \subseteq doubt'
      OBVIOUS
    <3>1. y \in B /\ wpc' \in Persisting /\ (stored' = stored \/ B \subseteq doubt')
      BY <1>4, EmptyElems DEF B
    <3>2. CASE x \in X
      BY <1>2, <3>1, <3>2 DEF InLine, X, B
    <3>3. CASE x \notin X
      BY <1>3, <3>1, <3>3 DEF X
    <3> QED BY <3>2, <3>3
  <2>5. Elems(batch') \cap Elems(stored') = {} \/ Elems(batch') \subseteq Elems(stored')
    BY <1>3, <1>4 DEF InLine, X, B
  <2>6. (dropped' \cup late') \cap (Elems(stored') \cup logged' \cup Elems(batch') \cup Elems(ch')) = {}
    BY <1>2, <1>3, <1>4, <1>5 DEF InLine, X, B
  <2>7. dropped' \cap late' = {}
    BY DEF InLine
  <2> QED BY <1>4, <1>5, <2>1, <2>2, <2>3, <2>4, <2>5, <2>6, <2>7 DEF InLine
<1>8. logged' \cap Elems(stored') \subseteq doubt'
  BY <1>1, <1>2, <1>3 DEF X, B
<1>9. Once'
  BY <1>3, <1>8 DEF Once
<1>10. logged' \subseteq Event /\ doubt' \subseteq Event
  BY <1>1, <1>2 DEF B
<1> QED BY <1>3, <1>4, <1>6, <1>7, <1>9, <1>10

\* No event moves.
LEMMA QuietKeeps ==
  ASSUME Past, InLine, Once,
         UNCHANGED <<sent, ch, dropped, late, batch, stored, logged, doubt>>,
         wpc \in Persisting => wpc' \in Persisting
  PROVE  Past' /\ InLine' /\ Once'
<1>1. Past' /\ Once'
  BY DEF Past, Once, InOrder
<1>2. InLine'
  BY DEF InLine
<1> QED BY <1>1, <1>2

-----------------------------------------------------------------------------
(* The actions. *)

LEMMA InitInv == Init => PipeInv
<1> SUFFICES ASSUME Init PROVE PipeInv
  OBVIOUS
<1> USE DEF Init
<1>1. TypeOK
  <2>1. sent \in [Handler -> 0 .. Emits] /\ attempt \in 0 .. MaxAttempts /\ faults \in 0 .. MaxFaults
    BY AttemptsAssumption, BoundsAreNat
  <2>2. ch \in Seq(Event) /\ batch \in Seq(Event) /\ stored \in Seq(Event)
    BY EmptySeq
  <2> QED BY <2>1, <2>2 DEF TypeOK
<1>2. Elems(ch) = {} /\ Elems(batch) = {} /\ Elems(stored) = {} /\ Len(ch) = 0 /\ Len(batch) = 0
  BY EmptyElems
<1>3. Holding /\ Room
  BY <1>2, CapacityAssumption, BatchSizeAssumption DEF Holding, Room, Persisting
<1>4. Past /\ InLine
  BY <1>2, EmptyElems DEF Past, InLine, Precede
<1>5. Once
  BY <1>2 DEF Once, InOrder
<1> QED BY <1>1, <1>3, <1>4, <1>5 DEF PipeInv

LEMMA EmitStep == ASSUME NEW h \in Handler, PipeInv, Emit(h) PROVE PipeInv'
<1> DEFINE e == <<h, sent[h] + 1>>
<1> USE DEF PipeInv
<1>1. /\ sent[h] \in Nat /\ e \in Event /\ e[1] = h /\ e[2] = sent[h] + 1
      /\ sent' \in [Handler -> 0 .. Emits]
      /\ \A g \in Handler : sent'[g] >= sent[g] /\ sent'[g] \in Nat /\ sent[g] \in Nat
      /\ sent'[h] = sent[h] + 1
  BY BoundsAreNat DEF Emit, TypeOK, Event
<1>2. /\ UNCHANGED <<main, wpc, batch, attempt, wctx, timedOut, stored, logged, doubt, faults>>
      /\ Enqueue(e)
  BY DEF Emit, persistVars, dbVars
<1> HIDE DEF e
<1>3. /\ dropped' = dropped \/ dropped' = dropped \cup {e}
      /\ late' = late \/ late' = late \cup {e}
      /\ \/ ch' = ch
         \/ /\ ch' = Append(ch, e) /\ Len(ch) < Capacity /\ ~closed
            /\ dropped' = dropped /\ late' = late
      /\ dropped' = dropped \/ late' = late
  BY <1>2 DEF Enqueue
<1> DEFINE All == Elems(stored) \cup logged \cup dropped \cup late \cup Elems(batch) \cup Elems(ch)
<1>4. /\ All \subseteq Event
      /\ \A x \in All : x[1] \in Handler /\ x[2] \in Nat /\ x[2] <= sent[x[1]]
  <2>1. All \subseteq Event
    BY PlacesAreEvents
  <2> QED BY <2>1, EventParts DEF Past
<1>5. e \notin All /\ \A x \in All : Before(x, e)
  BY <1>1, <1>4 DEF Before
<1>6. /\ ch' \in Seq(Event) /\ ch \in Seq(Event) /\ Len(ch) \in Nat
      /\ ch' = ch \/ Len(ch') = Len(ch) + 1
      /\ Elems(ch') = Elems(ch) \/ Elems(ch') = Elems(ch) \cup {e}
      /\ dropped' # dropped \/ late' # late => Elems(ch') = Elems(ch)
      /\ Ordered(ch')
  <2>0. ch \in Seq(Event) /\ Len(ch) \in Nat /\ Ordered(ch)
    BY LenProperties DEF TypeOK, InLine
  <2>1. CASE ch' = ch
    BY <2>0, <2>1
  <2>2. CASE ch' = Append(ch, e) /\ dropped' = dropped /\ late' = late
    <3>1. Precede(Elems(ch), {e})
      BY <1>5 DEF Precede
    <3> QED BY <1>1, <2>0, <2>2, <3>1, AppendElems
  <2> QED BY <1>3, <2>1, <2>2
<1>7. TypeOK'
  BY <1>1, <1>2, <1>3, <1>6 DEF TypeOK
<1>8. Holding'
  BY <1>2 DEF Holding, closed, cancelled
<1>9. Room'
  <2>1. Len(ch') <= Capacity
    BY <1>3, <1>6, CapacityAssumption DEF Room
  <2>2. wpc = "drain" => ch' = ch
    BY <1>3 DEF Holding, cancelled, closed
  <2> QED BY <1>2, <2>1, <2>2 DEF Room, cancelled
<1>10. Past'
  <2>1. \A x \in All \cup {e} : x[2] <= sent'[x[1]]
    BY <1>1, <1>4
  <2>2. (Elems(stored) \cup logged \cup dropped \cup late \cup Elems(batch) \cup Elems(ch))'
          \subseteq All \cup {e}
    BY <1>2, <1>3, <1>6
  <2> QED BY <2>1, <2>2 DEF Past
<1>11. InLine'
  <2>1. Precede(Elems(batch), Elems(ch'))
    BY <1>5, <1>6 DEF InLine, Precede
  <2>2. Precede(Elems(stored) \cup logged, Elems(ch'))
    BY <1>5, <1>6 DEF InLine, Precede
  <2>3. (dropped' \cup late') \cap (Elems(stored) \cup logged \cup Elems(batch) \cup Elems(ch')) = {}
    BY <1>3, <1>5, <1>6 DEF InLine
  <2>4. dropped' \cap late' = {}
    BY <1>3, <1>5 DEF InLine
  <2> QED BY <1>2, <1>6, <2>1, <2>2, <2>3, <2>4 DEF InLine
<1>12. Once'
  BY <1>2 DEF Once, InOrder
<1> QED BY <1>7, <1>8, <1>9, <1>10, <1>11, <1>12

LEMMA ReceiveStep == PipeInv /\ Receive => PipeInv'
<1> SUFFICES ASSUME PipeInv, Receive PROVE PipeInv'
  OBVIOUS
<1> USE DEF PipeInv
<1> DEFINE b == Append(batch, Head(ch))
<1>1. /\ wpc = "select" /\ ch # <<>> /\ ch' = Tail(ch) /\ batch' = b
      /\ UNCHANGED <<main, sent, dropped, late, timedOut, stored, logged, doubt, faults>>
      /\ \/ Len(b) >= BatchSize /\ Flush(b, "run")
         \/ ~(Len(b) >= BatchSize) /\ UNCHANGED <<wpc, attempt, wctx>>
  BY DEF Receive, Flush, dbVars
<1>2. /\ Past' /\ InLine' /\ Once'
      /\ ch' \in Seq(Event) /\ Len(ch') = Len(ch) - 1 /\ Len(ch) > 0
      /\ batch' \in Seq(Event) /\ Len(batch') = Len(batch) + 1
  BY <1>1, MoveKeeps DEF Persisting
<1>3. /\ Len(ch) \in Nat /\ Len(batch) \in Nat /\ batch' # <<>>
      /\ wctx = "run" /\ attempt = 0 /\ Len(batch) < BatchSize
  <2>1. Len(ch) \in Nat /\ Len(batch) \in Nat
    BY LenProperties DEF TypeOK
  <2> QED BY <1>1, <1>2, <2>1, EmptySeq DEF Holding, Room
<1> HIDE DEF b
<1>4. /\ wctx' = "run"
      /\ \/ wpc' = "call" /\ attempt' = 1
         \/ wpc' = "select" /\ attempt' = 0 /\ Len(batch') < BatchSize
  <2>1. CASE Len(b) >= BatchSize /\ Flush(b, "run")
    BY <1>1, <1>3, <2>1 DEF Flush
  <2>2. CASE ~(Len(b) >= BatchSize) /\ UNCHANGED <<wpc, attempt, wctx>>
    BY <1>1, <1>2, <1>3, <2>2, BatchSizeAssumption
  <2> QED BY <1>1, <2>1, <2>2
<1>5. TypeOK'
  BY <1>1, <1>2, <1>4, AttemptsAssumption DEF TypeOK
<1>6. Holding'
  BY <1>1, <1>3, <1>4 DEF Holding, Persisting, closed, cancelled
<1>7. Room'
  BY <1>1, <1>2, <1>3, <1>4, BatchSizeAssumption, CapacityAssumption DEF Room, Persisting, cancelled
<1> QED BY <1>2, <1>5, <1>6, <1>7

LEMMA DrainStep == PipeInv /\ Drain => PipeInv'
<1> SUFFICES ASSUME PipeInv, Drain PROVE PipeInv'
  OBVIOUS
<1> USE DEF PipeInv
<1>1. /\ wpc = "drain" /\ ch # <<>> /\ ch' = Tail(ch) /\ batch' = Append(batch, Head(ch))
      /\ UNCHANGED <<main, sent, dropped, late, wpc, attempt, wctx, timedOut, stored, logged, doubt, faults>>
  BY DEF Drain, dbVars
<1>2. /\ Past' /\ InLine' /\ Once'
      /\ ch' \in Seq(Event) /\ Len(ch') = Len(ch) - 1 /\ Len(ch) > 0
      /\ batch' \in Seq(Event) /\ Len(batch') = Len(batch) + 1
  BY <1>1, MoveKeeps DEF Persisting
<1>3. Len(ch) \in Nat /\ Len(batch) \in Nat
  BY LenProperties DEF TypeOK
<1>4. TypeOK'
  BY <1>1, <1>2 DEF TypeOK
<1>5. Holding'
  BY <1>1 DEF Holding, Persisting, closed, cancelled
<1>6. Room'
  BY <1>1, <1>2, <1>3, BatchSizeAssumption, CapacityAssumption DEF Room, Persisting, cancelled
<1> QED BY <1>2, <1>4, <1>5, <1>6

\* The steps of the writer that move no event.
LEMMA QuietStep ==
  PipeInv /\ (Tick \/ SeeCancel \/ Drained \/ Call \/ Retry \/ DrainTimesOut) => PipeInv'
<1> SUFFICES ASSUME PipeInv, Tick \/ SeeCancel \/ Drained \/ Call \/ Retry \/ DrainTimesOut
             PROVE  PipeInv'
  OBVIOUS
<1> USE DEF PipeInv
<1>1. UNCHANGED <<main, sent, ch, dropped, late, batch, stored, logged, doubt>>
  BY DEF Tick, SeeCancel, Drained, Call, Retry, DrainTimesOut, Flush, sinkVars, persistVars, dbVars
<1>2. /\ wpc \in Persisting => wpc' \in Persisting
      /\ timedOut' \in BOOLEAN /\ faults' \in 0 .. MaxFaults
  <2>1. wpc \in Persisting => wpc' \in Persisting
    BY DEF Tick, SeeCancel, Drained, Call, Retry, DrainTimesOut, Persisting
  <2>2. CASE UNCHANGED <<timedOut, faults>>
    BY <2>1, <2>2 DEF TypeOK
  <2>3. CASE DrainTimesOut
    <3>1. timedOut' = TRUE /\ faults' = faults + 1 /\ faults < MaxFaults /\ faults \in 0 .. MaxFaults
      BY <2>3 DEF DrainTimesOut, Fault, TypeOK
    <3> QED BY <2>1, <3>1, BoundsAreNat
  <2> QED BY <2>2, <2>3 DEF Tick, SeeCancel, Drained, Call, Retry
<1>3. Past' /\ InLine' /\ Once'
  BY <1>1, <1>2, QuietKeeps
<1>4. /\ Len(ch) \in Nat /\ Len(batch) \in Nat /\ attempt \in Nat
      /\ (batch = <<>> => Len(batch) = 0) /\ (ch = <<>> => Len(ch) = 0)
  BY LenProperties, AttemptsAssumption DEF TypeOK
<1> SUFFICES (/\ wpc' \in {"select", "drain", "call", "inflight", "backoff", "done"}
              /\ attempt' \in 0 .. MaxAttempts /\ wctx' \in {"run", "drain"})
             /\ Holding' /\ Room'
  BY <1>1, <1>2, <1>3 DEF TypeOK
<1>5. CASE Tick
  <2>1. wpc = "select" /\ wctx' = "run" /\ wpc' = "call" /\ attempt' = 1 /\ batch # <<>>
    BY <1>5 DEF Tick, Flush
  <2> QED BY <1>1, <1>4, <2>1, AttemptsAssumption, BatchSizeAssumption
          DEF Holding, Room, Persisting, closed, cancelled
<1>6. CASE SeeCancel
  <2>1. wpc = "select" /\ cancelled /\ wpc' = "drain" /\ UNCHANGED <<attempt, wctx>>
    BY <1>6 DEF SeeCancel, persistVars
  <2> QED BY <1>1, <1>4, <2>1, BatchSizeAssumption, CapacityAssumption
          DEF TypeOK, Holding, Room, Persisting, closed, cancelled
<1>7. CASE Drained
  <2>1. /\ wpc = "drain" \/ (wpc = "select" /\ closed)
        /\ ch = <<>> /\ wctx' = "drain"
        /\ \/ batch = <<>> /\ wpc' = "done" /\ attempt' = attempt
           \/ batch # <<>> /\ wpc' = "call" /\ attempt' = 1
    BY <1>7 DEF Drained, Flush
  <2>2. closed /\ closed' /\ (wpc = "drain" => cancelled') /\ attempt = 0
    BY <1>1, <2>1 DEF Holding, closed, cancelled
  <2>3. Holding'
    BY <1>1, <2>1, <2>2 DEF Holding, Persisting
  <2>4. Room'
    BY <1>1, <1>4, <2>1, <2>2, BatchSizeAssumption, CapacityAssumption DEF Room, Persisting
  <2> QED BY <2>1, <2>2, <2>3, <2>4, AttemptsAssumption DEF TypeOK
<1>8. CASE Call
  BY <1>1, <1>4, <1>8 DEF Call, persistVars, TypeOK, Holding, Room, Persisting, closed, cancelled
<1>9. CASE Retry
  <2>1. wpc = "backoff" /\ wpc' = "call" /\ attempt' = attempt + 1 /\ wctx' = wctx
    BY <1>9 DEF Retry
  <2> QED BY <1>1, <1>4, <2>1, AttemptsAssumption
          DEF TypeOK, Holding, Room, Persisting, closed, cancelled
<1>10. CASE DrainTimesOut
  BY <1>1, <1>4, <1>10 DEF DrainTimesOut, persistVars, TypeOK, Holding, Room, Persisting, closed, cancelled
<1> QED BY <1>5, <1>6, <1>7, <1>8, <1>9, <1>10

\* What the three ends of an attempt have in common.
LEMMA Ends ==
  ASSUME TypeOK, Holding, InsertDone \/ InsertFails \/ GiveUp
  PROVE  /\ UNCHANGED <<main, sent, ch, dropped, late, timedOut, wctx>>
         /\ wpc \in Persisting
         /\ faults' \in 0 .. MaxFaults
         /\ stored' = stored \/ stored' = stored \o batch
         /\ doubt' = doubt \/ doubt' = doubt \cup Elems(batch)
         /\ logged' = logged \/ logged' = logged \cup Elems(batch)
         /\ stored' = stored \/ logged' = logged \/ Elems(batch) \subseteq doubt'
         /\ \/ /\ batch' = <<>> /\ attempt' = 0
               /\ wpc' = IF wctx = "run" THEN "select" ELSE "done"
            \/ /\ batch' = batch /\ attempt' = attempt /\ attempt < MaxAttempts
               /\ wpc' = "backoff" /\ logged' = logged
               /\ stored' = stored \/ Elems(batch) \subseteq doubt'
<1>1. CASE InsertDone
  BY <1>1 DEF InsertDone, PersistReturns, sinkVars, TypeOK, Persisting
<1>2. CASE InsertFails
  BY <1>2, BoundsAreNat
     DEF InsertFails, AfterError, PersistReturns, Fault, sinkVars, persistVars, TypeOK, Persisting
<1>3. CASE GiveUp
  BY <1>3 DEF GiveUp, PersistReturns, sinkVars, dbVars, TypeOK, Persisting
<1> QED BY <1>1, <1>2, <1>3

LEMMA SettleStep == PipeInv /\ (InsertDone \/ InsertFails \/ GiveUp) => PipeInv'
<1> SUFFICES ASSUME PipeInv, InsertDone \/ InsertFails \/ GiveUp PROVE PipeInv'
  OBVIOUS
<1> USE DEF PipeInv
<1>1. /\ UNCHANGED <<main, sent, ch, dropped, late, timedOut, wctx>>
      /\ wpc \in Persisting
      /\ faults' \in 0 .. MaxFaults
      /\ \/ /\ batch' = <<>> /\ attempt' = 0
            /\ wpc' = IF wctx = "run" THEN "select" ELSE "done"
         \/ /\ batch' = batch /\ attempt' = attempt /\ attempt < MaxAttempts
            /\ wpc' = "backoff"
  BY Ends
<1>2. /\ Past' /\ InLine' /\ Once'
      /\ stored' \in Seq(Event) /\ batch' \in Seq(Event)
      /\ logged' \subseteq Event /\ doubt' \subseteq Event
  BY Ends, SettleKeeps DEF Persisting
<1>3. TypeOK'
  BY <1>1, <1>2, AttemptsAssumption DEF TypeOK
<1>4. Len(<<>>) = 0 /\ wctx \in {"run", "drain"}
  BY DEF TypeOK
<1>5. Holding'
  BY <1>1, <1>4 DEF Holding, Persisting, closed, cancelled
<1>6. Room'
  BY <1>1, <1>4, BatchSizeAssumption DEF Room, Persisting, cancelled
<1> QED BY <1>2, <1>3, <1>5, <1>6

\* run() goes on, or nothing happens.
LEMMA MainStep == PipeInv /\ (Stop \/ Shutdown \/ UNCHANGED vars) => PipeInv'
<1> SUFFICES ASSUME PipeInv, Stop \/ Shutdown \/ UNCHANGED vars PROVE PipeInv'
  OBVIOUS
<1> USE DEF PipeInv
<1>1. /\ UNCHANGED <<sent, ch, dropped, late, wpc, batch, attempt, wctx, timedOut,
                     stored, logged, doubt, faults>>
      /\ main' \in {"serving", "stopping", "completed", "cancelled", "exited"}
      /\ (closed => closed') /\ (cancelled => cancelled')
  BY DEF Stop, Shutdown, CompleteLog, CancelWorkers, Exit, MainGoto, vars, sinkVars,
         persistVars, dbVars, TypeOK, closed, cancelled
<1>2. Past' /\ InLine' /\ Once'
  BY <1>1, QuietKeeps
<1>3. TypeOK' /\ Holding' /\ Room'
  BY <1>1 DEF TypeOK, Holding, Room
<1> QED BY <1>2, <1>3

LEMMA PipeStep == PipeInv /\ [Next]_vars => PipeInv'
<1> SUFFICES ASSUME PipeInv, [Next]_vars PROVE PipeInv'
  OBVIOUS
<1>1. CASE \E h \in Handler : Emit(h)
  BY <1>1, EmitStep
<1>2. CASE Writer
  BY <1>2, ReceiveStep, DrainStep, QuietStep, SettleStep DEF Writer
<1>3. CASE Stop \/ Shutdown \/ UNCHANGED vars
  BY <1>3, MainStep
<1> QED BY <1>1, <1>2, <1>3 DEF Next

LEMMA PipeAlways == Spec => []PipeInv
  BY InitInv, PipeStep, PTL DEF Spec

-----------------------------------------------------------------------------
\* The pipeline keeps its types.
THEOREM TypeCorrect == Spec => []TypeOK
<1>1. PipeInv => TypeOK
  BY DEF PipeInv
<1> QED BY <1>1, PipeAlways, PTL

\* Run and its drain (writer.go:31-86): whatever the database does and for however long, the
\* writer holds no more than a full batch and the sink no more than a full channel.
THEOREM Bounded == Spec => []BacklogBounded
<1>1. ASSUME PipeInv PROVE BacklogBounded
  <2>1. Len(ch) \in Nat /\ Len(batch) \in Nat /\ (wpc = "done" => Len(batch) = 0)
    BY <1>1, LenProperties DEF PipeInv, TypeOK, Room
  <2> QED BY <1>1, <2>1, BatchSizeAssumption, CapacityAssumption
          DEF PipeInv, TypeOK, Holding, Room, Persisting, BacklogBounded
<1> QED BY <1>1, PipeAlways, PTL

\* persist (writer.go:106-136): through every batch, retry and drain the rows of a request
\* come in the order it emitted them, but for batches inserted twice.
THEOREM RowsInOrder == Spec => []InOrder
<1>1. PipeInv => InOrder
  BY DEF PipeInv, Once
<1> QED BY <1>1, PipeAlways, PTL

\* persist (writer.go:106-136): an event has a second row, or a row and a log line, only if
\* the answer to a committed batch was lost.
THEOREM RowsOnce == Spec => []StoredOnce
<1>1. ASSUME PipeInv PROVE StoredOnce
  <2> SUFFICES ASSUME NEW e \in Event, e \notin doubt
               PROVE  ~(Rows(e) + (IF e \in logged THEN 1 ELSE 0) > 1)
    BY DEF StoredOnce
  <2> DEFINE D == {i \in DOMAIN stored : stored[i] = e}
  <2>1. \A i, j \in D : i = j
    BY <1>1 DEF PipeInv, Once
  <2>2. CASE D = {}
    <3>1. Rows(e) = 0
      BY <2>2, FS_EmptySet DEF Rows
    <3> QED BY <3>1
  <2>3. CASE D # {}
    <3>1. PICK i \in D : TRUE
      BY <2>3
    <3>2. D = {i}
      BY <2>1, <3>1
    <3>3. Rows(e) = 1
      BY <3>2, FS_Singleton DEF Rows
    <3>4. e \notin logged
      BY <1>1, <3>1 DEF PipeInv, Once, Elems
    <3> QED BY <3>3, <3>4
  <2> QED BY <2>2, <2>3
<1> QED BY <1>1, PipeAlways, PTL

-----------------------------------------------------------------------------
(* The ledger. *)

\* The fate of an event that is in one place.
LEMMA FateIs ==
  ASSUME PipeInv, NEW e \in Event
  PROVE  /\ e \in Elems(stored) => Fate(e) = "stored"
         /\ e \in logged \ Elems(stored) => Fate(e) = "logged"
         /\ e \in dropped => Fate(e) = "dropped"
         /\ e \in late => Fate(e) = "late"
         /\ e \in (Elems(ch) \cup Elems(batch)) \ Elems(stored) => Fate(e) = "queued"
         /\ e \notin Elems(stored) \cup logged \cup dropped \cup late \cup Elems(ch) \cup Elems(batch)
              => Fate(e) = IF Emitted(e) THEN "lost" ELSE "none"
<1>1. /\ (dropped \cup late) \cap (Elems(stored) \cup logged \cup Elems(batch) \cup Elems(ch)) = {}
      /\ dropped \cap late = {}
      /\ (Elems(ch) \cup Elems(batch)) \cap logged = {}
  BY Apart DEF PipeInv, InLine
<1> QED BY <1>1 DEF Fate

LEMMA LedgerInit == Init => L!Init
<1> SUFFICES ASSUME Init PROVE L!Init
  OBVIOUS
<1>1. closed = FALSE
  BY DEF Init, closed
<1>2. ASSUME NEW e \in Event PROVE Fate(e) = "none"
  <2>1. ~Emitted(e)
    BY EventParts DEF Init, Emitted, Event
  <2> QED BY <2>1, EmptyElems DEF Init, Fate
<1> QED BY <1>1, <1>2 DEF L!Init

LEMMA EmitLedger == ASSUME NEW h \in Handler, PipeInv, Emit(h) PROVE L!Next
<1>0. TypeOK /\ Past
  BY DEF PipeInv
<1>1. PICK e \in Event :
        /\ sent[h] \in Nat /\ e[1] = h /\ e[2] = sent[h] + 1
        /\ sent' = [sent EXCEPT ![h] = sent[h] + 1]
        /\ UNCHANGED <<main, batch, stored, logged>> /\ Enqueue(e)
  <2>1. /\ sent[h] \in Nat /\ <<h, sent[h] + 1>> \in Event
        /\ sent' = [sent EXCEPT ![h] = sent[h] + 1]
        /\ UNCHANGED <<main, batch, stored, logged>> /\ Enqueue(<<h, sent[h] + 1>>)
    BY <1>0, BoundsAreNat DEF Emit, TypeOK, Event, persistVars, dbVars
  <2> QED BY <2>1
<1>2. /\ Elems(ch') = Elems(ch) \cup {e} \/ Elems(ch') = Elems(ch)
      /\ e \notin Elems(stored) \cup logged \cup dropped \cup late \cup Elems(ch) \cup Elems(batch)
      /\ \/ ~closed /\ Elems(ch') = Elems(ch) \cup {e} /\ UNCHANGED <<dropped, late>>
         \/ ~closed /\ ch' = ch /\ dropped' = dropped \cup {e} /\ late' = late
         \/ closed /\ ch' = ch /\ late' = late \cup {e} /\ dropped' = dropped
  <2>1. ch \in Seq(Event)
    BY <1>0 DEF TypeOK
  <2>2. Elems(Append(ch, e)) = Elems(ch) \cup {e}
    <3>1. /\ Append(ch, e) \in Seq(Event) /\ Len(Append(ch, e)) = Len(ch) + 1
          /\ Elems(Append(ch, e)) = Elems(ch) \cup {e}
          /\ Ordered(ch) /\ Precede(Elems(ch), {e}) => Ordered(Append(ch, e))
      BY <2>1, AppendElems, Zenon
    <3> QED BY <3>1
  <2>3. e \notin Elems(stored) \cup logged \cup dropped \cup late \cup Elems(ch) \cup Elems(batch)
    BY <1>0, <1>1 DEF Past
  <2> QED BY <1>1, <2>2, <2>3 DEF Enqueue
<1>3. closed' = closed
  BY <1>1 DEF closed
<1>4. \A x \in Event \ {e} : Emitted(x)' = Emitted(x)
  <2> SUFFICES ASSUME NEW x \in Event \ {e} PROVE (sent'[x[1]] >= x[2]) <=> (sent[x[1]] >= x[2])
    BY DEF Emitted
  <2>1. x[1] \in Handler /\ x[2] \in Nat
    BY EventParts
  <2>2. CASE x[1] = h
    <3>1. x[2] # sent[h] + 1
      BY <1>1, <2>2, EventParts
    <3>2. sent'[x[1]] = sent[h] + 1
      BY <1>0, <1>1, <2>2 DEF TypeOK
    <3> QED BY <1>1, <2>1, <2>2, <3>1, <3>2
  <2>3. CASE x[1] # h
    BY <1>0, <1>1, <2>1, <2>3 DEF TypeOK
  <2> QED BY <2>2, <2>3
<1>5. ~Emitted(e) /\ Fate(e) = "none"
  <2>1. ~Emitted(e)
    BY <1>1 DEF Emitted
  <2> QED BY <1>1, <1>2, <2>1, FateIs
<1>6. \A x \in Event \ {e} : Fate(x)' = Fate(x)
  BY <1>1, <1>2, <1>4 DEF Fate
<1>8. CASE ~closed /\ Elems(ch') = Elems(ch) \cup {e} /\ UNCHANGED <<dropped, late>>
  <2>1. Fate(e)' = "queued"
    BY <1>1, <1>2, <1>8 DEF Fate
  <2>2. L!Queue(e) /\ UNCHANGED closed
    BY <1>1, <1>3, <1>5, <1>6, <1>8, <2>1 DEF L!Queue, L!Set
  <2> QED BY <1>1, <2>2 DEF L!Next
<1>9. CASE ~closed /\ ch' = ch /\ dropped' = dropped \cup {e} /\ late' = late
  <2>1. Fate(e)' = "dropped"
    BY <1>1, <1>2, <1>9 DEF Fate
  <2>2. L!Drop(e) /\ UNCHANGED closed
    BY <1>1, <1>3, <1>5, <1>6, <1>9, <2>1 DEF L!Drop, L!Set
  <2> QED BY <1>1, <2>2 DEF L!Next
<1>10. CASE closed /\ ch' = ch /\ late' = late \cup {e} /\ dropped' = dropped
  <2>1. Fate(e)' = "late"
    BY <1>1, <1>2, <1>10 DEF Fate
  <2>2. L!Refuse(e) /\ UNCHANGED closed
    BY <1>1, <1>3, <1>5, <1>6, <1>10, <2>1 DEF L!Refuse, L!Set
  <2> QED BY <1>1, <2>2 DEF L!Next
<1> QED BY <1>2, <1>8, <1>9, <1>10

\* From the channel to the batch, an event stays queued.
LEMMA MoveLedger == PipeInv /\ (Receive \/ Drain) => UNCHANGED L!vars
<1> SUFFICES ASSUME PipeInv, Receive \/ Drain PROVE UNCHANGED L!vars
  OBVIOUS
<1>1. /\ ch # <<>> /\ wpc \notin Persisting /\ ch' = Tail(ch) /\ batch' = Append(batch, Head(ch))
      /\ UNCHANGED <<main, sent, dropped, late, stored, logged, doubt>>
  BY DEF Receive, Drain, Flush, dbVars, Persisting
<1>2. Elems(batch') \cup Elems(ch') = Elems(batch) \cup Elems(ch)
  BY <1>1, MoveKeeps DEF PipeInv
<1>3. \A e \in Event : Fate(e)' = Fate(e)
  BY <1>1, <1>2 DEF Fate, Emitted
<1>4. closed' = closed
  BY <1>1 DEF closed
<1> QED BY <1>3, <1>4 DEF L!vars

\* An attempt ends: the whole batch gets its fate, or had it already.
LEMMA SettleLedger == PipeInv /\ (InsertDone \/ InsertFails \/ GiveUp) => [L!Next]_(L!vars)
<1> SUFFICES ASSUME PipeInv, InsertDone \/ InsertFails \/ GiveUp PROVE [L!Next]_(L!vars)
  OBVIOUS
<1> DEFINE X == Elems(stored)
           B == Elems(batch)
<1>0. TypeOK /\ Holding /\ Past /\ InLine
  BY DEF PipeInv
<1>1. /\ UNCHANGED <<main, sent, ch, dropped, late>>
      /\ wpc \in Persisting
      /\ stored' = stored \/ Elems(stored') = X \cup B
      /\ logged' = logged \/ logged' = logged \cup B
      /\ \/ Elems(batch') = {}
         \/ batch' = batch /\ logged' = logged
  <2>1. Elems(stored \o batch) = X \cup B
    BY <1>0, ConcatElems DEF TypeOK
  <2> QED BY <1>0, <2>1, Ends, EmptyElems
<1>2. closed' = closed
  BY <1>1 DEF closed
<1>3. /\ B \cap logged = {} /\ B \cap Elems(ch) = {}
      /\ B \cap (dropped \cup late) = {}
      /\ B \cap X = {} \/ B \subseteq X
      /\ B \subseteq Event /\ \A e \in B : Emitted(e)
  <2>1. \A e \in B : Emitted(e)
    BY <1>0, PlacesAreEvents DEF TypeOK, Past, Emitted, Event
  <2> QED BY <1>0, <2>1, Apart, PlacesAreEvents DEF InLine
<1>4. PICK b \in B : TRUE
  <2>1. batch # <<>> /\ batch \in Seq(Event)
    BY <1>0, <1>1 DEF Holding, TypeOK
  <2> QED BY <2>1, HeadTailElems
<1> HIDE DEF X, B
<1>5. \A e \in Event \ B : Fate(e)' = Fate(e)
  BY <1>1 DEF Fate, Emitted, X, B
<1>6. CASE B \subseteq X
  <2>1. Elems(stored') = X
    BY <1>1, <1>6 DEF X
  <2>2. \A e \in B : Fate(e)' = Fate(e)
    BY <1>6, <2>1 DEF Fate, X
  <2> QED BY <1>2, <1>5, <2>2 DEF L!vars
<1>7. CASE B \cap X = {}
  <2>1. \A e \in B : Fate(e) = "queued"
    BY <1>3, <1>7 DEF Fate, X, B
  <2>2. ASSUME NEW f \in {"stored", "logged"}, \A e \in B : Fate(e)' = f PROVE L!Next
    <3>1. L!Set(B, f)
      BY <1>3, <1>5, <2>2 DEF L!Set
    <3>2. L!Settle(B)
      BY <1>3, <2>1, <2>2, <3>1 DEF L!Settle
    <3>3. L!SettleOf(b)
      BY <1>2, <1>3, <1>4, <3>2 DEF L!SettleOf
    <3> QED BY <1>3, <1>4, <3>3 DEF L!Next
  <2>3. CASE Elems(stored') = X \cup B
    <3>1. \A e \in B : Fate(e)' = "stored"
      BY <2>3 DEF Fate
    <3> QED BY <2>2, <3>1
  <2>4. CASE stored' = stored /\ logged' = logged \cup B
    <3>1. \A e \in B : Fate(e)' = "logged"
      <4>1. Elems(stored') = X
        BY <2>4 DEF X
      <4>2. ASSUME NEW e \in B PROVE e \notin Elems(stored') /\ e \in logged'
        BY <1>7, <2>4, <4>1
      <4> QED BY <1>1, <1>3, <1>4, <2>4, <4>2 DEF Fate
    <3> QED BY <2>2, <3>1
  <2>5. CASE stored' = stored /\ batch' = batch /\ logged' = logged
    <3>1. \A e \in Event : Fate(e)' = Fate(e)
      BY <1>1, <2>5 DEF Fate, Emitted
    <3> QED BY <1>2, <3>1 DEF L!vars
  <2>6. CASE stored' = stored /\ logged' = logged /\ Elems(batch') = {} /\ batch' # batch
    <3>1. \A e \in B : Fate(e)' = "lost"
      BY <1>1, <1>3, <1>7, <2>6 DEF Fate, Emitted, X
    <3>2. closed
      <4>1. ~InsertDone
        <5>1. Elems(stored \o batch) = X \cup B
          BY <1>0, ConcatElems DEF TypeOK, X, B
        <5>2. Elems(stored) = X
          BY DEF X
        <5> QED BY <1>4, <1>7, <2>6, <5>1, <5>2 DEF InsertDone
      <4>2. ~InsertFails
        BY <1>3, <1>4, <2>6 DEF InsertFails, AfterError, persistVars, B
      <4> QED BY <1>0, <4>1, <4>2 DEF TypeOK, Holding, GiveUp, CtxDone, cancelled, closed
    <3>3. L!Settle(B)
      BY <1>3, <1>5, <2>1, <3>1, <3>2 DEF L!Settle, L!Set
    <3>4. L!SettleOf(b)
      BY <1>2, <1>3, <1>4, <3>3 DEF L!SettleOf
    <3> QED BY <1>3, <1>4, <3>4 DEF L!Next
  <2> QED BY <1>1, <2>3, <2>4, <2>5, <2>6
<1> QED BY <1>3, <1>6, <1>7

LEMMA LedgerStep == PipeInv /\ [Next]_vars => [L!Next]_(L!vars)
<1> SUFFICES ASSUME PipeInv, [Next]_vars PROVE [L!Next]_(L!vars)
  OBVIOUS
<1>1. CASE \E h \in Handler : Emit(h)
  BY <1>1, EmitLedger
<1>2. CASE Receive \/ Drain
  BY <1>2, MoveLedger
<1>3. CASE InsertDone \/ InsertFails \/ GiveUp
  BY <1>3, SettleLedger
<1>4. CASE \/ Tick \/ SeeCancel \/ Drained \/ Call \/ Retry \/ DrainTimesOut
           \/ Stop \/ CancelWorkers \/ Exit \/ UNCHANGED vars
  <2>1. UNCHANGED <<sent, ch, dropped, late, batch, stored, logged>>
    BY <1>4 DEF Tick, SeeCancel, Drained, Call, Retry, DrainTimesOut, Flush, Stop, CancelWorkers,
                Exit, MainGoto, vars, sinkVars, persistVars, dbVars
  <2>2. closed' = closed
    BY <1>4 DEF Tick, SeeCancel, Drained, Call, Retry, DrainTimesOut, Stop, CancelWorkers,
                Exit, MainGoto, vars, closed
  <2>3. \A e \in Event : Fate(e)' = Fate(e)
    BY <2>1 DEF Fate, Emitted
  <2> QED BY <2>2, <2>3 DEF L!vars
<1>5. CASE CompleteLog
  <2>1. UNCHANGED <<sent, ch, dropped, late, batch, stored, logged>> /\ ~closed /\ closed'
    BY <1>5 DEF CompleteLog, MainGoto, sinkVars, persistVars, dbVars, closed
  <2>2. \A e \in Event : Fate(e)' = Fate(e)
    BY <2>1 DEF Fate, Emitted
  <2>3. L!Close
    BY <2>1, <2>2 DEF L!Close
  <2> QED BY <2>3 DEF L!Next
<1> QED BY <1>1, <1>2, <1>3, <1>4, <1>5 DEF Next, Writer, Shutdown

\* The safety part of the ledger: fates begin and change as it says.
LedgerSteps == L!Init /\ [][L!Next]_(L!vars)

\* Emit and the writer (log.go:17-49, writer.go:31-136) take the ledger's steps: an event is
\* queued, dropped or refused once; a batch becomes rows, log lines or, when the sink is
\* closed, nothing, as a whole; and no fate is taken back.
THEOREM StepsOfLedger == Spec => LedgerSteps
  BY InitInv, PipeStep, LedgerInit, LedgerStep, PTL DEF Spec, LedgerSteps
=============================================================================

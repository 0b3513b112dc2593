---------------------------- MODULE DwVaultProofs ----------------------------
(***************************************************************************)
(* Proofs about dwvault for any number of invocations, hosts, releases,    *)
(* credentials and accidents: a command finds what was stored, a session   *)
(* ends only by a race, and an update does not go back.                    *)
(***************************************************************************)
EXTENDS DwVault, TLAPS

Fields == {"step", "ask", "cred", "quiet", "pages", "kept", "cfg", "before", "known", "left",
           "interval", "version", "rel"}

Early == {"config", "keyring", "file", "found", "absent", "refresh", "mode", "poll", "poll token",
          "prompt"}
Late == {"hosts", "call", "call by id"}
InSession == Early \cup {"set", "unset"} \cup Writing \cup Late
InUpdate == {"latest", "note", "download", "apply", "compare", "install"}

Cmd(p) == proc[p].ask.cmd
IsLogout(p) == Cmd(p) = "logout"

\* It has a new credential that it has not written yet.
New(p) == proc[p].step \in {"set", "add", "adding"}
\* It has written the keyring and drops the copy in the file; or it removes both.
Dropping(p) == proc[p].step \in {"drop", "dropping"} \/ (At(p, "refill") /\ ~IsLogout(p))
Erasing(p) == proc[p].step \in {"erase", "erasing"} \/ (At(p, "refill") /\ IsLogout(p))
\* It has a credential, or what it read of the file, in hand.
HasCred(p) == proc[p].step \in {"found", "refresh"} \/ New(p) \/ Dropping(p)
HasPages(p) == proc[p].step \in {"dropping", "adding", "erasing", "refill"}

ProcTypes(p) ==
    /\ DOMAIN proc[p] = Fields
    /\ proc[p].step \in {"idle"} \cup Exited \cup InSession \cup InUpdate
    /\ proc[p].step \in InSession => proc[p].ask \in Ask
    /\ HasCred(p) => proc[p].cred \in Cred
    /\ HasPages(p) => proc[p].pages \in Contents
    /\ proc[p].step \in {"unset", "erase", "erasing"} => IsLogout(p)
    /\ proc[p].step \in (Early \ {"config"}) \cup {"set", "drop", "dropping", "add", "adding"} => ~IsLogout(p)
    /\ At(p, "found") => proc[p].cred.type # "broken"
    /\ At(p, "refresh") => Cmd(p) # "login" /\ proc[p].cred.refresh # 0

ClientTypes ==
    /\ load \in DOMAIN Loads
    /\ DOMAIN proc = Proc /\ \A p \in Proc : ProcTypes(p)
    /\ keyring \in Contents /\ intact \in Contents /\ file \in {intact, Unreadable}
    /\ spoiled \subseteq Host /\ complete \subseteq Proc
    /\ DOMAIN settled = Host /\ DOMAIN seen = Proc
    /\ issued \in Nat

-----------------------------------------------------------------------------
(* What a step can do to the stores, the tokens and the invocations.  These are the events that
   the invariants are about; the lemmas after them reduce every action to one of them.          *)

idp == <<issuer, issued, live, rotated>>
told == <<settled, complete, spoiled>>
creds == <<keyring, intact, told>>

Only(p) ==
    /\ DOMAIN proc' = Proc /\ DOMAIN seen' = Proc /\ ProcTypes(p)'
    /\ \A q \in Proc \ {p} : proc'[q] = proc[q] /\ seen'[q] = seen[q]

SameAsk(p) == proc'[p].ask = proc[p].ask
SameHand(p) == SameAsk(p) /\ proc'[p].cred = proc[p].cred /\ proc'[p].before = proc[p].before

Plain == {"idle", "config", "keyring", "absent", "mode", "poll", "poll token", "prompt", "unset"}
         \cup Late \cup InUpdate

\* A step without a credential or the file in hand afterwards.
Rests(p) ==
    /\ Only(p) /\ UNCHANGED <<creds, file, idp>>
    /\ proc[p].step \notin Exited \cup (Writing \ {"add", "adding"})
    /\ \/ proc'[p].step \in Exited
       \/ proc'[p].step \in Plain /\ At(p, "idle")
       \/ /\ proc'[p].step \in Plain /\ SameAsk(p)
          /\ proc[p].step \in Early \cup Late \cup InUpdate
          /\ ~At(p, "keyring") /\ (At(p, "file") => proc[p].quiet /\ intact[H(p)] = NoCred)
          /\ proc'[p].step \in InUpdate => proc[p].step \in InUpdate
          /\ proc[p].step \in Late => proc'[p].step \in Late
          /\ proc[p].step \in {"call", "call by id"} => proc'[p].step \in {"call", "call by id"}
          /\ At(p, "config") /\ IsLogout(p) => proc'[p].step \in Late

\* A step that keeps the credential in hand, and reads or cuts the file.
Carries(p) ==
    /\ Only(p) /\ SameHand(p) /\ proc'[p].known = proc[p].known /\ seen' = seen
    /\ UNCHANGED <<creds, idp>> /\ file' \in {intact, Unreadable}
    /\ \/ At(p, "found") /\ At(p, "refresh")'
       \/ At(p, "drop") /\ At(p, "dropping")' /\ proc'[p].pages = intact
       \/ At(p, "add") /\ At(p, "adding")' /\ proc'[p].pages = intact
       \/ At(p, "erase") /\ At(p, "erasing")' /\ proc'[p].pages = intact
       \/ /\ proc[p].step \in {"dropping", "erasing"} /\ At(p, "refill")'
          /\ proc'[p].pages = proc[p].pages

Misses(p) ==
    /\ Only(p) /\ SameAsk(p) /\ UNCHANGED <<creds, file, idp>>
    /\ At(p, "keyring") /\ At(p, "file")'
    /\ proc'[p].known = complete /\ (proc'[p].quiet => keyring[H(p)] = NoCred)
    /\ seen'[p] = settled[H(p)] \cup UnderWay(H(p))

Finds(p) ==
    /\ Only(p) /\ SameAsk(p) /\ UNCHANGED <<creds, file, idp>> /\ At(p, "found")'
    /\ \/ /\ At(p, "keyring") /\ keyring[H(p)] # NoCred /\ proc'[p].cred = keyring[H(p)]
          /\ proc'[p].known = IF H(p) \in spoiled THEN {} ELSE complete
       \/ /\ At(p, "file") /\ intact[H(p)] # NoCred /\ proc'[p].cred = intact[H(p)]
          /\ proc'[p].known = IF H(p) \in spoiled THEN {} ELSE proc[p].known

\* A pasted key, the tokens of a login, and a refresh, whose answer may be lost.
Gets(p) ==
    /\ Only(p) /\ UNCHANGED <<creds, file>>
    /\ At(p, "set")' => SameAsk(p) /\ proc'[p].cred.by = p
    /\ \/ At(p, "prompt") /\ At(p, "set")' /\ proc'[p].cred.refresh = 0 /\ UNCHANGED idp
       \/ At(p, "poll token") /\ At(p, "set")' /\ proc'[p].cred.refresh = issued + 1 /\ Grant(p, 0)
       \/ /\ At(p, "refresh") /\ proc[p].cred.refresh \in live /\ Grant(p, proc[p].cred.refresh)
          /\ \/ proc'[p].step \in Exited
             \/ /\ At(p, "set")'
                /\ proc'[p].cred.refresh = IF issuer.rotates THEN issued + 1 ELSE proc[p].cred.refresh

Effects(p) ==
    /\ DOMAIN proc' = Proc /\ ProcTypes(p)' /\ \A q \in Proc \ {p} : proc'[q] = proc[q]
    /\ SameAsk(p) /\ proc'[p].cred = proc[p].cred /\ proc'[p].before = settled[H(p)]
    /\ seen' = [q \in Proc |-> IF q \in Readers(H(p)) THEN seen[q] \cup {Written(p)} ELSE seen[q]]
    /\ UNCHANGED <<intact, file, settled, complete, idp>>
    /\ \/ /\ At(p, "set") /\ At(p, "drop")'
          /\ keyring' = [keyring EXCEPT ![H(p)] = proc[p].cred] /\ UNCHANGED spoiled
       \/ At(p, "set") /\ At(p, "add")' /\ UNCHANGED <<keyring, spoiled>>
       \/ /\ At(p, "unset") /\ At(p, "erase")'
          /\ keyring' = [keyring EXCEPT ![H(p)] = NoCred] /\ UNCHANGED spoiled
       \/ /\ At(p, "unset") /\ At(p, "erase")' /\ UNCHANGED keyring
          /\ spoiled' = spoiled \cup (IF keyring[H(p)] # NoCred THEN {H(p)} ELSE {})

\* The end of a write, with what it leaves in the file.
Undone(p) == {g \in Host \ {H(p)} : intact'[g] # intact[g]}
Drops(p) == intact' = intact \/ (HasPages(p) /\ intact' = Without(p))
Finishes(p) ==
    /\ Only(p) /\ SameAsk(p) /\ UNCHANGED <<keyring, idp>>
    /\ intact' \in Contents /\ file' \in {intact', Unreadable}
    /\ proc'[p].step = Continue(p)
    /\ settled' = [settled EXCEPT ![H(p)] = (@ \ proc[p].before) \cup {Written(p)}]
    /\ complete' = complete \cup {p}
    /\ spoiled' \subseteq Host /\ Undone(p) \subseteq spoiled'
    /\ \A h \in Host \ {H(p)} : h \in spoiled => h \in spoiled'
    /\ \/ /\ Dropping(p) /\ Drops(p) /\ (intact'[H(p)] # NoCred => H(p) \in spoiled')
          /\ H(p) \in spoiled => \/ H(p) \in spoiled'
                                 \/ /\ keyring[H(p)] = proc[p].cred /\ settled[H(p)] = proc[p].before
                                    /\ UnderWay(H(p)) = {Written(p)}
       \/ /\ At(p, "adding") /\ intact' = [proc[p].pages EXCEPT ![H(p)] = proc[p].cred]
          /\ H(p) \in spoiled \/ keyring[H(p)] # NoCred => H(p) \in spoiled'
       \/ /\ Erasing(p) /\ Drops(p)
          /\ H(p) \in spoiled \/ intact'[H(p)] # NoCred => H(p) \in spoiled'

\* A write that is killed or fails half way.
Breaks(p) ==
    /\ Only(p) /\ UNCHANGED <<keyring, intact, file, complete, spoiled, idp>>
    /\ proc[p].step \in Writing /\ proc'[p].step \in Exited
    /\ settled' = [settled EXCEPT ![H(p)] = @ \cup {Written(p)}]

Event(p) == \/ Rests(p) \/ Carries(p) \/ Misses(p) \/ Finds(p) \/ Gets(p) \/ Effects(p)
            \/ Finishes(p) \/ Breaks(p)
Still == UNCHANGED <<proc, seen, creds, file, idp>>

-----------------------------------------------------------------------------
(* Every action is one of these events. *)

LEMMA Changed ==
    ASSUME NEW p \in Proc, DOMAIN proc = Proc, DOMAIN proc[p] = Fields,
           NEW change, DOMAIN change \subseteq Fields, Change(p, change)
    PROVE  /\ DOMAIN proc' = Proc /\ \A q \in Proc \ {p} : proc'[q] = proc[q]
           /\ DOMAIN proc'[p] = Fields
           /\ \A f \in Fields : proc'[p][f] = IF f \in DOMAIN change THEN change[f] ELSE proc[p][f]
  BY DEF Change, With

LEMMA Goes ==
    ASSUME NEW p \in Proc, DOMAIN proc = Proc, DOMAIN proc[p] = Fields, NEW step, Go(p, step)
    PROVE  /\ DOMAIN proc' = Proc /\ \A q \in Proc \ {p} : proc'[q] = proc[q]
           /\ DOMAIN proc'[p] = Fields /\ proc'[p].step = step
           /\ SameHand(p) /\ proc'[p].known = proc[p].known /\ proc'[p].pages = proc[p].pages
<1>1. Change(p, [step |-> step]) /\ DOMAIN [step |-> step] = {"step"} /\ [step |-> step].step = step
  BY DEF Go
<1> QED BY <1>1, Changed DEF Fields, SameHand, SameAsk

LEMMA Exits ==
    ASSUME NEW p \in Proc, DOMAIN proc = Proc, NEW how \in Exited, Ends(p, how)
    PROVE  /\ DOMAIN proc' = Proc /\ \A q \in Proc \ {p} : proc'[q] = proc[q]
           /\ proc'[p].step \in Exited /\ ProcTypes(p)'
<1>1. proc'[p] = [Idle EXCEPT !.step = how]
  BY DEF Ends
<1>2. DOMAIN proc'[p] = Fields /\ proc'[p].step = how
  BY <1>1 DEF Idle, Fields
<1> QED BY <1>2 DEF Ends, ProcTypes, Exited, HasCred, HasPages, New, Dropping, InSession, Early, Late, Writing, At

Steps == {"idle"} \cup Exited \cup InSession \cup InUpdate

LEMMA HostOf ==
    ASSUME ClientTypes, NEW p \in Proc, proc[p].step \in InSession
    PROVE  /\ proc[p].ask \in Ask /\ H(p) \in Host
           /\ keyring[H(p)] \in Cred \cup {NoCred} /\ intact[H(p)] \in Cred \cup {NoCred}
  BY DEF ClientTypes, ProcTypes, Ask, H, Contents

LEMMA ReadKeyringIs ==
    ASSUME ClientTypes, NEW p \in Proc, ReadKeyring(p), UNCHANGED <<hosts, idp, aged>>
    PROVE  Rests(p) \/ Misses(p) \/ Finds(p)
<1>1. At(p, "keyring") /\ proc[p].step \in InSession /\ DOMAIN proc = Proc /\ ProcTypes(p)
  BY DEF ReadKeyring, At, InSession, Early, ClientTypes
<1>2. UNCHANGED <<creds, file, idp>>
  BY DEF ReadKeyring, stores, creds, told, idp, Answered, Ends, Change
<1>3. CASE available /\ keyring[H(p)] # NoCred /\ keyring[H(p)].type = "broken"
  <2>1. Ends(p, "failed") /\ seen' = seen
    BY <1>3 DEF ReadKeyring, Answered
  <2> QED BY <1>1, <1>2, <2>1, Exits DEF Rests, Only, Exited, At, Writing, ClientTypes
<1>4. CASE available /\ keyring[H(p)] # NoCred /\ keyring[H(p)].type # "broken"
  <2> DEFINE c == [step |-> "found", cred |-> keyring[H(p)],
                   known |-> IF H(p) \in spoiled THEN {} ELSE complete]
  <2>1. Change(p, c) /\ seen' = seen
    BY <1>1, <1>4 DEF ReadKeyring, Answered
  <2>2. DOMAIN c = {"step", "cred", "known"} /\ DOMAIN c \subseteq Fields
    BY DEF Fields
  <2>3. c.step = "found" /\ c.cred = keyring[H(p)] /\ c.known = IF H(p) \in spoiled THEN {} ELSE complete
    OBVIOUS
  <2> HIDE DEF c
  <2>4. /\ DOMAIN proc' = Proc /\ \A q \in Proc \ {p} : proc'[q] = proc[q]
        /\ DOMAIN proc'[p] = Fields /\ proc'[p].step = "found" /\ proc'[p].ask = proc[p].ask
        /\ proc'[p].cred = keyring[H(p)] /\ proc'[p].known = IF H(p) \in spoiled THEN {} ELSE complete
    BY <1>1, <2>1, <2>2, <2>3, Changed DEF ProcTypes, Fields
  <2>5. ProcTypes(p)'
    BY <1>1, <1>4, <2>4, HostOf DEF ProcTypes, HasCred, HasPages, New, Dropping, IsLogout, Cmd, At, InSession, Early
  <2> QED BY <1>1, <1>2, <1>4, <2>1, <2>4, <2>5 DEF Finds, Only, SameAsk, At, ClientTypes
<1>5. CASE ~(available /\ keyring[H(p)] # NoCred)
  <2> DEFINE c == [step |-> "file", quiet |-> available, known |-> complete]
  <2>1. Change(p, c) /\ seen' = [seen EXCEPT ![p] = settled[H(p)] \cup UnderWay(H(p))]
    BY <1>5 DEF ReadKeyring
  <2>2. DOMAIN c = {"step", "quiet", "known"} /\ DOMAIN c \subseteq Fields
    BY DEF Fields
  <2>3. c.step = "file" /\ c.quiet = available /\ c.known = complete
    OBVIOUS
  <2> HIDE DEF c
  <2>4. /\ DOMAIN proc' = Proc /\ \A q \in Proc \ {p} : proc'[q] = proc[q]
        /\ DOMAIN proc'[p] = Fields /\ proc'[p].step = "file" /\ proc'[p].ask = proc[p].ask
        /\ proc'[p].quiet = available /\ proc'[p].known = complete
    BY <1>1, <2>1, <2>2, <2>3, Changed DEF ProcTypes, Fields
  <2>5. ProcTypes(p)'
    BY <1>1, <2>4 DEF ProcTypes, HasCred, HasPages, New, Dropping, IsLogout, Cmd, At, InSession, Early
  <2> QED BY <1>1, <1>2, <1>5, <2>1, <2>4, <2>5 DEF Misses, Only, SameAsk, At, ClientTypes
<1> QED BY <1>3, <1>4, <1>5

LEMMA ReadFileIs ==
    ASSUME ClientTypes, NEW p \in Proc, ReadFile(p), UNCHANGED <<hosts, idp, aged>>
    PROVE  Rests(p) \/ Finds(p)
<1>1. At(p, "file") /\ proc[p].step \in InSession /\ DOMAIN proc = Proc /\ ProcTypes(p)
  BY DEF ReadFile, At, InSession, Early, ClientTypes
<1>2. UNCHANGED <<creds, file, idp>> /\ DOMAIN seen' = Proc /\ \A q \in Proc \ {p} : seen'[q] = seen[q]
  BY DEF ReadFile, stores, creds, told, idp, ClientTypes
<1>3. CASE Ends(p, "failed")
  BY <1>1, <1>2, <1>3, Exits DEF Rests, Only, Exited, At, Writing, ClientTypes
<1>4. CASE Holds(p) /\ file # Unreadable /\ ~Ends(p, "failed")
  <2> DEFINE c == [step |-> "found", cred |-> file[H(p)],
                   known |-> IF H(p) \in spoiled THEN {} ELSE proc[p].known]
  <2>0. file = intact /\ file[H(p)] # NoCred
    BY <1>4 DEF Holds, ClientTypes
  <2>6. file[H(p)].type # "broken"
    BY <1>4 DEF ReadFile, Answered
  <2>1. Change(p, c)
    BY <1>1, <1>4 DEF ReadFile, Answered, At
  <2>2. DOMAIN c = {"step", "cred", "known"} /\ DOMAIN c \subseteq Fields
    BY DEF Fields
  <2>3. c.step = "found" /\ c.cred = file[H(p)] /\ c.known = IF H(p) \in spoiled THEN {} ELSE proc[p].known
    OBVIOUS
  <2> HIDE DEF c
  <2>4. /\ DOMAIN proc' = Proc /\ \A q \in Proc \ {p} : proc'[q] = proc[q]
        /\ DOMAIN proc'[p] = Fields /\ proc'[p].step = "found" /\ proc'[p].ask = proc[p].ask
        /\ proc'[p].cred = file[H(p)] /\ proc'[p].known = IF H(p) \in spoiled THEN {} ELSE proc[p].known
    <3>1. DOMAIN proc[p] = Fields
      BY <1>1 DEF ProcTypes
    <3>2. /\ DOMAIN proc' = Proc /\ \A q \in Proc \ {p} : proc'[q] = proc[q]
          /\ DOMAIN proc'[p] = Fields
          /\ \A f \in Fields : proc'[p][f] = IF f \in DOMAIN c THEN c[f] ELSE proc[p][f]
      BY <1>1, <2>1, <2>2, <3>1, Changed
    <3> QED BY <2>2, <2>3, <3>2 DEF Fields
  <2>5. ProcTypes(p)'
    BY <1>1, <2>0, <2>4, <2>6, HostOf DEF ProcTypes, HasCred, HasPages, New, Dropping, IsLogout, Cmd, At, InSession, Early
  <2> QED BY <1>1, <1>2, <2>0, <2>4, <2>5 DEF Finds, Only, SameAsk, At, ClientTypes
<1>5. CASE Go(p, "absent") /\ proc[p].quiet /\ intact[H(p)] = NoCred
  <2>1. /\ DOMAIN proc' = Proc /\ \A q \in Proc \ {p} : proc'[q] = proc[q]
        /\ DOMAIN proc'[p] = Fields /\ proc'[p].step = "absent" /\ SameAsk(p)
    BY <1>1, <1>5, Goes DEF ProcTypes, SameHand
  <2>2. ProcTypes(p)'
    BY <1>1, <2>1 DEF ProcTypes, HasCred, HasPages, New, Dropping, IsLogout, Cmd, SameAsk, At, InSession, Early
  <2> QED BY <1>1, <1>2, <1>5, <2>1, <2>2 DEF Rests, Only, Plain, Exited, At, Early, Late, Writing, InUpdate, ClientTypes
<1>6. file = Unreadable => ~Holds(p)
  BY DEF Holds
<1>7. ~Ends(p, "failed") => /\ file = intact /\ file # Unreadable
                            /\ Holds(p) \/ (Go(p, "absent") /\ proc[p].quiet)
  BY <1>6 DEF ReadFile, ClientTypes
<1>8. ~Holds(p) /\ file = intact /\ file # Unreadable => intact[H(p)] = NoCred
  BY DEF Holds
<1> QED BY <1>3, <1>4, <1>5, <1>7, <1>8

LEMMA FirstEffectIs ==
    ASSUME ClientTypes, NEW p \in Proc, NEW step, FirstEffect(p, [step |-> step])
    PROVE  /\ DOMAIN proc' = Proc /\ \A q \in Proc \ {p} : proc'[q] = proc[q]
           /\ DOMAIN proc'[p] = Fields /\ proc'[p].step = step
           /\ SameAsk(p) /\ proc'[p].cred = proc[p].cred /\ proc'[p].before = settled[H(p)]
           /\ seen' = [q \in Proc |-> IF q \in Readers(H(p)) THEN seen[q] \cup {Written(p)} ELSE seen[q]]
           /\ UNCHANGED <<intact, settled, complete>>
<1> DEFINE c == With([before |-> settled[H(p)]], [step |-> step])
<1>1. DOMAIN c = {"step", "before"} /\ c.step = step /\ c.before = settled[H(p)]
  BY DEF With
<1>2. Change(p, c)
  BY DEF FirstEffect
<1>3. DOMAIN proc = Proc /\ DOMAIN proc[p] = Fields /\ DOMAIN c \subseteq Fields
  BY <1>1 DEF ClientTypes, ProcTypes, Fields
<1> HIDE DEF c
<1> QED BY <1>1, <1>2, <1>3, Changed DEF Fields, SameAsk, FirstEffect

LEMMA SetKeyringIs ==
    ASSUME ClientTypes, NEW p \in Proc, SetKeyring(p), UNCHANGED <<hosts, idp, aged>>
    PROVE  Effects(p)
<1>1. At(p, "set") /\ proc[p].step \in InSession /\ DOMAIN proc = Proc /\ ProcTypes(p)
  BY DEF SetKeyring, At, InSession, ClientTypes
<1>2. UNCHANGED <<file, spoiled, idp>>
  BY DEF SetKeyring
<1>3. CASE available
  <2>1. keyring' = [keyring EXCEPT ![H(p)] = proc[p].cred] /\ FirstEffect(p, [step |-> "drop"])
    BY <1>3 DEF SetKeyring
  <2>3. /\ DOMAIN proc'[p] = Fields /\ proc'[p].step = "drop"
        /\ SameAsk(p) /\ proc'[p].cred = proc[p].cred
    BY <2>1, FirstEffectIs
  <2>2. ProcTypes(p)'
    BY <1>1, <2>3 DEF ProcTypes, SameAsk, HasCred, HasPages, New, Dropping, IsLogout, Cmd, At, InSession, Early, Writing
  <2> QED BY <1>1, <1>2, <2>1, <2>2, FirstEffectIs DEF Effects, At
<1>4. CASE ~available
  <2>1. UNCHANGED keyring /\ FirstEffect(p, [step |-> "add"])
    BY <1>4 DEF SetKeyring
  <2>3. /\ DOMAIN proc'[p] = Fields /\ proc'[p].step = "add"
        /\ SameAsk(p) /\ proc'[p].cred = proc[p].cred
    BY <2>1, FirstEffectIs
  <2>2. ProcTypes(p)'
    BY <1>1, <2>3 DEF ProcTypes, SameAsk, HasCred, HasPages, New, Dropping, IsLogout, Cmd, At, InSession, Early, Writing
  <2> QED BY <1>1, <1>2, <2>1, <2>2, FirstEffectIs DEF Effects, At
<1> QED BY <1>3, <1>4

LEMMA UnsetKeyringIs ==
    ASSUME ClientTypes, NEW p \in Proc, UnsetKeyring(p), UNCHANGED <<hosts, idp, aged>>
    PROVE  Effects(p)
<1>1. At(p, "unset") /\ proc[p].step \in InSession /\ DOMAIN proc = Proc /\ ProcTypes(p)
  BY DEF UnsetKeyring, At, InSession, ClientTypes
<1>2. UNCHANGED <<file, idp>> /\ FirstEffect(p, [step |-> "erase"])
  BY DEF UnsetKeyring
<1>6. DOMAIN proc'[p] = Fields /\ proc'[p].step = "erase" /\ SameAsk(p)
  BY <1>2, FirstEffectIs
<1>3. ProcTypes(p)'
  BY <1>1, <1>6 DEF ProcTypes, SameAsk, HasCred, HasPages, New, Dropping, IsLogout, Cmd, At, InSession, Early, Writing
<1>4. CASE available
  BY <1>1, <1>2, <1>3, <1>4, FirstEffectIs DEF UnsetKeyring, Effects, At
<1>5. CASE ~available
  BY <1>1, <1>2, <1>3, <1>5, FirstEffectIs DEF UnsetKeyring, Effects, At
<1> QED BY <1>4, <1>5

-----------------------------------------------------------------------------
(* The writes of the file. *)

LEMMA ReadsIs ==
    ASSUME ClientTypes, NEW p \in Proc, NEW next, Reads(p, next), file # Unreadable,
           UNCHANGED <<hosts, idp, aged>>,
           <<proc[p].step, next>> \in {<<"drop", "dropping">>, <<"add", "adding">>, <<"erase", "erasing">>}
    PROVE  Carries(p)
<1> DEFINE c == [pages |-> file, step |-> next]
<1>0. /\ DOMAIN proc = Proc /\ ProcTypes(p) /\ file = intact /\ intact \in Contents
      /\ \/ At(p, "drop") /\ next = "dropping"
         \/ At(p, "add") /\ next = "adding"
         \/ At(p, "erase") /\ next = "erasing"
  BY DEF ClientTypes, At
<1>1. Change(p, c) /\ DOMAIN c = {"pages", "step"} /\ DOMAIN c \subseteq Fields /\ c.pages = file /\ c.step = next
  BY DEF Reads, Fields
<1> HIDE DEF c
<1>2. /\ DOMAIN proc' = Proc /\ \A q \in Proc \ {p} : proc'[q] = proc[q]
      /\ DOMAIN proc'[p] = Fields /\ proc'[p].step = next /\ proc'[p].pages = intact
      /\ SameHand(p) /\ proc'[p].known = proc[p].known
  BY <1>0, <1>1, Changed DEF ProcTypes, Fields, SameHand, SameAsk
<1>3. ProcTypes(p)'
  BY <1>0, <1>2 DEF ProcTypes, SameHand, SameAsk, HasCred, HasPages, New, Dropping, IsLogout, Cmd, At, InSession, Early, Writing
<1>4. UNCHANGED <<creds, file, seen, idp>>
  BY DEF Reads, stores, history, creds, told
<1> QED BY <1>0, <1>2, <1>3, <1>4 DEF Carries, Only, At, ClientTypes, creds, told

LEMMA CutFileIs ==
    ASSUME ClientTypes, NEW p \in Proc, CutFile(p), UNCHANGED <<hosts, idp, aged>>
    PROVE  Carries(p)
<1>1. /\ DOMAIN proc = Proc /\ ProcTypes(p) /\ Go(p, "refill")
      /\ At(p, "dropping") \/ At(p, "erasing")
  BY DEF CutFile, ClientTypes, At
<1>2. /\ DOMAIN proc' = Proc /\ \A q \in Proc \ {p} : proc'[q] = proc[q]
      /\ DOMAIN proc'[p] = Fields /\ proc'[p].step = "refill"
      /\ SameHand(p) /\ proc'[p].known = proc[p].known /\ proc'[p].pages = proc[p].pages
  BY <1>1, Goes DEF ProcTypes
<1>3. ProcTypes(p)'
  BY <1>1, <1>2 DEF ProcTypes, SameHand, SameAsk, HasCred, HasPages, New, Dropping, IsLogout, Cmd, At, InSession, Early, Writing
<1>4. UNCHANGED <<creds, seen, idp>> /\ file' = Unreadable
  BY DEF CutFile, history, creds, told
<1> QED BY <1>1, <1>2, <1>3, <1>4 DEF Carries, Only, At, ClientTypes, creds, told

LEMMA DoneIs ==
    ASSUME ClientTypes, NEW p \in Proc, NEW kept, Done(p, kept), UNCHANGED idp,
           intact' \in Contents, file' \in {intact', Unreadable},
           \/ kept = "keyring" /\ Dropping(p) /\ Drops(p)
           \/ kept = "file" /\ At(p, "adding") /\ intact' = [proc[p].pages EXCEPT ![H(p)] = proc[p].cred]
           \/ kept = NoEntry /\ Erasing(p) /\ Drops(p),
           kept # "file" /\ intact'[H(p)] # NoCred => DeletionMisses(p)
    PROVE  Finishes(p)
<1> DEFINE c == [step |-> Continue(p), kept |-> kept, pages |-> NoCred, before |-> {}]
<1>1. /\ DOMAIN proc = Proc /\ ProcTypes(p) /\ proc[p].step \in Writing /\ proc[p].step \in InSession
  BY DEF ClientTypes, Dropping, Erasing, At, Writing, InSession
<1>2. Change(p, c) /\ DOMAIN c = {"step", "kept", "pages", "before"} /\ DOMAIN c \subseteq Fields /\ c.step = Continue(p)
  BY DEF Done, Fields
<1>3. /\ complete' = complete \cup {p} /\ UNCHANGED <<keyring, seen>>
      /\ settled' = [settled EXCEPT ![H(p)] = (@ \ proc[p].before) \cup {Written(p)}]
  BY DEF Done
<1> HIDE DEF c
<1>4. /\ DOMAIN proc' = Proc /\ \A q \in Proc \ {p} : proc'[q] = proc[q]
      /\ DOMAIN proc'[p] = Fields /\ proc'[p].step = Continue(p) /\ SameAsk(p)
  BY <1>1, <1>2, Changed DEF ProcTypes, Fields, SameAsk
<1>5. Continue(p) \in {"hosts", "config", "call"}
  BY DEF Continue
<1>6. ProcTypes(p)'
  <2>1. proc[p].ask \in Ask
    BY <1>1 DEF ProcTypes
  <2> QED BY <1>4, <1>5, <2>1 DEF ProcTypes, SameAsk, HasCred, HasPages, New, Dropping, IsLogout, Cmd, At, InSession, Early, Late, Writing
<1>7. H(p) \in Host
  BY <1>1, HostOf
<1> DEFINE behind == IF kept = "file" THEN keyring[H(p)] # NoCred ELSE intact'[H(p)] # NoCred /\ DeletionMisses(p)
           alone == /\ kept = "keyring" /\ keyring[H(p)] = proc[p].cred
                    /\ UnderWay(H(p)) = {Written(p)} /\ settled[H(p)] = proc[p].before
<1>8. spoiled' = (spoiled \ {g \in {H(p)} : alone}) \cup Undone(p) \cup {g \in {H(p)} : behind}
  <2>1. Undone(p) = {g \in Host \ {H(p)} : intact'[g] # intact[g] /\ intact'[g] = proc[p].pages[g]}
    <3>1. HasPages(p) => proc[p].pages \in Contents
      BY <1>1 DEF ProcTypes
    <3>2. At(p, "adding") => HasPages(p)
      BY DEF At, HasPages
    <3>3. ASSUME NEW g \in Host \ {H(p)}, intact'[g] # intact[g] PROVE intact'[g] = proc[p].pages[g]
      BY <3>1, <3>2, <3>3 DEF Drops, Without, Contents
    <3> QED BY <3>3 DEF Undone
  <2> QED BY <2>1 DEF Done
<1>9. /\ spoiled' \subseteq Host /\ Undone(p) \subseteq spoiled'
      /\ \A h \in Host \ {H(p)} : h \in spoiled => h \in spoiled'
      /\ behind => H(p) \in spoiled'
      /\ H(p) \in spoiled => H(p) \in spoiled' \/ alone
  BY <1>7, <1>8 DEF ClientTypes, Undone
<1> HIDE DEF behind
<1>10. CASE kept = "keyring" /\ Dropping(p) /\ Drops(p)
  <2>1. intact'[H(p)] # NoCred => behind
    BY <1>10 DEF behind
  <2> QED BY <1>1, <1>3, <1>4, <1>6, <1>9, <1>10, <2>1 DEF Finishes, Only, ClientTypes
<1>11. CASE kept = "file" /\ At(p, "adding") /\ intact' = [proc[p].pages EXCEPT ![H(p)] = proc[p].cred]
  <2>1. (keyring[H(p)] # NoCred => behind) /\ ~alone
    BY <1>11 DEF behind
  <2> QED BY <1>1, <1>3, <1>4, <1>6, <1>9, <1>11, <2>1 DEF Finishes, Only, ClientTypes
<1>12. CASE kept = NoEntry /\ Erasing(p) /\ Drops(p)
  <2>1. (intact'[H(p)] # NoCred => behind) /\ ~alone
    BY <1>12, MarksAreNew DEF behind
  <2> QED BY <1>1, <1>3, <1>4, <1>6, <1>9, <1>12, <2>1 DEF Finishes, Only, ClientTypes
<1> QED BY <1>10, <1>11, <1>12

LEMMA DropCopyIs ==
    ASSUME ClientTypes, NEW p \in Proc, DropCopy(p), UNCHANGED <<hosts, idp, aged>>
    PROVE  Carries(p) \/ Finishes(p)
<1>1. CASE Holds(p)
  BY <1>1, ReadsIs DEF DropCopy, Holds, At
<1>2. CASE ~Holds(p)
  <2>1. At(p, "drop") /\ UNCHANGED <<file, openers, intact>> /\ Done(p, "keyring")
    BY <1>2 DEF DropCopy
  <2>2. intact[H(p)] # NoCred => DeletionMisses(p)
    BY <1>2, <2>1 DEF DeletionMisses, Holds, ClientTypes
  <2>3. Dropping(p) /\ Drops(p) /\ intact' = intact
    BY <2>1 DEF Dropping, Drops, At
  <2> QED BY <2>1, <2>2, <2>3, DoneIs DEF ClientTypes
<1> QED BY <1>1, <1>2

LEMMA LoadToAddIs ==
    ASSUME ClientTypes, NEW p \in Proc, LoadToAdd(p), UNCHANGED <<hosts, idp, aged>>
    PROVE  Carries(p) \/ Rests(p)
<1>1. CASE file # Unreadable
  BY <1>1, ReadsIs DEF LoadToAdd, At
<1>2. CASE file = Unreadable
  <2>1. At(p, "add") /\ Ends(p, "failed") /\ UNCHANGED <<creds, file, idp, seen>>
    BY <1>2 DEF LoadToAdd, stores, history, creds, told
  <2> QED BY <2>1, Exits DEF Rests, Only, Exited, At, Writing, ClientTypes
<1> QED BY <1>1, <1>2

LEMMA LoadToEraseIs ==
    ASSUME ClientTypes, NEW p \in Proc, LoadToErase(p), UNCHANGED <<hosts, idp, aged>>
    PROVE  Carries(p) \/ Breaks(p) \/ Finishes(p)
<1>1. CASE Holds(p)
  BY <1>1, ReadsIs DEF LoadToErase, Holds, At
<1>2. CASE ~Holds(p) /\ file = Unreadable
  <2>1. /\ At(p, "erase") /\ Ends(p, "failed") /\ UNCHANGED <<keyring, intact, file, complete, spoiled, idp, seen>>
        /\ settled' = [settled EXCEPT ![H(p)] = @ \cup {Written(p)}]
    BY <1>2 DEF LoadToErase, stores
  <2> QED BY <2>1, Exits DEF Breaks, Only, Exited, At, Writing, ClientTypes
<1>3. CASE ~Holds(p) /\ file # Unreadable
  <2>1. At(p, "erase") /\ UNCHANGED <<file, openers, intact>> /\ Done(p, NoEntry)
    BY <1>3 DEF LoadToErase
  <2>2. intact' = intact /\ intact[H(p)] = NoCred
    BY <1>3, <2>1 DEF Holds, ClientTypes
  <2>3. Erasing(p) /\ Drops(p)
    BY <2>1 DEF Erasing, Drops, At
  <2> QED BY <2>1, <2>2, <2>3, DoneIs DEF ClientTypes
<1> QED BY <1>1, <1>2, <1>3

LEMMA ReplaceFileIs ==
    ASSUME ClientTypes, NEW p \in Proc, ReplaceFile(p), UNCHANGED <<hosts, idp, aged>>
    PROVE  Finishes(p)
<1>1. /\ At(p, "adding") /\ intact' = [proc[p].pages EXCEPT ![H(p)] = proc[p].cred]
      /\ file' = intact' /\ Done(p, "file")
  BY DEF ReplaceFile
<1>2. proc[p].pages \in Contents /\ proc[p].cred \in Cred
  BY <1>1 DEF ClientTypes, ProcTypes, HasPages, HasCred, New, At
<1>3. intact' \in Contents
  BY <1>1, <1>2 DEF Contents
<1> QED BY <1>1, <1>3, DoneIs

LEMMA WithoutIs ==
    ASSUME ClientTypes, NEW p \in Proc, HasPages(p)
    PROVE  /\ Without(p) \in Contents
           /\ proc[p].step \in {"dropping", "refill"} /\ ~IsLogout(p) => Keeps(p) = "keyring" /\ Dropping(p)
           /\ proc[p].step \in {"erasing", "refill"} /\ IsLogout(p) => Keeps(p) = NoEntry /\ Erasing(p)
           /\ At(p, "dropping") => ~IsLogout(p)
           /\ At(p, "erasing") => IsLogout(p)
           /\ Without(p)[H(p)] = NoCred
<1>1. proc[p].pages \in Contents /\ H(p) \in Host
  BY HostOf DEF HasPages, ClientTypes, ProcTypes, InSession, Writing
<1>2. Without(p) \in Contents /\ Without(p)[H(p)] = NoCred
  BY <1>1 DEF Without, Contents
<1> QED BY <1>2 DEF ClientTypes, ProcTypes, Keeps, Dropping, Erasing, IsLogout, Cmd, At

LEMMA RemoveFileIs ==
    ASSUME ClientTypes, NEW p \in Proc, RemoveFile(p), UNCHANGED <<hosts, idp, aged>>
    PROVE  Finishes(p)
<1>1. /\ proc[p].step \in {"dropping", "erasing"} /\ HasPages(p)
      /\ intact' = Without(p) /\ file' = intact' /\ Done(p, Keeps(p))
  BY DEF RemoveFile, HasPages
<1>2. intact' \in Contents /\ Drops(p) /\ intact'[H(p)] = NoCred
  BY <1>1, WithoutIs DEF Drops
<1>3. \/ Keeps(p) = "keyring" /\ Dropping(p)
      \/ Keeps(p) = NoEntry /\ Erasing(p)
  BY <1>1, WithoutIs DEF At
<1> QED BY <1>1, <1>2, <1>3, DoneIs

LEMMA RefillFileIs ==
    ASSUME ClientTypes, NEW p \in Proc, RefillFile(p), UNCHANGED <<hosts, idp, aged>>
    PROVE  Finishes(p)
<1>1. At(p, "refill") /\ HasPages(p) /\ Done(p, Keeps(p))
  BY DEF RefillFile, HasPages, At
<1>2. /\ intact' \in Contents /\ Drops(p) /\ file' \in {intact', Unreadable}
      /\ intact'[H(p)] # NoCred => DeletionMisses(p)
  <2>1. CASE p \notin openers
    BY <1>1, <2>1 DEF RefillFile, Drops, ClientTypes, DeletionMisses
  <2>2. CASE p \in openers
    BY <1>1, <2>2, WithoutIs DEF RefillFile, Drops, ClientTypes
  <2> QED BY <2>1, <2>2
<1>3. \/ Keeps(p) = "keyring" /\ Dropping(p)
      \/ Keeps(p) = NoEntry /\ Erasing(p)
  BY <1>1, WithoutIs DEF At
<1> QED BY <1>1, <1>2, <1>3, DoneIs

-----------------------------------------------------------------------------
(* The commands around the stores. *)

LEMMA EndsRests ==
    ASSUME ClientTypes, NEW p \in Proc, NEW how \in Exited, Ends(p, how), UNCHANGED <<creds, file, idp>>,
           DOMAIN seen' = Proc, \A q \in Proc \ {p} : seen'[q] = seen[q],
           proc[p].step \notin Exited \cup (Writing \ {"add", "adding"})
    PROVE  Rests(p)
  BY Exits DEF Rests, Only, ClientTypes

LEMMA MovesOn ==
    ASSUME ClientTypes, NEW p \in Proc, NEW c, Change(p, c), DOMAIN c \subseteq Fields \ {"ask"},
           "step" \in DOMAIN c, c.step \in Plain \ {"idle", "unset"},
           c.step \in InSession => proc[p].step \in InSession,
           c.step \in Early \ {"config"} => ~IsLogout(p),
           UNCHANGED <<creds, file, idp, seen>>,
           proc[p].step \in (Early \ {"keyring", "file"}) \cup Late \cup InUpdate,
           c.step \in InUpdate => proc[p].step \in InUpdate,
           proc[p].step \in Late => c.step \in Late,
           proc[p].step \in {"call", "call by id"} => c.step \in {"call", "call by id"},
           At(p, "config") /\ IsLogout(p) => c.step \in Late
    PROVE  Rests(p)
<1>1. DOMAIN proc = Proc /\ ProcTypes(p)
  BY DEF ClientTypes
<1>2. /\ DOMAIN proc' = Proc /\ \A q \in Proc \ {p} : proc'[q] = proc[q]
      /\ DOMAIN proc'[p] = Fields /\ proc'[p].step = c.step /\ SameAsk(p)
  <2>1. DOMAIN proc[p] = Fields
    BY <1>1 DEF ProcTypes
  <2>2. /\ DOMAIN proc' = Proc /\ \A q \in Proc \ {p} : proc'[q] = proc[q]
        /\ DOMAIN proc'[p] = Fields
        /\ \A f \in Fields : proc'[p][f] = IF f \in DOMAIN c THEN c[f] ELSE proc[p][f]
    BY <1>1, <2>1, Changed
  <2> QED BY <2>2 DEF Fields, SameAsk
<1>3. c.step \notin {"file", "found", "refresh", "set", "unset"} \cup Writing
  BY DEF Plain, Late, InUpdate, Writing
<1>4. ~HasCred(p)' /\ ~HasPages(p)'
  BY <1>2, <1>3 DEF HasCred, HasPages, New, Dropping, At, Writing
<1>5. ProcTypes(p)'
  BY <1>1, <1>2, <1>3, <1>4 DEF ProcTypes, SameAsk, IsLogout, Cmd, At, Plain, InSession, Early, Writing
<1>6. proc[p].step \notin Exited \cup (Writing \ {"add", "adding"})
  BY DEF Early, Late, InUpdate, Exited, Writing
<1>7. proc[p].step \in Early \cup Late \cup InUpdate /\ ~At(p, "keyring") /\ ~At(p, "file")
  BY DEF Early, Late, InUpdate, At
<1> QED BY <1>2, <1>5, <1>6, <1>7 DEF Rests, Only, ClientTypes

LEMMA GoesOn ==
    ASSUME ClientTypes, NEW p \in Proc, NEW step, Go(p, step), step \in Plain \ {"idle", "unset"},
           step \in InSession => proc[p].step \in InSession,
           step \in Early \ {"config"} => ~IsLogout(p),
           UNCHANGED <<creds, file, idp, seen>>,
           proc[p].step \in (Early \ {"keyring", "file"}) \cup Late \cup InUpdate,
           step \in InUpdate => proc[p].step \in InUpdate,
           proc[p].step \in Late => step \in Late,
           proc[p].step \in {"call", "call by id"} => step \in {"call", "call by id"},
           At(p, "config") /\ IsLogout(p) => step \in Late
    PROVE  Rests(p)
<1> DEFINE c == [step |-> step]
<1>1. Change(p, c) /\ DOMAIN c = {"step"} /\ c.step = step
  BY DEF Go
<1>2. DOMAIN c \subseteq Fields \ {"ask"} /\ "step" \in DOMAIN c
  BY <1>1 DEF Fields
<1> HIDE DEF c
<1> QED BY <1>1, <1>2, MovesOn

session == <<stores, available, history, budget, hosts, idpVars, aged>>
LEMMA SessionSame ==
    ASSUME UNCHANGED session PROVE UNCHANGED <<creds, file, seen, idp>>
  BY DEF session, stores, history, idpVars, creds, told, idp

LEMMA LoadConfigIs == ASSUME ClientTypes, NEW p \in Proc, LoadConfig(p) PROVE Rests(p)
<1> DEFINE c == [cfg |-> hosts, step |-> IF proc[p].ask.cmd = "logout" THEN "hosts"
                                         ELSE IF proc[p].ask.force THEN "mode" ELSE "keyring"]
<1>1. At(p, "config") /\ Change(p, c) /\ UNCHANGED <<creds, file, seen, idp>>
  BY SessionSame DEF LoadConfig, session
<1>2. DOMAIN c = {"cfg", "step"} /\ DOMAIN c \subseteq Fields \ {"ask"}
  BY DEF Fields
<1>3. IF IsLogout(p) THEN c.step = "hosts" ELSE c.step \in {"mode", "keyring"}
  BY DEF IsLogout, Cmd
<1> HIDE DEF c
<1> QED BY <1>1, <1>2, <1>3, MovesOn DEF At, Plain, Early, Late, InUpdate, InSession

LEMMA FoundIs == ASSUME ClientTypes, NEW p \in Proc, Found(p) PROVE Rests(p) \/ Carries(p)
<1>1. At(p, "found") /\ ~IsLogout(p) /\ UNCHANGED <<creds, file, seen, idp>> /\ DOMAIN proc = Proc /\ ProcTypes(p)
  BY SessionSame DEF Found, session, ClientTypes, ProcTypes, At, Early
<1>2. CASE Ends(p, "failed")
  BY <1>1, <1>2, EndsRests DEF Exited, At, Writing, ClientTypes
<1>3. CASE Go(p, "call")
  BY <1>1, <1>3, GoesOn DEF At, Plain, Early, Late, InUpdate, InSession
<1>4. CASE Go(p, "refresh") /\ proc[p].cred.refresh # 0 /\ Cmd(p) # "login"
  <2>1. /\ DOMAIN proc' = Proc /\ \A q \in Proc \ {p} : proc'[q] = proc[q]
        /\ DOMAIN proc'[p] = Fields /\ proc'[p].step = "refresh"
        /\ SameHand(p) /\ proc'[p].known = proc[p].known
    BY <1>1, <1>4, Goes DEF ProcTypes
  <2>2. proc[p].cred \in Cred /\ proc[p].ask \in Ask
    BY <1>1 DEF ProcTypes, HasCred, At, InSession, Early
  <2>3. ProcTypes(p)'
    BY <1>1, <1>4, <2>1, <2>2 DEF ProcTypes, SameHand, SameAsk, HasCred, HasPages, New, Dropping, IsLogout, Cmd, At, InSession, Early, Writing
  <2> QED BY <1>1, <2>1, <2>3 DEF Carries, Only, At, ClientTypes, creds, told
<1>5. Ends(p, "failed") \/ Go(p, "call") \/ (Go(p, "refresh") /\ proc[p].cred.refresh # 0 /\ Cmd(p) # "login")
  <2>1. proc[p].cred.type \in {"oauth", "api_key", "broken"}
    BY <1>1 DEF ProcTypes, HasCred, At, Cred
  <2>2. CASE Cmd(p) = "login"
    BY <1>1, <2>2 DEF Found, Cmd
  <2>3. CASE Cmd(p) # "login" /\ proc[p].cred.type = "api_key"
    BY <1>1, <2>3 DEF Found, Cmd
  <2>4. CASE Cmd(p) # "login" /\ proc[p].cred.type = "oauth"
    BY <1>1, <2>4 DEF Found, Cmd
  <2> QED BY <1>1, <2>1, <2>2, <2>3, <2>4 DEF ProcTypes
<1> QED BY <1>2, <1>3, <1>4, <1>5

LEMMA AbsentIs == ASSUME ClientTypes, NEW p \in Proc, Absent(p) PROVE Rests(p)
<1>1. At(p, "absent") /\ ~IsLogout(p) /\ UNCHANGED <<creds, file, seen, idp>>
  BY SessionSame DEF Absent, session, ClientTypes, ProcTypes, At, Early
<1>2. CASE Ends(p, "failed")
  BY <1>1, <1>2, EndsRests DEF Exited, At, Writing, ClientTypes
<1>3. CASE Go(p, "mode")
  BY <1>1, <1>3, GoesOn DEF At, Plain, Early, Late, InUpdate, InSession
<1> QED BY <1>2, <1>3 DEF Absent

LEMMA ChooseModeIs == ASSUME ClientTypes, NEW p \in Proc, ChooseMode(p) PROVE Rests(p)
<1> DEFINE c == [step |-> "poll", left |-> ExpiresIn,
                 interval |-> IF issuer.interval <= 0 THEN 5 ELSE issuer.interval]
<1>1. At(p, "mode") /\ ~IsLogout(p) /\ UNCHANGED <<creds, file, seen, idp>>
  BY SessionSame DEF ChooseMode, session, ClientTypes, ProcTypes, At, Early
<1>2. DOMAIN c = {"step", "left", "interval"} /\ DOMAIN c \subseteq Fields \ {"ask"} /\ c.step = "poll"
  BY DEF Fields
<1>3. Change(p, c) \/ Go(p, "prompt") \/ Ends(p, "failed")
  BY DEF ChooseMode
<1> HIDE DEF c
<1>4. CASE Ends(p, "failed")
  BY <1>1, <1>4, EndsRests DEF Exited, At, Writing, ClientTypes
<1>5. CASE Go(p, "prompt")
  BY <1>1, <1>5, GoesOn DEF At, Plain, Early, Late, InUpdate, InSession
<1>6. CASE Change(p, c)
  BY <1>1, <1>2, <1>6, MovesOn DEF At, Plain, Early, Late, InUpdate, InSession
<1> QED BY <1>3, <1>4, <1>5, <1>6

LEMMA SleepIs == ASSUME ClientTypes, NEW p \in Proc, Sleep(p) PROVE Rests(p)
<1> DEFINE c == [step |-> "poll token", left |-> Wait(p)]
<1>1. At(p, "poll") /\ ~IsLogout(p) /\ UNCHANGED <<creds, file, seen, idp>>
  BY SessionSame DEF Sleep, session, ClientTypes, ProcTypes, At, Early
<1>2. DOMAIN c = {"step", "left"} /\ DOMAIN c \subseteq Fields \ {"ask"} /\ c.step = "poll token"
  BY DEF Fields
<1>3. Change(p, c) \/ Ends(p, "failed")
  BY DEF Sleep
<1> HIDE DEF c
<1>4. CASE Ends(p, "failed")
  BY <1>1, <1>4, EndsRests DEF Exited, At, Writing, ClientTypes
<1>6. CASE Change(p, c)
  BY <1>1, <1>2, <1>6, MovesOn DEF At, Plain, Early, Late, InUpdate, InSession
<1> QED BY <1>3, <1>4, <1>6

\* A new credential in hand.
LEMMA NewInHand ==
    ASSUME ClientTypes, NEW p \in Proc, NEW c, Change(p, c), DOMAIN c \subseteq Fields \ {"ask"},
           "step" \in DOMAIN c, "cred" \in DOMAIN c, c.step = "set", c.cred \in Cred,
           proc[p].step \in {"prompt", "poll token", "refresh"}
    PROVE  /\ DOMAIN proc' = Proc /\ \A q \in Proc \ {p} : proc'[q] = proc[q]
           /\ ProcTypes(p)' /\ At(p, "set")' /\ SameAsk(p) /\ proc'[p].cred = c.cred
<1>1. DOMAIN proc = Proc /\ ProcTypes(p) /\ ~IsLogout(p) /\ proc[p].ask \in Ask
  BY DEF ClientTypes, ProcTypes, Early, InSession
<1>2. /\ DOMAIN proc' = Proc /\ \A q \in Proc \ {p} : proc'[q] = proc[q]
      /\ DOMAIN proc'[p] = Fields /\ proc'[p].step = "set" /\ SameAsk(p) /\ proc'[p].cred = c.cred
  BY <1>1, Changed DEF ProcTypes, Fields, SameAsk
<1>3. ProcTypes(p)'
  BY <1>1, <1>2 DEF ProcTypes, SameAsk, HasCred, HasPages, New, Dropping, IsLogout, Cmd, At, InSession, Early, Writing
<1> QED BY <1>2, <1>3 DEF At

LEMMA PasteKeyIs == ASSUME ClientTypes, NEW p \in Proc, PasteKey(p) PROVE Rests(p) \/ Gets(p)
<1> DEFINE k == [by |-> p, type |-> "api_key", access |-> 0, refresh |-> 0, expires |-> 0]
           c == [step |-> "set", cred |-> k]
<1>1. At(p, "prompt") /\ UNCHANGED <<creds, file, seen, idp>>
  BY SessionSame DEF PasteKey, session
<1>2. /\ DOMAIN c = {"step", "cred"} /\ DOMAIN c \subseteq Fields \ {"ask"} /\ c.step = "set" /\ c.cred = k
      /\ k \in Cred /\ k.refresh = 0 /\ k.by = p
  BY DEF Fields, Cred
<1>3. Change(p, c) \/ Ends(p, "failed")
  BY DEF PasteKey
<1> HIDE DEF c, k
<1>4. CASE Ends(p, "failed")
  BY <1>1, <1>4, EndsRests DEF Exited, At, Writing, ClientTypes
<1>5. CASE Change(p, c)
  BY <1>1, <1>2, <1>5, NewInHand DEF Gets, Only, At, ClientTypes
<1> QED BY <1>3, <1>4, <1>5

LEMMA Updated ==
    ASSUME NEW c \in Cred, NEW old \in Nat, NEW p \in Proc, issued \in Nat
    PROVE  LET u == UpdateCredential(c, TokenResponse(old), p)
           IN  /\ u \in Cred /\ u.by = p
               /\ u.refresh = IF old = 0 \/ issuer.rotates THEN issued + 1 ELSE c.refresh
<1> DEFINE tok == TokenResponse(old)
<1>1. /\ tok.access = issued + 1 /\ tok.expires \in {0, issued + 1}
      /\ tok.refresh = IF old = 0 \/ issuer.rotates THEN issued + 1 ELSE 0
  BY DEF TokenResponse
<1>2. issued + 1 # 0 /\ issued + 1 \in Nat
  OBVIOUS
<1> HIDE DEF tok
<1>3. UpdateCredential(c, tok, p) = [c EXCEPT !.by = p, !.access = tok.access,
                                     !.refresh = IF tok.refresh # 0 THEN tok.refresh ELSE c.refresh,
                                     !.expires = IF tok.expires # 0 THEN tok.expires ELSE c.expires]
  BY DEF UpdateCredential, Cred
<1>4. UpdateCredential(c, tok, p) \in Cred
  BY <1>1, <1>2, <1>3 DEF Cred
<1> QED BY <1>1, <1>2, <1>3, <1>4 DEF Cred, tok

LEMMA PollTokenIs == ASSUME ClientTypes, NEW p \in Proc, PollToken(p) PROVE Rests(p) \/ Gets(p)
<1> DEFINE k == UpdateCredential(NewCredential(p), TokenResponse(0), p)
           c == [step |-> "set", left |-> 0, interval |-> 0, cred |-> k]
           d == [step |-> "poll", interval |-> proc[p].interval + 5]
<1>1. At(p, "poll token") /\ ~IsLogout(p) /\ UNCHANGED <<creds, file, seen>>
  BY DEF PollToken, stores, history, creds, told, ClientTypes, ProcTypes, At, Early
<1>2. NewCredential(p) \in Cred /\ issued \in Nat
  BY DEF NewCredential, Cred, ClientTypes
<1>3. k \in Cred /\ k.by = p /\ k.refresh = issued + 1
  BY <1>2, Updated
<1>4. DOMAIN c = {"step", "left", "interval", "cred"} /\ DOMAIN c \subseteq Fields \ {"ask"} /\ c.step = "set" /\ c.cred = k
  BY DEF Fields
<1>5. DOMAIN d = {"step", "interval"} /\ DOMAIN d \subseteq Fields \ {"ask"} /\ d.step = "poll"
  BY DEF Fields
<1>6. \/ Grant(p, 0) /\ Change(p, c)
      \/ (Go(p, "poll") \/ Change(p, d) \/ Ends(p, "failed")) /\ UNCHANGED idp
  BY DEF PollToken, idpVars, idp
<1> HIDE DEF c, d, k
<1>7. CASE Grant(p, 0) /\ Change(p, c)
  BY <1>1, <1>3, <1>4, <1>7, NewInHand DEF Gets, Only, At, ClientTypes
<1>8. CASE Go(p, "poll") /\ UNCHANGED idp
  BY <1>1, <1>8, GoesOn DEF At, Plain, Early, Late, InUpdate, InSession
<1>9. CASE Change(p, d) /\ UNCHANGED idp
  BY <1>1, <1>5, <1>9, MovesOn DEF At, Plain, Early, Late, InUpdate, InSession
<1>10. CASE Ends(p, "failed") /\ UNCHANGED idp
  BY <1>1, <1>10, EndsRests DEF Exited, At, Writing, ClientTypes
<1> QED BY <1>6, <1>7, <1>8, <1>9, <1>10

LEMMA RefreshGrantedIs == ASSUME ClientTypes, NEW p \in Proc, RefreshGranted(p) PROVE Gets(p)
<1> DEFINE k == UpdateCredential(proc[p].cred, TokenResponse(proc[p].cred.refresh), p)
           c == [step |-> "set", cred |-> k]
<1>1. /\ At(p, "refresh") /\ proc[p].cred.refresh \in live /\ Grant(p, proc[p].cred.refresh)
      /\ UNCHANGED <<creds, file, seen>> /\ Change(p, c)
  BY DEF RefreshGranted, stores, history, creds, told
<1>2. proc[p].cred \in Cred /\ proc[p].cred.refresh \in Nat /\ proc[p].cred.refresh # 0 /\ issued \in Nat
  BY <1>1 DEF ClientTypes, ProcTypes, HasCred, Cred, At
<1>3. k \in Cred /\ k.by = p /\ k.refresh = IF issuer.rotates THEN issued + 1 ELSE proc[p].cred.refresh
  BY <1>2, Updated
<1>4. DOMAIN c = {"step", "cred"} /\ DOMAIN c \subseteq Fields \ {"ask"} /\ c.step = "set" /\ c.cred = k
  BY DEF Fields
<1> HIDE DEF c, k
<1> QED BY <1>1, <1>3, <1>4, NewInHand DEF Gets, Only, At, ClientTypes

LEMMA RefreshRefusedIs == ASSUME ClientTypes, NEW p \in Proc, RefreshRefused(p) PROVE Rests(p)
  BY SessionSame, EndsRests DEF RefreshRefused, session, Exited, At, Writing, ClientTypes

LEMMA RemoteFailsIs == ASSUME ClientTypes, NEW p \in Proc, RemoteFails(p) PROVE Rests(p) \/ Gets(p)
<1>1. /\ proc[p].step \in {"refresh", "mode", "poll token"} /\ Ends(p, "failed")
      /\ UNCHANGED <<creds, file, seen>>
  BY DEF RemoteFails, stores, history, creds, told
<1>2. CASE UNCHANGED idp
  BY <1>1, <1>2, EndsRests DEF Exited, Writing, ClientTypes
<1>3. CASE At(p, "refresh") /\ proc[p].cred.refresh \in live /\ Grant(p, proc[p].cred.refresh)
  <2>1. /\ DOMAIN proc' = Proc /\ \A q \in Proc \ {p} : proc'[q] = proc[q]
        /\ proc'[p].step \in Exited /\ ProcTypes(p)'
    BY <1>1, Exits DEF Exited, ClientTypes
  <2> QED BY <1>1, <1>3, <2>1 DEF Gets, Only, At, Exited, ClientTypes
<1> QED BY <1>2, <1>3 DEF RemoteFails, idpVars, idp

LEMMA LastStepsIs ==
    ASSUME ClientTypes, NEW p \in Proc, SaveHosts(p) \/ CallVault(p) \/ DeleteByName(p) PROVE Rests(p)
<1>1. UNCHANGED <<creds, file, seen, idp>>
  BY DEF SaveHosts, CallVault, DeleteByName, stores, history, idpVars, creds, told, idp
<1>2. CASE proc[p].step \in Late /\ (Ends(p, "ok") \/ Ends(p, "failed"))
  BY <1>1, <1>2, EndsRests DEF Exited, Late, Writing, ClientTypes
<1>3. CASE At(p, "call") /\ Go(p, "call by id")
  BY <1>1, <1>3, GoesOn DEF At, Plain, Early, Late, InUpdate, InSession
<1> QED BY <1>2, <1>3 DEF SaveHosts, CallVault, DeleteByName, At, Late

LEMMA UpdatesIs ==
    ASSUME ClientTypes, NEW p \in Proc, Updates(p), UNCHANGED <<creds, file, seen, idp>> PROVE Rests(p)
<1>1. CASE Ends(p, "ok") \/ Ends(p, "failed")
  <2>1. proc[p].step \in InUpdate
    BY DEF Updates, Latest, Note, Download, Apply, CompareSkill, InstallSkill, At, InUpdate
  <2> QED BY <1>1, <2>1, EndsRests DEF Exited, InUpdate, Writing, ClientTypes
<1>2. CASE Latest(p) /\ ~Ends(p, "failed")
  <2> DEFINE c == [step |-> "note", rel |-> Releases[published]]
  <2>1. At(p, "latest") /\ Change(p, c)
    BY <1>2 DEF Latest
  <2>2. DOMAIN c = {"step", "rel"} /\ DOMAIN c \subseteq Fields \ {"ask"} /\ c.step = "note"
    BY DEF Fields
  <2> HIDE DEF c
  <2> QED BY <2>1, <2>2, MovesOn DEF At, Plain, Early, Late, InUpdate, InSession, Writing
<1>3. CASE Note(p) /\ ~Ends(p, "ok")
  <2>1. At(p, "note") /\ Go(p, "download")
    BY <1>3 DEF Note
  <2> QED BY <2>1, GoesOn DEF At, Plain, Early, Late, InUpdate, InSession, Writing
<1>4. CASE Download(p) /\ ~Ends(p, "failed")
  <2>1. At(p, "download") /\ Go(p, "apply")
    BY <1>4 DEF Download
  <2> QED BY <2>1, GoesOn DEF At, Plain, Early, Late, InUpdate, InSession, Writing
<1>5. CASE CompareSkill(p) /\ ~Ends(p, "ok") /\ ~Ends(p, "failed")
  <2>1. At(p, "compare") /\ Go(p, "install")
    BY <1>5 DEF CompareSkill
  <2> QED BY <2>1, GoesOn DEF At, Plain, Early, Late, InUpdate, InSession, Writing
<1> QED BY <1>1, <1>2, <1>3, <1>4, <1>5 DEF Updates, Apply, InstallSkill

LEMMA KilledIs ==
    ASSUME ClientTypes, NEW p \in Proc, Killed(p), UNCHANGED idp PROVE Rests(p) \/ Breaks(p)
<1>1. /\ proc[p].step \notin Exited \cup {"idle"} /\ Ends(p, "killed")
      /\ UNCHANGED <<keyring, file, intact, complete, spoiled>>
      /\ DOMAIN seen' = Proc /\ \A q \in Proc \ {p} : seen'[q] = seen[q]
  BY DEF Killed, ClientTypes
<1>2. CASE proc[p].step \in Writing
  <2>1. settled' = [settled EXCEPT ![H(p)] = @ \cup {Written(p)}]
    BY <1>2 DEF Killed
  <2> QED BY <1>1, <1>2, <2>1, Exits DEF Breaks, Only, Exited, ClientTypes
<1>3. CASE proc[p].step \notin Writing
  <2>1. UNCHANGED <<creds, file>>
    BY <1>1, <1>3 DEF Killed, creds, told
  <2> QED BY <1>1, <1>3, <2>1, EndsRests DEF Exited
<1> QED BY <1>2, <1>3

LEMMA BeginIs == ASSUME ClientTypes, NEW p \in Proc, Begin(p) PROVE Rests(p)
<1>1. /\ At(p, "idle") /\ UNCHANGED <<creds, file, seen, idp>> /\ DOMAIN proc = Proc /\ ProcTypes(p)
      /\ p \in DOMAIN Loads[load].asks /\ load \in DOMAIN Loads
  BY DEF Begin, stores, history, idpVars, creds, told, idp, ClientTypes
<1>2. Loads[load].asks[p] \subseteq Ask \cup UpdateAsk
  BY <1>1, LoadsAreStates
<1>3. PICK q \in Loads[load].asks[p] :
        LET first == IF q.cmd \in {"update", "skill"} THEN FirstUpdateStep(q) ELSE FirstStep(q)
        IN  IF first \in Exited THEN Ends(p, first)
            ELSE Change(p, [step |-> first, ask |-> q, version |-> installed.tag])
  BY DEF Begin
<1> DEFINE first == IF q.cmd \in {"update", "skill"} THEN FirstUpdateStep(q) ELSE FirstStep(q)
           c == [step |-> first, ask |-> q, version |-> installed.tag]
<1>4. CASE first \in Exited
  BY <1>1, <1>3, <1>4, EndsRests DEF Exited, At, Writing, ClientTypes
<1>5. CASE first \notin Exited
  <2>1. \/ q.cmd \in {"update", "skill"} /\ first \in {"compare", "latest"}
        \/ q \in Ask /\ q.cmd = "logout" /\ first = "unset"
        \/ q \in Ask /\ q.cmd # "logout" /\ first \in {"call", "config", "keyring"}
    <3>1. CASE q.cmd \in {"update", "skill"}
      BY <1>5, <3>1 DEF FirstUpdateStep, Exited
    <3>2. CASE q.cmd \notin {"update", "skill"}
      <4>1. q \in Ask
        BY <1>2, <3>2 DEF UpdateAsk
      <4> QED BY <1>5, <3>2, <4>1 DEF FirstStep, Exited
    <3> QED BY <3>1, <3>2
  <2>2. Change(p, c) /\ DOMAIN c = {"step", "ask", "version"} /\ DOMAIN c \subseteq Fields /\ c.step = first /\ c.ask = q
    BY <1>3, <1>5 DEF Fields
  <2> HIDE DEF c
  <2>3. /\ DOMAIN proc' = Proc /\ \A x \in Proc \ {p} : proc'[x] = proc[x]
        /\ DOMAIN proc'[p] = Fields /\ proc'[p].step = first /\ proc'[p].ask = q
    BY <1>1, <2>2, Changed DEF ProcTypes, Fields
  <2> HIDE DEF first
  <2>4. ProcTypes(p)'
    BY <2>1, <2>3 DEF ProcTypes, HasCred, HasPages, New, Dropping, IsLogout, Cmd, At, InSession, InUpdate, Early, Late, Writing
  <2>5. proc'[p].step \in Plain
    BY <2>1, <2>3 DEF Plain, Late, InUpdate
  <2> QED BY <1>1, <2>3, <2>4, <2>5 DEF Rests, Only, At, Exited, Writing, ClientTypes
<1> QED BY <1>4, <1>5

LEMMA SessionIs ==
    ASSUME ClientTypes, NEW p \in Proc, Session(p) PROVE Event(p)
<1>1. CASE (Resolves(p) \/ Stores(p)) /\ UNCHANGED <<hosts, idp, aged>>
  <2>1. CASE CannotReplaceFile(p)
    <3>1. At(p, "adding") /\ Ends(p, "failed") /\ UNCHANGED <<creds, file, idp, seen>>
      BY <1>1, <2>1 DEF CannotReplaceFile, stores, history, creds, told
    <3> QED BY <3>1, EndsRests DEF Event, Exited, At, Writing, ClientTypes
  <2> QED BY <1>1, <2>1, ReadKeyringIs, ReadFileIs, SetKeyringIs, UnsetKeyringIs, DropCopyIs, LoadToAddIs,
             LoadToEraseIs, ReplaceFileIs, RemoveFileIs, CutFileIs, RefillFileIs DEF Resolves, Stores, Event
<1>2. CASE \/ LoadConfig(p) \/ Found(p) \/ Absent(p) \/ RefreshGranted(p) \/ RefreshRefused(p)
           \/ ChooseMode(p) \/ Sleep(p) \/ PollToken(p) \/ SaveHosts(p) \/ CallVault(p) \/ DeleteByName(p)
  BY <1>2, LoadConfigIs, FoundIs, AbsentIs, RefreshGrantedIs, RefreshRefusedIs, ChooseModeIs, SleepIs,
     PollTokenIs, LastStepsIs DEF Event
<1> QED BY <1>1, <1>2 DEF Session, idpVars, idp

LEMMA NextIs ==
    ASSUME ClientTypes, [Next]_vars PROVE Still \/ \E p \in Proc : Event(p)
<1>1. CASE UNCHANGED vars
  BY <1>1 DEF vars, sessionVars, credVars, stores, history, idpVars, Still, creds, told, idp
<1>2. ASSUME NEW p \in Proc, Begin(p) PROVE Event(p)
  BY <1>2, BeginIs DEF Event
<1>3. ASSUME NEW p \in Proc, Runs(p) PROVE Event(p)
  <2>1. CASE Session(p)
    BY <2>1, SessionIs
  <2>2. CASE Updates(p) /\ UNCHANGED <<stores, available, history, budget, hosts, idpVars, aged>>
    BY <2>2, UpdatesIs DEF Event, stores, history, idpVars, creds, told, idp
  <2> QED BY <1>3, <2>1, <2>2 DEF Runs
<1>4. ASSUME NEW p \in Proc, Meets(p) PROVE Event(p)
  BY <1>4, RemoteFailsIs, PasteKeyIs, KilledIs DEF Meets, Event, idpVars, idp
<1>5. CASE Surroundings
  <2>1. UNCHANGED <<proc, stores, history, idpVars>>
    BY <1>5 DEF Surroundings, KeyringFlips, TokensAge, CheckEnds, sessionVars, credVars, idpVars
  <2> QED BY <2>1 DEF stores, history, idpVars, Still, creds, told, idp
<1> QED BY <1>1, <1>2, <1>3, <1>4, <1>5 DEF Next

LEMMA TypesKept == ClientTypes /\ [Next]_vars => ClientTypes'
<1> SUFFICES ASSUME ClientTypes, [Next]_vars PROVE ClientTypes'
  OBVIOUS
<1>1. load' = load
  BY DEF Next, vars, Begin, Runs, Meets, Surroundings
<1>2. CASE Still
  BY <1>1, <1>2 DEF Still, ClientTypes, ProcTypes, creds, told, idp, HasCred, HasPages, New, Dropping, IsLogout, Cmd, At
<1>3. ASSUME NEW p \in Proc, Event(p) PROVE ClientTypes'
  <2>1. /\ DOMAIN proc' = Proc /\ DOMAIN seen' = Proc /\ ProcTypes(p)'
        /\ \A q \in Proc \ {p} : proc'[q] = proc[q]
    BY <1>3 DEF Event, Rests, Carries, Misses, Finds, Gets, Effects, Finishes, Breaks, Only
  <2>2. \A q \in Proc \ {p} : ProcTypes(q)'
    BY <2>1 DEF ClientTypes, ProcTypes, HasCred, HasPages, New, Dropping, IsLogout, Cmd, At
  <2>3. /\ keyring' \in Contents /\ intact' \in Contents /\ file' \in {intact', Unreadable}
        /\ spoiled' \subseteq Host /\ complete' \subseteq Proc /\ DOMAIN settled' = Host /\ issued' \in Nat
    <3>1. CASE Rests(p) \/ Carries(p) \/ Misses(p) \/ Finds(p)
      BY <3>1 DEF Rests, Carries, Misses, Finds, creds, told, idp, ClientTypes
    <3>2. CASE Gets(p)
      <4>1. issued' = issued \/ issued' = issued + 1
        BY <3>2 DEF Gets, Grant, idp
      <4>2. UNCHANGED <<creds, file>>
        BY <3>2 DEF Gets
      <4> QED BY <4>1, <4>2 DEF creds, told, ClientTypes
    <3>3. CASE Effects(p)
      <4>1. At(p, "set") => proc[p].cred \in Cred
        BY DEF ClientTypes, ProcTypes, HasCred, New, At
      <4>2. proc[p].step \in {"set", "unset"} => H(p) \in Host
        BY HostOf DEF InSession
      <4>3. keyring' \in Contents
        BY <3>3, <4>1 DEF Effects, ClientTypes, Contents
      <4> QED BY <3>3, <4>2, <4>3 DEF Effects, ClientTypes, idp, At
    <3>4. CASE Finishes(p) \/ Breaks(p)
      BY <3>4 DEF Finishes, Breaks, ClientTypes, idp
    <3> QED BY <1>3, <3>1, <3>2, <3>3, <3>4 DEF Event
  <2> QED BY <1>1, <2>1, <2>2, <2>3 DEF ClientTypes
<1> QED BY <1>2, <1>3, NextIs

-----------------------------------------------------------------------------
(* The refresh tokens.  A token belongs to one host; one that was obtained and not yet stored is
   nowhere else, and still accepted.                                                            *)

Token(c) == IF c = NoCred THEN 0 ELSE c.refresh

InStores(r, h) == \/ Token(keyring[h]) = r \/ Token(intact[h]) = r
                  \/ \E q \in Proc : HasPages(q) /\ Token(proc[q].pages[h]) = r
InHands(r, h) == \E q \in Proc : HasCred(q) /\ H(q) = h /\ proc[q].cred.refresh = r
WasOf(r, h) == r \in DOMAIN rotated /\ proc[rotated[r]].step \notin Exited /\ H(rotated[r]) = h
TokenOf(r, h) == InStores(r, h) \/ InHands(r, h) \/ WasOf(r, h)

RefreshToken == Nat \ {0}
Tokens ==
    /\ live \subseteq 1 .. issued /\ DOMAIN rotated \subseteq 1 .. issued
    /\ live \cap DOMAIN rotated = {}
    /\ \A r \in DOMAIN rotated : rotated[r] \in Proc
    /\ ~issuer.rotates => DOMAIN rotated = {}
    /\ \A h \in Host : \A r \in RefreshToken : TokenOf(r, h) => r \in live \cup DOMAIN rotated

OneHost == \A g, h \in Host : \A r \in RefreshToken : TokenOf(r, g) /\ TokenOf(r, h) => g = h

Unseen(p) == /\ \A h \in Host : ~InStores(proc[p].cred.refresh, h)
             /\ \A q \in Proc \ {p} : HasCred(q) => proc[q].cred.refresh # proc[p].cred.refresh
InHand == \A p \in Proc : New(p) /\ proc[p].cred.refresh # 0 =>
             /\ proc[p].cred.refresh \in live
             /\ issuer.rotates => Unseen(p)

TokenInv == Tokens /\ OneHost /\ InHand

-----------------------------------------------------------------------------
(* A token that was replaced by an invocation that is done is in no store, but of hosts whose
   stores disagree.                                                                             *)

Fresh(r, known) == r \in DOMAIN rotated => rotated[r] \notin known

StoresFresh == \A h \in Host \ spoiled : Fresh(Token(keyring[h]), complete) /\ Fresh(Token(intact[h]), complete)

ReadersKnow == \A p \in Proc :
    /\ proc[p].step \in {"file", "found", "refresh"} => proc[p].known \subseteq complete
    /\ proc[p].step \in {"found", "refresh"} => Fresh(proc[p].cred.refresh, proc[p].known)

CompleteAre == \A p \in complete : proc[p].step \in Exited \cup Late \/ (At(p, "config") /\ IsLogout(p))

Refreshing == {"set", "call", "call by id", "drop", "dropping", "add", "adding", "refill"}
Rotators == \A r \in DOMAIN rotated : LET q == rotated[r] IN
    \/ proc[q].step \in Exited
    \/ /\ proc[q].step \in Refreshing /\ Cmd(q) \notin {"login", "logout"}
       /\ Dropping(q) => Token(keyring[H(q)]) # r

Ended(v) == v.by = Start \/ v.by \in complete \/ (v.by \in Proc /\ proc[v.by].step \in Exited)
Befores ==
    /\ \A h \in Host : \A v \in settled[h] : Ended(v)
    /\ \A p \in Proc : proc[p].step \in Writing => \A v \in proc[p].before : Ended(v)

\* The one case in which stores that disagreed are said to agree again.
Alone(p) == keyring[H(p)] = proc[p].cred /\ settled[H(p)] = proc[p].before
Undisturbed == \A p \in Proc : Dropping(p) /\ Alone(p) => Fresh(proc[p].cred.refresh, complete)

FreshInv == StoresFresh /\ ReadersKnow /\ CompleteAre /\ Rotators /\ Befores /\ Undisturbed
RaceInv == ClientTypes /\ TokenInv /\ FreshInv

-----------------------------------------------------------------------------
LEMMA Same ==
    ASSUME NEW q, proc'[q] = proc[q]
    PROVE  /\ (New(q)' <=> New(q)) /\ (Dropping(q)' <=> Dropping(q)) /\ (Erasing(q)' <=> Erasing(q))
           /\ (HasCred(q)' <=> HasCred(q)) /\ (HasPages(q)' <=> HasPages(q))
           /\ H(q)' = H(q) /\ (IsLogout(q)' <=> IsLogout(q)) /\ Cmd(q)' = Cmd(q) /\ Written(q)' = Written(q)
  BY DEF New, Dropping, Erasing, HasCred, HasPages, H, IsLogout, Cmd, At, Written

\* The whereabouts of tokens after a step that gets none.
Flow ==
    /\ UNCHANGED idp
    /\ \E p \in Proc : \A h \in Host : \A r \in RefreshToken : InStores(r, h)' =>
         InStores(r, h) \/ (New(p) /\ ~New(p)' /\ h = H(p) /\ r = proc[p].cred.refresh)
    /\ \A q \in Proc : HasCred(q)' =>
         /\ H(q)' = H(q) /\ H(q) \in Host
         /\ \/ HasCred(q) /\ proc'[q].cred = proc[q].cred
            \/ InStores(proc'[q].cred.refresh, H(q))
    /\ \A q \in Proc : New(q)' => New(q) /\ proc'[q].cred = proc[q].cred
    /\ \A r \in DOMAIN rotated : proc'[rotated[r]].step \notin Exited =>
         proc[rotated[r]].step \notin Exited /\ H(rotated[r])' = H(rotated[r])

LEMMA FlowKeepsTokens ==
    ASSUME ClientTypes, TokenInv, Flow, Proc # {} PROVE TokenInv'
<1>1. UNCHANGED idp
  BY DEF Flow
<1>2. PICK p \in Proc : \A h \in Host : \A r \in RefreshToken : InStores(r, h)' =>
        InStores(r, h) \/ (New(p) /\ ~New(p)' /\ h = H(p) /\ r = proc[p].cred.refresh)
  BY DEF Flow
<1>3. \A q \in Proc : New(q) => HasCred(q)
  BY DEF HasCred
<1>4. ASSUME NEW h \in Host, NEW r \in RefreshToken, TokenOf(r, h)' PROVE TokenOf(r, h)
  <2>1. CASE InStores(r, h)'
    <3>1. CASE InStores(r, h)
      BY <3>1 DEF TokenOf
    <3>2. CASE New(p) /\ h = H(p) /\ r = proc[p].cred.refresh
      BY <1>3, <3>2 DEF TokenOf, InHands
    <3> QED BY <1>2, <2>1, <3>1, <3>2
  <2>2. CASE InHands(r, h)'
    <3>1. PICK q \in Proc : HasCred(q)' /\ H(q)' = h /\ proc'[q].cred.refresh = r
      BY <2>2 DEF InHands
    <3>2. H(q) = h /\ ((HasCred(q) /\ proc[q].cred.refresh = r) \/ InStores(r, h))
      BY <3>1 DEF Flow
    <3> QED BY <3>2 DEF TokenOf, InHands
  <2>3. CASE WasOf(r, h)'
    <3>1. r \in DOMAIN rotated /\ proc'[rotated[r]].step \notin Exited /\ H(rotated[r])' = h
      BY <1>1, <2>3 DEF WasOf, idp
    <3> QED BY <3>1 DEF Flow, WasOf, TokenOf
  <2> QED BY <1>4, <2>1, <2>2, <2>3 DEF TokenOf
<1>5. Tokens'
  BY <1>1, <1>4 DEF TokenInv, Tokens, idp
<1>6. OneHost'
  BY <1>4 DEF TokenInv, OneHost
<1>7. ASSUME NEW q \in Proc, New(q)', proc'[q].cred.refresh # 0
      PROVE  proc'[q].cred.refresh \in live' /\ (issuer'.rotates => Unseen(q)')
  <2>1. New(q) /\ proc'[q].cred = proc[q].cred
    BY <1>7 DEF Flow
  <2>2. proc[q].cred.refresh \in live /\ (issuer.rotates => Unseen(q))
    BY <1>7, <2>1 DEF TokenInv, InHand
  <2>3. ASSUME issuer.rotates PROVE Unseen(q)'
    <3>0. PICK r : r = proc[q].cred.refresh
      OBVIOUS
    <3>1. r \in RefreshToken
      <4>1. r # 0 /\ live \subseteq 1 .. issued /\ issued \in Nat /\ r \in live
        BY <1>7, <2>1, <2>2, <3>0 DEF TokenInv, Tokens, ClientTypes
      <4> QED BY <4>1 DEF RefreshToken
    <3>2. ASSUME NEW h \in Host PROVE ~InStores(r, h)'
      <4>1. ~InStores(r, h)
        BY <2>2, <2>3, <3>0 DEF Unseen
      <4>2. CASE p = q
        BY <1>2, <1>7, <3>1, <4>1, <4>2
      <4>3. CASE p # q
        <5>1. HasCred(p) => proc[p].cred.refresh # r
          BY <2>2, <2>3, <3>0, <4>3 DEF Unseen
        <5> QED BY <1>2, <1>3, <3>1, <4>1, <5>1
      <4> QED BY <4>2, <4>3
    <3>3. ASSUME NEW x \in Proc \ {q}, HasCred(x)' PROVE proc'[x].cred.refresh # r
      <4>1. CASE HasCred(x) /\ proc'[x].cred = proc[x].cred
        BY <2>2, <2>3, <3>0, <4>1 DEF Unseen
      <4>2. CASE InStores(proc'[x].cred.refresh, H(x)) /\ H(x) \in Host
        BY <2>2, <2>3, <3>0, <4>2 DEF Unseen
      <4> QED BY <3>3, <4>1, <4>2 DEF Flow
    <3>4. proc'[q].cred.refresh = r
      BY <2>1, <3>0
    <3>5. \A h \in Host : ~InStores(proc[q].cred.refresh, h)'
      BY <3>2, <3>4 DEF InStores
    <3> QED BY <3>3, <3>4, <3>5 DEF Unseen
  <2> QED BY <1>1, <2>1, <2>2, <2>3 DEF idp
<1>8. InHand'
  BY <1>7 DEF InHand
<1> QED BY <1>5, <1>6, <1>8 DEF TokenInv

LEMMA HostsOf ==
    ASSUME ClientTypes, NEW q \in Proc, HasCred(q) \/ HasPages(q) PROVE H(q) \in Host
  BY HostOf DEF HasCred, HasPages, New, Dropping, At, InSession, Early, Writing

\* Of a step of p it is enough to look at p.
LEMMA FlowOf ==
    ASSUME RaceInv, ClientTypes', UNCHANGED idp, NEW p \in Proc,
           \A q \in Proc \ {p} : proc'[q] = proc[q],
           \A h \in Host : \A r \in RefreshToken : InStores(r, h)' =>
             InStores(r, h) \/ (New(p) /\ ~New(p)' /\ h = H(p) /\ r = proc[p].cred.refresh),
           HasCred(p)' => /\ H(p)' = H(p)
                          /\ \/ HasCred(p) /\ proc'[p].cred = proc[p].cred
                             \/ InStores(proc'[p].cred.refresh, H(p)),
           New(p)' => New(p) /\ proc'[p].cred = proc[p].cred,
           \/ proc'[p].step \in Exited
           \/ proc[p].step \notin Exited /\ (At(p, "idle") \/ SameAsk(p))
    PROVE  Flow
<1>1. ASSUME NEW q \in Proc, HasCred(q)'
      PROVE  /\ H(q)' = H(q) /\ H(q) \in Host
             /\ \/ HasCred(q) /\ proc'[q].cred = proc[q].cred
                \/ InStores(proc'[q].cred.refresh, H(q))
  <2>1. H(q)' = H(q)
    BY <1>1, Same
  <2>2. H(q) \in Host
    <3>1. CASE q = p
      <4>1. proc'[q].step \in InSession
        BY <1>1 DEF HasCred, New, Dropping, At, InSession, Early, Writing
      <4>2. H(q)' \in Host
        BY <4>1 DEF ClientTypes, ProcTypes, Ask, H
      <4> QED BY <2>1, <4>2
    <3>2. CASE q # p
      <4>1. HasCred(q)
        BY <1>1, <3>2, Same
      <4> QED BY <4>1, HostsOf DEF RaceInv
    <3> QED BY <3>1, <3>2
  <2> QED BY <1>1, <2>1, <2>2, Same
<1>2. \A q \in Proc : New(q)' => New(q) /\ proc'[q].cred = proc[q].cred
  BY Same
<1>3. ASSUME NEW r \in DOMAIN rotated, proc'[rotated[r]].step \notin Exited
      PROVE  proc[rotated[r]].step \notin Exited /\ H(rotated[r])' = H(rotated[r])
  <2>1. rotated[r] \in Proc /\ ~At(rotated[r], "idle") /\ rotated' = rotated
    BY DEF RaceInv, TokenInv, Tokens, FreshInv, Rotators, At, Refreshing, Exited, idp
  <2>2. CASE rotated[r] = p
    BY <1>3, <2>1, <2>2 DEF SameAsk, H
  <2>3. CASE rotated[r] # p
    BY <1>3, <2>1, <2>3 DEF H
  <2> QED BY <2>2, <2>3
<1> QED BY <1>1, <1>2, <1>3 DEF Flow

LEMMA EventFlows ==
    ASSUME RaceInv, ClientTypes', NEW p \in Proc, Event(p), ~Gets(p) PROVE Flow
<1>1. ClientTypes /\ ProcTypes(p) /\ ProcTypes(p)' /\ (proc[p].step \in InSession => H(p) \in Host)
  BY HostOf DEF RaceInv, ClientTypes
<1>2. CASE Rests(p)
  <2>1. ~HasCred(p)' /\ ~New(p)' /\ ~HasPages(p)'
    BY <1>2 DEF Rests, Plain, HasCred, HasPages, New, Dropping, Exited, Late, InUpdate, At
  <2>2. \A h \in Host : \A r \in RefreshToken : InStores(r, h)' => InStores(r, h)
    BY <1>2, <2>1, Same DEF Rests, Only, InStores, creds
  <2> QED BY <1>2, <2>1, <2>2, FlowOf DEF Rests, Only, Exited, At, Early, Late, InUpdate
<1>3. CASE Carries(p)
  <2>1. HasPages(p)' => proc'[p].pages = intact \/ (HasPages(p) /\ proc'[p].pages = proc[p].pages)
    BY <1>3 DEF Carries, HasPages, At
  <2>2. \A h \in Host : \A r \in RefreshToken : InStores(r, h)' => InStores(r, h)
    <3>1. UNCHANGED <<keyring, intact>> /\ \A q \in Proc \ {p} : proc'[q] = proc[q]
      BY <1>3 DEF Carries, Only, creds
    <3> QED BY <2>1, <3>1, Same DEF InStores, creds
  <2>3. SameAsk(p) /\ proc'[p].cred = proc[p].cred
    BY <1>3 DEF Carries, SameHand
  <2>4. HasCred(p)' => HasCred(p)
    BY <1>1, <1>3, <2>3 DEF Carries, HasCred, New, Dropping, At, SameAsk, IsLogout, Cmd, ProcTypes
  <2>5. New(p)' => New(p)
    BY <1>3 DEF Carries, New, At
  <2>6. proc[p].step \notin Exited /\ H(p)' = H(p)
    BY <1>3, <2>3 DEF Carries, At, Exited, SameAsk, H
  <2> QED BY <1>3, <2>2, <2>3, <2>4, <2>5, <2>6, FlowOf DEF Carries, Only
<1>4. CASE Misses(p)
  <2>1. ~HasCred(p)' /\ ~New(p)' /\ ~HasPages(p)'
    BY <1>4 DEF Misses, HasCred, HasPages, New, Dropping, At
  <2>2. \A h \in Host : \A r \in RefreshToken : InStores(r, h)' => InStores(r, h)
    BY <1>4, <2>1, Same DEF Misses, Only, InStores, creds
  <2> QED BY <1>4, <2>1, <2>2, FlowOf DEF Misses, Only, Exited, At
<1>5. CASE Finds(p)
  <2>1. ~New(p)' /\ ~HasPages(p)'
    BY <1>5 DEF Finds, HasPages, New, At
  <2>2. \A h \in Host : \A r \in RefreshToken : InStores(r, h)' => InStores(r, h)
    BY <1>5, <2>1, Same DEF Finds, Only, InStores, creds
  <2>3. InStores(proc'[p].cred.refresh, H(p))
    BY <1>5 DEF Finds, InStores, Token
  <2>4. SameAsk(p) /\ H(p)' = H(p) /\ proc[p].step \notin Exited
    BY <1>5 DEF Finds, SameAsk, H, At, Exited
  <2> QED BY <1>5, <2>1, <2>2, <2>3, <2>4, FlowOf DEF Finds, Only
<1>6. CASE Effects(p)
  <2>1. ~HasPages(p) /\ ~HasPages(p)' /\ proc[p].step \notin Exited
    BY <1>6 DEF Effects, HasPages, At, Exited
  <2>2. HasCred(p)' => HasCred(p) /\ proc'[p].cred = proc[p].cred
    BY <1>6 DEF Effects, HasCred, New, Dropping, At
  <2>3. New(p)' => New(p) /\ proc'[p].cred = proc[p].cred
    BY <1>6 DEF Effects, New, At
  <2>4. ASSUME NEW h \in Host, NEW r \in RefreshToken, InStores(r, h)'
        PROVE InStores(r, h) \/ (New(p) /\ ~New(p)' /\ h = H(p) /\ r = proc[p].cred.refresh)
    <3>1. CASE keyring'[h] = keyring[h]
      BY <1>6, <2>1, <2>4, <3>1, Same DEF Effects, InStores
    <3>2. CASE keyring'[h] # keyring[h]
      <4>1. h = H(p)
        BY <1>1, <1>6, <3>2 DEF Effects, ClientTypes, Contents
      <4>2. CASE At(p, "set")
        <5>1. keyring'[h] = proc[p].cred /\ New(p) /\ ~New(p)'
          BY <1>1, <1>6, <3>2, <4>1, <4>2 DEF Effects, ClientTypes, Contents, At, New
        <5>2. Token(proc[p].cred) = r => proc[p].cred.refresh = r
          BY DEF Token, RefreshToken
        <5>3. Token(keyring'[h]) = r \/ InStores(r, h)
          BY <1>6, <2>1, <2>4, Same DEF Effects, InStores
        <5> QED BY <4>1, <5>1, <5>2, <5>3
      <4>3. CASE At(p, "unset")
        <5>1. keyring'[h] = NoCred
          BY <1>1, <1>6, <3>2, <4>1, <4>3 DEF Effects, ClientTypes, Contents, At
        <5>2. Token(keyring'[h]) # r
          BY <5>1 DEF Token, RefreshToken
        <5> QED BY <1>6, <2>1, <2>4, <5>2, Same DEF Effects, InStores
      <4> QED BY <1>6, <4>2, <4>3 DEF Effects
    <3> QED BY <3>1, <3>2
  <2>5. H(p)' = H(p) /\ SameAsk(p) /\ UNCHANGED idp
    BY <1>6 DEF Effects, SameAsk, H
  <2> QED BY <1>6, <2>1, <2>2, <2>3, <2>4, <2>5, FlowOf DEF Effects
<1>7. CASE Finishes(p)
  <2>1. ~HasPages(p)' /\ ~HasCred(p)' /\ ~New(p)'
    BY <1>7 DEF Finishes, Continue, HasPages, HasCred, New, Dropping, At
  <2>2. ASSUME NEW h \in Host, NEW r \in RefreshToken, InStores(r, h)'
        PROVE InStores(r, h) \/ (New(p) /\ ~New(p)' /\ h = H(p) /\ r = proc[p].cred.refresh)
    <3>1. CASE Token(intact'[h]) # r
      BY <1>7, <2>1, <2>2, <3>1, Same DEF Finishes, Only, InStores
    <3>2. CASE Token(intact'[h]) = r
      <4>1. CASE Drops(p)
        <5>1. CASE intact' = intact
          BY <3>2, <5>1 DEF InStores
        <5>2. CASE HasPages(p) /\ intact' = Without(p)
          <6>1. proc[p].pages \in Contents
            BY <1>1, <5>2 DEF ProcTypes
          <6>2. intact'[h] = proc[p].pages[h] \/ intact'[h] = NoCred
            BY <5>2, <6>1 DEF Without, Contents
          <6>3. intact'[h] # NoCred
            BY <3>2 DEF Token, RefreshToken
          <6> QED BY <3>2, <5>2, <6>2, <6>3 DEF InStores
        <5> QED BY <4>1, <5>1, <5>2 DEF Drops
      <4>2. CASE At(p, "adding") /\ intact' = [proc[p].pages EXCEPT ![H(p)] = proc[p].cred]
        <5>1. proc[p].pages \in Contents /\ HasPages(p) /\ New(p)
          BY <1>1, <4>2 DEF ProcTypes, HasPages, New, At
        <5>2. CASE h # H(p)
          <6>1. intact'[h] = proc[p].pages[h]
            BY <4>2, <5>1, <5>2 DEF Contents
          <6> QED BY <3>2, <5>1, <6>1 DEF InStores
        <5>3. CASE h = H(p)
          <6>1. intact'[h] = proc[p].cred
            BY <4>2, <5>1, <5>3 DEF Contents
          <6>2. proc[p].cred.refresh = r
            BY <3>2, <6>1 DEF Token, RefreshToken
          <6> QED BY <2>1, <5>1, <5>3, <6>2
        <5> QED BY <5>2, <5>3
      <4> QED BY <1>7, <4>1, <4>2 DEF Finishes
    <3> QED BY <3>1, <3>2
  <2>3. proc[p].step \notin Exited /\ SameAsk(p)
    BY <1>7 DEF Finishes, Dropping, Erasing, At, Exited
  <2> QED BY <1>7, <2>1, <2>2, <2>3, FlowOf DEF Finishes, Only
<1>8. CASE Breaks(p)
  <2>1. ~HasPages(p)' /\ ~HasCred(p)' /\ ~New(p)'
    BY <1>8 DEF Breaks, HasPages, HasCred, New, Dropping, At, Exited
  <2>2. \A h \in Host : \A r \in RefreshToken : InStores(r, h)' => InStores(r, h)
    BY <1>8, <2>1, Same DEF Breaks, Only, InStores
  <2> QED BY <1>8, <2>1, <2>2, FlowOf DEF Breaks, Only
<1> QED BY <1>2, <1>3, <1>4, <1>5, <1>6, <1>7, <1>8 DEF Event

LEMMA StillFlows ==
    ASSUME RaceInv, ClientTypes', Still, NEW p \in Proc PROVE Flow
<1>1. UNCHANGED <<proc, keyring, intact, idp>>
  BY DEF Still, creds
<1>2. \A h \in Host : \A r \in RefreshToken : InStores(r, h)' => InStores(r, h)
  BY <1>1 DEF InStores, HasPages
<1>3. (HasCred(p)' => HasCred(p)) /\ (New(p)' => New(p)) /\ H(p)' = H(p) /\ SameAsk(p)
  BY <1>1, Same DEF SameAsk
<1> QED BY <1>1, <1>2, <1>3, FlowOf DEF SameAsk

LEMMA GetsKeepsTokens ==
    ASSUME RaceInv, ClientTypes', NEW p \in Proc, Gets(p) PROVE TokenInv'
<1> PICK n : n = issued + 1
  OBVIOUS
<1> PICK old : old = proc[p].cred.refresh
  OBVIOUS
<1> DEFINE Turns == At(p, "refresh") /\ old \in live /\ issuer.rotates
<1>0. /\ issued \in Nat /\ live \subseteq 1 .. issued /\ DOMAIN rotated \subseteq 1 .. issued
      /\ Tokens /\ OneHost /\ InHand /\ Rotators /\ ClientTypes /\ ProcTypes(p)
  BY DEF RaceInv, TokenInv, Tokens, ClientTypes, FreshInv
<1>1. /\ \A q \in Proc \ {p} : proc'[q] = proc[q]
      /\ UNCHANGED <<keyring, intact>>
      /\ ~HasPages(p) /\ ~HasPages(p)' /\ (At(p, "set") \/ At(p, "refresh") \/ ~HasCred(p))
      /\ proc[p].step \notin Exited \cup Refreshing \cup {"idle"} /\ ~New(p) /\ (At(p, "refresh") => HasCred(p))
  BY DEF Gets, Only, creds, HasPages, HasCred, New, Dropping, At, Exited, Refreshing
<1>2. HasCred(p)' => At(p, "set")'
  BY DEF Gets, HasCred, New, Dropping, At, Exited
<1>3. At(p, "set")' => /\ H(p)' = H(p) /\ New(p)' /\ H(p) \in Host
                       /\ \/ proc'[p].cred.refresh \in {0, n}
                          \/ At(p, "refresh") /\ ~issuer.rotates /\ old \in live /\ proc'[p].cred.refresh = old
  <2>1. proc[p].step \in InSession
    BY DEF Gets, At, InSession, Early
  <2>2. H(p) \in Host
    BY <1>0, <2>1, HostOf
  <2> QED BY <2>2 DEF Gets, SameAsk, H, New, At, Exited
<1>4. /\ issuer' = issuer /\ issued' \in {issued, n}
      /\ \/ UNCHANGED <<live, rotated>>
         \/ live' = live \cup {n} /\ rotated' = rotated /\ issued' = n
         \/ /\ Turns /\ issued' = n /\ live' = (live \ {old}) \cup {n}
            /\ DOMAIN rotated' = DOMAIN rotated \cup {old} /\ rotated'[old] = p
            /\ \A r \in DOMAIN rotated \ {old} : rotated'[r] = rotated[r]
  <2>1. CASE UNCHANGED idp
    BY <2>1 DEF idp
  <2>2. CASE At(p, "poll token") /\ Grant(p, 0)
    <3>1. 0 \notin live
      BY <1>0
    <3> QED BY <2>2, <3>1 DEF Grant
  <2>3. CASE At(p, "refresh") /\ old \in live /\ Grant(p, old)
    <3>1. old # 0
      BY <1>0, <2>3
    <3>2. CASE issuer.rotates
      <4>1. rotated' = With(rotated, [r \in {old} |-> p]) /\ live' = (live \ {old}) \cup {n} /\ issued' = n
        BY <2>3, <3>1, <3>2 DEF Grant
      <4> QED BY <2>3, <3>2, <4>1 DEF Grant, With
    <3>3. CASE ~issuer.rotates
      BY <2>3, <3>1, <3>3 DEF Grant
    <3> QED BY <3>2, <3>3
  <2> QED BY <2>1, <2>2, <2>3 DEF Gets
<1>5. At(p, "set")' /\ proc'[p].cred.refresh = n => n \in live'
  <2>1. CASE At(p, "poll token") /\ Grant(p, 0)
    BY <2>1 DEF Grant
  <2>2. CASE At(p, "refresh") /\ Grant(p, old)
    <3>1. CASE issuer.rotates
      BY <2>2, <3>1 DEF Grant
    <3>2. CASE ~issuer.rotates
      BY <1>0, <2>2, <3>2 DEF Gets, At, Exited
    <3> QED BY <3>1, <3>2
  <2>3. CASE At(p, "prompt")
    BY <1>0, <2>3 DEF Gets, At
  <2> QED BY <2>1, <2>2, <2>3 DEF Gets
<1>6. n \in RefreshToken /\ n \notin 1 .. issued /\ 1 .. issued \subseteq 1 .. n /\ 0 \notin live
  BY <1>0 DEF RefreshToken
<1>7. \A h \in Host : ~TokenOf(n, h)
  BY <1>0, <1>6 DEF Tokens
<1>8. \A r : \A h \in Host : InStores(r, h)' => InStores(r, h)
  BY <1>1, Same DEF InStores
<1>9. \A r \in DOMAIN rotated : rotated[r] # p
  BY <1>1 , <1>0 DEF Rotators
<1>10. ASSUME NEW r \in RefreshToken, NEW h \in Host, TokenOf(r, h)', r # n PROVE TokenOf(r, h)
  <2>1. CASE InStores(r, h)'
    BY <1>8, <2>1 DEF TokenOf
  <2>2. CASE InHands(r, h)'
    <3>1. PICK q \in Proc : HasCred(q)' /\ H(q)' = h /\ proc'[q].cred.refresh = r
      BY <2>2 DEF InHands
    <3>2. CASE q = p
      <4>1. HasCred(p) /\ H(p) = h /\ proc[p].cred.refresh = r
        BY <1>1, <1>2, <1>3, <1>10, <3>1, <3>2 DEF RefreshToken
      <4> QED BY <4>1 DEF InHands, TokenOf
    <3>3. CASE q # p
      BY <1>1, <3>1, <3>3, Same DEF InHands, TokenOf
    <3> QED BY <3>2, <3>3
  <2>3. CASE WasOf(r, h)'
    <3>1. r \in DOMAIN rotated' /\ proc'[rotated'[r]].step \notin Exited /\ proc'[rotated'[r]].ask.host = h
      BY <2>3 DEF WasOf, H
    <3>2. CASE r \in DOMAIN rotated /\ rotated'[r] = rotated[r]
      <4>1. rotated[r] \in Proc \ {p}
        BY <1>0, <1>9, <3>2 DEF Tokens
      <4>2. proc'[rotated[r]] = proc[rotated[r]]
        BY <1>1, <4>1
      <4>3. WasOf(r, h)
        BY <3>1, <3>2, <4>2 DEF WasOf, H
      <4> QED BY <4>3 DEF TokenOf
    <3>3. CASE r = old /\ Turns /\ rotated'[old] = p
      <4>1. At(p, "set")'
        BY <3>1, <3>3, <1>2 DEF Gets, At
      <4> QED BY <1>1, <1>3, <3>1, <3>3, <4>1 DEF InHands, TokenOf, H
    <3> QED BY <1>4, <3>1, <3>2, <3>3
  <2> QED BY <1>10, <2>1, <2>2, <2>3 DEF TokenOf
<1>11. ASSUME NEW h \in Host, TokenOf(n, h)' PROVE h = H(p) /\ n \in live'
  <2>1. ~InStores(n, h)'
    BY <1>7, <1>8 DEF TokenOf
  <2>2. ~WasOf(n, h)'
    <3>1. n \notin DOMAIN rotated'
      BY <1>0, <1>4, <1>6
    <3> QED BY <3>1 DEF WasOf
  <2>3. PICK q \in Proc : HasCred(q)' /\ H(q)' = h /\ proc'[q].cred.refresh = n
    BY <1>11, <2>1, <2>2 DEF TokenOf, InHands
  <2>4. q = p
    <3>1. SUFFICES ASSUME q # p PROVE FALSE
      OBVIOUS
    <3>2. HasCred(q) /\ H(q) = h /\ proc[q].cred.refresh = n
      BY <1>1, <2>3, <3>1, Same
    <3> QED BY <1>7, <3>2 DEF TokenOf, InHands
  <2> QED BY <1>2, <1>3, <1>5, <2>3, <2>4
<1>12. Tokens'
  <2>1. live' \subseteq 1 .. issued' /\ DOMAIN rotated' \subseteq 1 .. issued'
    <3>1. 1 .. issued \subseteq 1 .. issued'
      BY <1>0, <1>4
    <3>2. issued' = n => n \in 1 .. issued'
      BY <1>0
    <3>3. CASE UNCHANGED <<live, rotated>>
      BY <1>0, <3>1, <3>3
    <3>4. CASE live' = live \cup {n} /\ rotated' = rotated /\ issued' = n
      BY <1>0, <3>1, <3>2, <3>4
    <3>5. CASE /\ Turns /\ issued' = n /\ live' = (live \ {old}) \cup {n}
               /\ DOMAIN rotated' = DOMAIN rotated \cup {old}
      BY <1>0, <3>1, <3>2, <3>5
    <3> QED BY <1>4, <3>3, <3>4, <3>5
  <2>2. live' \cap DOMAIN rotated' = {}
    BY <1>0, <1>4, <1>6 DEF Tokens
  <2>3. \A r \in DOMAIN rotated' : rotated'[r] \in Proc
    BY <1>0, <1>4 DEF Tokens
  <2>4. ~issuer'.rotates => DOMAIN rotated' = {}
    BY <1>0, <1>4 DEF Tokens
  <2>5. ASSUME NEW h \in Host, NEW r \in RefreshToken, TokenOf(r, h)' PROVE r \in live' \cup DOMAIN rotated'
    <3>1. CASE r = n
      BY <1>11, <2>5, <3>1
    <3>2. CASE r # n
      <4>1. r \in live \cup DOMAIN rotated
        BY <1>0, <1>10, <2>5, <3>2 DEF Tokens
      <4> QED BY <1>4, <4>1
    <3> QED BY <3>1, <3>2
  <2> QED BY <2>1, <2>2, <2>3, <2>4, <2>5 DEF Tokens
<1>13. OneHost'
  BY <1>0, <1>10, <1>11 DEF OneHost
<1>14. ASSUME NEW q \in Proc, New(q)', proc'[q].cred.refresh # 0
       PROVE  proc'[q].cred.refresh \in live' /\ (issuer'.rotates => Unseen(q)')
  <2>1. CASE q = p
    <3>1. At(p, "set")'
      BY <1>2, <1>14, <2>1 DEF HasCred
    <3>2. CASE proc'[p].cred.refresh = n
      <4>1. \A h \in Host : ~InStores(n, h)'
        BY <1>7, <1>8 DEF TokenOf
      <4>2. ASSUME NEW x \in Proc \ {p}, HasCred(x)', proc'[x].cred.refresh = n PROVE FALSE
        <5>1. HasCred(x) /\ proc[x].cred.refresh = n
          BY <1>1, <4>2, Same
        <5>2. H(x) \in Host
          BY <1>0, <5>1, HostsOf
        <5> QED BY <1>7, <5>1, <5>2 DEF TokenOf, InHands
      <4> QED BY <1>5, <2>1, <3>1, <3>2, <4>1, <4>2 DEF Unseen
    <3>3. CASE ~issuer.rotates /\ old \in live /\ proc'[p].cred.refresh = old
      <4>1. old \in live'
        BY <1>4, <3>3
      <4> QED BY <1>4, <2>1, <3>3, <4>1
    <3> QED BY <1>3, <1>14, <2>1, <3>1, <3>2, <3>3
  <2>2. CASE q # p
    <3> PICK r : r = proc[q].cred.refresh
      OBVIOUS
    <3>1. New(q) /\ proc'[q] = proc[q] /\ r # 0
      BY <1>1, <1>14, <2>2, Same
    <3>2. r \in live /\ (issuer.rotates => Unseen(q))
      BY <1>0, <3>1 DEF InHand
    <3>3. r \in live'
      <4>1. Turns => r # old
        BY <1>1, <2>2, <3>2 DEF Unseen
      <4> QED BY <1>4, <3>2, <4>1
    <3>4. ASSUME issuer.rotates PROVE Unseen(q)'
      <4>1. \A h \in Host : ~InStores(r, h)'
        BY <1>8, <3>2, <3>4 DEF Unseen
      <4>2. ASSUME NEW x \in Proc \ {q}, HasCred(x)' PROVE proc'[x].cred.refresh # r
        <5>1. CASE x = p
          <6>1. r # n /\ r # 0
            BY <1>0, <1>6, <3>1, <3>2
          <6> QED BY <1>2, <1>3, <3>4, <4>2, <5>1, <6>1
        <5>2. CASE x # p
          BY <1>1, <3>2, <3>4, <4>2, <5>2, Same DEF Unseen
        <5> QED BY <5>1, <5>2
      <4> QED BY <3>1, <4>1, <4>2 DEF Unseen
    <3> QED BY <1>4, <3>1, <3>3, <3>4
  <2> QED BY <2>1, <2>2
<1> QED BY <1>12, <1>13, <1>14 DEF TokenInv, InHand

-----------------------------------------------------------------------------
(* No step leaves a token that was replaced where it would be taken for a good one. *)

LEMMA LiveIsFresh ==
    ASSUME RaceInv, NEW r, r \in live \cup {0} PROVE r \notin DOMAIN rotated
<1>1. live \cap DOMAIN rotated = {} /\ DOMAIN rotated \subseteq 1 .. issued /\ issued \in Nat
  BY DEF RaceInv, TokenInv, Tokens, ClientTypes
<1>2. 0 \notin 1 .. issued
  BY <1>1
<1> QED BY <1>1, <1>2

LEMMA NewIsFresh ==
    ASSUME RaceInv, NEW p \in Proc, New(p)
    PROVE  /\ proc[p].cred \in Cred /\ Token(proc[p].cred) = proc[p].cred.refresh
           /\ proc[p].cred.refresh \notin DOMAIN rotated
<1>1. proc[p].cred \in Cred
  BY DEF RaceInv, ClientTypes, ProcTypes, HasCred
<1>2. proc[p].cred.refresh \in live \cup {0}
  BY DEF RaceInv, TokenInv, InHand
<1> QED BY <1>1, <1>2, LiveIsFresh, MarksAreNew DEF Token

LEMMA NotOver ==
    ASSUME RaceInv, NEW p \in Proc, proc[p].step \notin Exited \cup Late, ~(At(p, "config") /\ IsLogout(p))
    PROVE  p \notin complete /\ ~Ended(Written(p))
<1>1. p \notin complete
  BY DEF RaceInv, FreshInv, CompleteAre
<1>2. Written(p).by = p /\ p # Start
  BY MarksAreNew DEF Written
<1> QED BY <1>1, <1>2 DEF Ended

LEMMA EndedStays ==
    ASSUME NEW p, \A q \in Proc \ {p} : proc'[q] = proc[q], complete \subseteq complete',
           proc[p].step \in Exited => proc'[p].step \in Exited
    PROVE  \A v : Ended(v) => Ended(v)'
  BY DEF Ended

\* What a step of p does not touch stays in order.
LEMMA OthersStayFresh ==
    ASSUME RaceInv, NEW p \in Proc, \A q \in Proc \ {p} : proc'[q] = proc[q],
           proc[p].step \notin Exited, UNCHANGED <<rotated, complete>>
    PROVE  /\ \A q \in Proc \ {p} :
                /\ proc'[q].step \in {"file", "found", "refresh"} => proc'[q].known \subseteq complete'
                /\ proc'[q].step \in {"found", "refresh"} => Fresh(proc[q].cred.refresh, proc[q].known)'
                /\ q \in complete => proc'[q].step \in Exited \cup Late \/ (At(q, "config")' /\ IsLogout(q)')
                /\ proc'[q].step \in Writing => \A v \in proc'[q].before : Ended(v)'
           /\ \A v : Ended(v) => Ended(v)'
<1>1. \A v : Ended(v) => Ended(v)'
  BY EndedStays
<1>2. ASSUME NEW q \in Proc \ {p}
      PROVE /\ proc'[q].step \in {"file", "found", "refresh"} => proc'[q].known \subseteq complete'
            /\ proc'[q].step \in {"found", "refresh"} => Fresh(proc[q].cred.refresh, proc[q].known)'
            /\ q \in complete => proc'[q].step \in Exited \cup Late \/ (At(q, "config")' /\ IsLogout(q)')
  BY DEF RaceInv, FreshInv, ReadersKnow, CompleteAre, Fresh, IsLogout, Cmd, At
<1>3. ASSUME NEW q \in Proc \ {p}, proc'[q].step \in Writing PROVE \A v \in proc'[q].before : Ended(v)'
  BY <1>1, <1>3 DEF RaceInv, FreshInv, Befores
<1> QED BY <1>1, <1>2, <1>3

\* Steps that leave the stores as they are.
LEMMA QuietStepsStayFresh ==
    ASSUME RaceInv, NEW p \in Proc, \A q \in Proc \ {p} : proc'[q] = proc[q],
           proc[p].step \notin Exited, UNCHANGED <<creds, idp>>,
           proc'[p].step \in {"file", "found", "refresh"} => proc'[p].known \subseteq complete,
           proc'[p].step \in {"found", "refresh"} => Fresh(proc'[p].cred.refresh, proc'[p].known),
           p \in complete => proc'[p].step \in Exited \cup Late,
           \A r \in DOMAIN rotated : rotated[r] = p =>
             proc'[p].step \in Exited \/ (proc'[p].step \in Refreshing /\ SameAsk(p) /\ (Dropping(p)' => Dropping(p))),
           proc'[p].step \in Writing => proc[p].step \in Writing /\ proc'[p].before = proc[p].before,
           Dropping(p)' => Dropping(p) /\ SameHand(p)
    PROVE  FreshInv'
<1>1. UNCHANGED <<keyring, intact, settled, complete, spoiled, rotated>>
  BY DEF creds, told, idp
<1>2. StoresFresh'
  BY <1>1 DEF RaceInv, FreshInv, StoresFresh, Fresh
<1>3. ReadersKnow'
  <2>1. proc'[p].step \in {"found", "refresh"} => Fresh(proc[p].cred.refresh, proc[p].known)'
    BY <1>1 DEF Fresh
  <2> QED BY <1>1, <2>1, OthersStayFresh DEF ReadersKnow
<1>4. CompleteAre'
  <2> SUFFICES ASSUME NEW q \in complete
               PROVE  proc'[q].step \in Exited \cup Late \/ (At(q, "config")' /\ IsLogout(q)')
    BY <1>1 DEF CompleteAre
  <2>1. q \in Proc
    BY DEF RaceInv, ClientTypes
  <2> QED BY <1>1, <2>1, OthersStayFresh
<1>5. Rotators'
  <2> SUFFICES ASSUME NEW r \in DOMAIN rotated, NEW q, q = rotated[r]
               PROVE  \/ proc'[q].step \in Exited
                      \/ /\ proc'[q].step \in Refreshing /\ Cmd(q)' \notin {"login", "logout"}
                         /\ Dropping(q)' => Token(keyring[H(q)])' # r
    BY <1>1 DEF Rotators, H
  <2>1. q \in Proc
    BY DEF RaceInv, TokenInv, Tokens
  <2>2. \/ proc[q].step \in Exited
        \/ /\ proc[q].step \in Refreshing /\ Cmd(q) \notin {"login", "logout"}
           /\ Dropping(q) => Token(keyring[H(q)]) # r
    BY DEF RaceInv, FreshInv, Rotators
  <2>3. CASE q = p
    BY <1>1, <2>2, <2>3 DEF SameAsk, H, Cmd
  <2>4. CASE q # p
    <3>1. proc'[q] = proc[q]
      BY <2>1, <2>4
    <3> QED BY <1>1, <2>2, <3>1, Same
  <2> QED BY <2>3, <2>4
<1>6. Befores'
  <2>1. \A h \in Host : \A v \in settled'[h] : Ended(v)'
    BY <1>1, OthersStayFresh DEF RaceInv, FreshInv, Befores
  <2>2. proc'[p].step \in Writing => \A v \in proc'[p].before : Ended(v)'
    BY <1>1, OthersStayFresh DEF RaceInv, FreshInv, Befores
  <2> QED BY <1>1, <2>1, <2>2, OthersStayFresh DEF Befores
<1>7. Undisturbed'
  <2> SUFFICES ASSUME NEW q \in Proc, Dropping(q)', Alone(q)' PROVE Fresh(proc[q].cred.refresh, complete)'
    BY DEF Undisturbed
  <2>1. Dropping(q) /\ H(q)' = H(q) /\ proc'[q].cred = proc[q].cred /\ proc'[q].before = proc[q].before
    <3>1. CASE q = p
      BY <3>1 DEF SameHand, SameAsk, H
    <3>2. CASE q # p
      <4>1. proc'[q] = proc[q]
        BY <3>2
      <4> QED BY <4>1, Same
    <3> QED BY <3>1, <3>2
  <2>2. Alone(q)
    BY <1>1, <2>1 DEF Alone
  <2> QED BY <1>1, <2>1, <2>2 DEF RaceInv, FreshInv, Undisturbed, Fresh
<1> QED BY <1>2, <1>3, <1>4, <1>5, <1>6, <1>7 DEF FreshInv

LEMMA RotatedBy ==
    ASSUME RaceInv, NEW r \in DOMAIN rotated
    PROVE  /\ rotated[r] \in Proc
           /\ \/ proc[rotated[r]].step \in Exited
              \/ /\ proc[rotated[r]].step \in Refreshing /\ Cmd(rotated[r]) \notin {"login", "logout"}
                 /\ Dropping(rotated[r]) => Token(keyring[H(rotated[r])]) # r
  BY DEF RaceInv, TokenInv, Tokens, FreshInv, Rotators

LEMMA QuietEventsStayFresh ==
    ASSUME RaceInv, NEW p \in Proc, Rests(p) \/ Carries(p) \/ Misses(p) \/ Finds(p) PROVE FreshInv'
<1>0. /\ p \in complete => proc[p].step \in Exited \cup Late \/ (At(p, "config") /\ IsLogout(p))
      /\ \A r \in DOMAIN rotated : rotated[r] = p =>
           proc[p].step \in Exited \/ (proc[p].step \in Refreshing /\ Cmd(p) \notin {"login", "logout"})
  BY RotatedBy DEF RaceInv, FreshInv, CompleteAre
<1>1. CASE Rests(p)
  <2>1. /\ proc'[p].step \notin Writing \cup {"file", "found", "refresh"} /\ ~Dropping(p)'
        /\ proc[p].step \notin Exited
    BY <1>1 DEF Rests, Plain, Late, InUpdate, Writing, Exited, Dropping, At
  <2>2. p \in complete => proc'[p].step \in Exited \cup Late
    BY <1>0, <1>1 DEF Rests, At, Late, Exited, Plain
  <2>3. ASSUME NEW r \in DOMAIN rotated, rotated[r] = p
        PROVE  proc'[p].step \in Exited \/ (proc'[p].step \in Refreshing /\ SameAsk(p))
    <3>1. proc[p].step \in Refreshing
      BY <1>0, <2>1, <2>3
    <3> QED BY <1>1, <3>1 DEF Rests, Refreshing, At, Late, Early, InUpdate
  <2> QED BY <1>1, <2>1, <2>2, <2>3, QuietStepsStayFresh DEF Rests, Only
<1>2. CASE Carries(p)
  <2>1. /\ proc[p].step \notin Exited \cup Late /\ ~At(p, "config") /\ SameHand(p) /\ SameAsk(p)
        /\ proc'[p].step \in Writing => proc[p].step \in Writing
        /\ proc'[p].step \in {"file", "found", "refresh"} => At(p, "found")
        /\ proc'[p].known = proc[p].known /\ proc'[p].cred = proc[p].cred /\ proc'[p].before = proc[p].before
    BY <1>2 DEF Carries, SameHand, At, Writing, Exited, Late
  <2>2. ProcTypes(p) /\ ProcTypes(p)'
    BY <1>2 DEF Carries, Only, RaceInv, ClientTypes
  <2>3. Dropping(p)' => Dropping(p)
    BY <1>2, <2>1, <2>2 DEF Carries, Dropping, At, IsLogout, Cmd, SameAsk, ProcTypes
  <2>4. At(p, "found") => proc[p].known \subseteq complete /\ Fresh(proc[p].cred.refresh, proc[p].known)
    BY DEF RaceInv, FreshInv, ReadersKnow, At
  <2>5. ASSUME NEW r \in DOMAIN rotated, rotated[r] = p PROVE proc'[p].step \in Refreshing
    <3>1. proc[p].step \in Refreshing
      BY <1>0, <2>1, <2>5
    <3>2. ~IsLogout(p)
      BY <1>0, <2>1, <2>5 DEF IsLogout
    <3> QED BY <1>2, <2>2, <3>1, <3>2 DEF Carries, Refreshing, At, ProcTypes
  <2> QED BY <1>0, <1>2, <2>1, <2>3, <2>4, <2>5, QuietStepsStayFresh DEF Carries, Only
<1>3. CASE Misses(p)
  <2>1. /\ proc[p].step \notin Exited \cup Late \cup Refreshing /\ ~At(p, "config")
        /\ proc'[p].step \notin Writing \cup {"found", "refresh"} /\ ~Dropping(p)' /\ proc'[p].known = complete
    BY <1>3 DEF Misses, At, Exited, Late, Refreshing, Writing, Dropping
  <2> QED BY <1>0, <1>3, <2>1, QuietStepsStayFresh DEF Misses, Only
<1>4. CASE Finds(p)
  <2>1. /\ proc[p].step \notin Exited \cup Late \cup Refreshing /\ ~At(p, "config")
        /\ proc'[p].step \notin Writing /\ ~Dropping(p)'
    BY <1>4 DEF Finds, At, Exited, Late, Refreshing, Writing, Dropping
  <2>2. H(p) \in Host
    BY <1>4, HostOf DEF Finds, At, InSession, Early, RaceInv
  <2>3. At(p, "file") => proc[p].known \subseteq complete
    BY DEF RaceInv, FreshInv, ReadersKnow, At
  <2>4. proc'[p].known \subseteq complete
    BY <1>4, <2>3 DEF Finds
  <2>5. Fresh(proc'[p].cred.refresh, proc'[p].known)
    <3>1. CASE H(p) \in spoiled
      BY <1>4, <3>1 DEF Finds, Fresh
    <3>2. CASE H(p) \notin spoiled
      <4>1. Fresh(Token(keyring[H(p)]), complete) /\ Fresh(Token(intact[H(p)]), complete)
        BY <2>2, <3>2 DEF RaceInv, FreshInv, StoresFresh
      <4>2. Fresh(proc'[p].cred.refresh, complete)
        BY <1>4, <4>1 DEF Finds, Token
      <4> QED BY <2>4, <4>2 DEF Fresh
    <3> QED BY <3>1, <3>2
  <2> QED BY <1>0, <1>4, <2>1, <2>4, <2>5, QuietStepsStayFresh DEF Finds, Only
<1> QED BY <1>1, <1>2, <1>3, <1>4

LEMMA GetsStaysFresh ==
    ASSUME RaceInv, NEW p \in Proc, Gets(p) PROVE FreshInv'
<1> PICK old : old = proc[p].cred.refresh
  OBVIOUS
<1>1. /\ \A q \in Proc \ {p} : proc'[q] = proc[q]
      /\ UNCHANGED <<keyring, intact, settled, complete, spoiled>>
      /\ ProcTypes(p)' /\ ProcTypes(p)
  BY DEF Gets, Only, creds, told, RaceInv, ClientTypes
<1>2. /\ proc[p].step \notin Exited \cup Late \cup Refreshing /\ ~At(p, "config")
      /\ proc'[p].step \in Exited \cup {"set"}
      /\ proc'[p].step \notin Writing \cup {"file", "found", "refresh"} /\ ~Dropping(p)'
  BY DEF Gets, At, Exited, Late, Refreshing, Writing, Dropping
<1>3. p \notin complete
  BY <1>2, NotOver
<1>4. \/ rotated' = rotated
      \/ /\ DOMAIN rotated' = DOMAIN rotated \cup {old} /\ rotated'[old] = p /\ At(p, "refresh")
         /\ \A r \in DOMAIN rotated \ {old} : rotated'[r] = rotated[r]
  <2>1. CASE UNCHANGED idp
    BY <2>1 DEF idp
  <2>2. CASE Grant(p, 0)
    BY <2>2 DEF Grant
  <2>3. CASE At(p, "refresh") /\ Grant(p, old)
    BY <2>3 DEF Grant, With
  <2> QED BY <2>1, <2>2, <2>3 DEF Gets
<1>5. ASSUME NEW r, NEW known, p \notin known, Fresh(r, known) PROVE r \in DOMAIN rotated' => rotated'[r] \notin known
  BY <1>4, <1>5 DEF Fresh
<1>6. \A v : Ended(v) => Ended(v)'
  BY <1>1, <1>2, EndedStays
<1>7. StoresFresh'
  BY <1>1, <1>3, <1>5 DEF RaceInv, FreshInv, StoresFresh, Fresh
<1>8. ReadersKnow'
  <2> SUFFICES ASSUME NEW q \in Proc, proc'[q].step \in {"file", "found", "refresh"}
               PROVE  /\ proc'[q].known \subseteq complete'
                      /\ proc'[q].step \in {"found", "refresh"} => Fresh(proc[q].cred.refresh, proc[q].known)'
    BY DEF ReadersKnow
  <2>1. proc'[q] = proc[q]
    BY <1>1, <1>2
  <2>2. /\ proc[q].known \subseteq complete
        /\ proc[q].step \in {"found", "refresh"} => Fresh(proc[q].cred.refresh, proc[q].known)
    BY <2>1 DEF RaceInv, FreshInv, ReadersKnow
  <2> QED BY <1>1, <1>3, <1>5, <2>1, <2>2 DEF Fresh
<1>9. CompleteAre'
  <2> SUFFICES ASSUME NEW q \in complete
               PROVE  proc'[q].step \in Exited \cup Late \/ (At(q, "config")' /\ IsLogout(q)')
    BY <1>1 DEF CompleteAre
  <2>1. q \in Proc \ {p}
    BY <1>3 DEF RaceInv, ClientTypes
  <2>2. proc'[q] = proc[q]
    BY <1>1, <2>1
  <2> QED BY <2>2 DEF RaceInv, FreshInv, CompleteAre, At, IsLogout, Cmd
<1>10. Rotators'
  <2> SUFFICES ASSUME NEW r \in DOMAIN rotated', NEW q, q = rotated'[r]
               PROVE  \/ proc'[q].step \in Exited
                      \/ /\ proc'[q].step \in Refreshing /\ Cmd(q)' \notin {"login", "logout"}
                         /\ Dropping(q)' => Token(keyring[H(q)])' # r
    BY DEF Rotators, H, Cmd, Dropping, IsLogout, At
  <2>1. CASE r \in DOMAIN rotated /\ rotated[r] = q
    <3>1. q # p
      BY <1>2, <2>1, RotatedBy
    <3>2. proc'[q] = proc[q]
      BY <1>1, <2>1, <3>1, RotatedBy
    <3> QED BY <1>1, <2>1, <3>2, RotatedBy, Same
  <2>2. CASE q = p /\ At(p, "refresh")
    <3>1. CASE proc'[p].step \in Exited
      BY <2>2, <3>1
    <3>2. CASE At(p, "set")'
      <4>1. Cmd(p)' = Cmd(p) /\ Cmd(p) # "login" /\ ~IsLogout(p)
        BY <1>1, <2>2, <3>2 DEF Gets, SameAsk, Cmd, ProcTypes, Early, At
      <4> QED BY <1>2, <2>2, <3>2, <4>1 DEF At, Refreshing, IsLogout
    <3> QED BY <1>2, <3>1, <3>2 DEF At
  <2> QED BY <1>4, <2>1, <2>2
<1>11. Befores'
  <2>1. \A h \in Host : \A v \in settled'[h] : Ended(v)'
    BY <1>1, <1>6 DEF RaceInv, FreshInv, Befores
  <2>2. ASSUME NEW q \in Proc, proc'[q].step \in Writing PROVE \A v \in proc'[q].before : Ended(v)'
    <3>1. proc'[q] = proc[q]
      BY <1>1, <1>2, <2>2
    <3> QED BY <1>6, <2>2, <3>1 DEF RaceInv, FreshInv, Befores
  <2> QED BY <2>1, <2>2 DEF Befores
<1>12. Undisturbed'
  <2> SUFFICES ASSUME NEW q \in Proc, Dropping(q)', Alone(q)' PROVE Fresh(proc[q].cred.refresh, complete)'
    BY DEF Undisturbed
  <2>1. proc'[q] = proc[q]
    BY <1>1, <1>2
  <2>2. Dropping(q) /\ Alone(q)
    BY <1>1, <2>1, Same DEF Alone
  <2>3. Fresh(proc[q].cred.refresh, complete)
    BY <2>2 DEF RaceInv, FreshInv, Undisturbed
  <2> QED BY <1>1, <1>3, <1>5, <2>1, <2>3 DEF Fresh
<1> QED BY <1>7, <1>8, <1>9, <1>10, <1>11, <1>12 DEF FreshInv

\* What the steps that write leave in order, but for the stores and their own place.
LEMMA WritersStayFresh ==
    ASSUME RaceInv, NEW p \in Proc, \A q \in Proc \ {p} : proc'[q] = proc[q],
           proc[p].step \notin Exited, UNCHANGED idp,
           complete \subseteq complete', complete' \subseteq complete \cup {p},
           proc'[p].step \notin {"file", "found", "refresh"},
           p \in complete' => proc'[p].step \in Exited \cup Late \/ (At(p, "config")' /\ IsLogout(p)'),
           \A h \in Host : \A v \in settled'[h] : v \in settled[h] \/ Ended(v)',
           proc'[p].step \in Writing => \A v \in proc'[p].before : Ended(v)
    PROVE  ReadersKnow' /\ CompleteAre' /\ Befores'
<1>1. \A v : Ended(v) => Ended(v)'
  BY EndedStays
<1>2. ReadersKnow'
  <2> SUFFICES ASSUME NEW q \in Proc, proc'[q].step \in {"file", "found", "refresh"}
               PROVE  /\ proc'[q].known \subseteq complete'
                      /\ proc'[q].step \in {"found", "refresh"} => Fresh(proc[q].cred.refresh, proc[q].known)'
    BY DEF ReadersKnow
  <2>1. proc'[q] = proc[q]
    OBVIOUS
  <2> QED BY <2>1 DEF RaceInv, FreshInv, ReadersKnow, Fresh, idp
<1>3. CompleteAre'
  <2> SUFFICES ASSUME NEW q \in complete'
               PROVE  proc'[q].step \in Exited \cup Late \/ (At(q, "config")' /\ IsLogout(q)')
    BY DEF CompleteAre
  <2>1. CASE q # p
    <3>1. q \in complete /\ q \in Proc
      BY <2>1 DEF RaceInv, ClientTypes
    <3>2. proc'[q] = proc[q]
      BY <2>1, <3>1
    <3> QED BY <3>1, <3>2 DEF RaceInv, FreshInv, CompleteAre, At, IsLogout, Cmd
  <2> QED BY <2>1
<1>4. Befores'
  <2>1. \A h \in Host : \A v \in settled'[h] : Ended(v)'
    BY <1>1 DEF RaceInv, FreshInv, Befores
  <2>2. ASSUME NEW q \in Proc, proc'[q].step \in Writing PROVE \A v \in proc'[q].before : Ended(v)'
    <3>1. CASE q = p
      BY <1>1, <2>2, <3>1
    <3>2. CASE q # p
      BY <1>1, <2>2, <3>2 DEF RaceInv, FreshInv, Befores
    <3> QED BY <3>1, <3>2
  <2> QED BY <2>1, <2>2 DEF Befores
<1> QED BY <1>2, <1>3, <1>4

LEMMA BreaksStayFresh ==
    ASSUME RaceInv, NEW p \in Proc, Breaks(p) PROVE FreshInv'
<1>1. /\ \A q \in Proc \ {p} : proc'[q] = proc[q]
      /\ UNCHANGED <<keyring, intact, complete, spoiled, rotated, idp>> /\ DOMAIN settled = Host
  BY DEF Breaks, Only, idp, RaceInv, ClientTypes
<1>2. /\ proc[p].step \notin Exited \cup Late /\ ~At(p, "config") /\ proc'[p].step \in Exited
      /\ proc'[p].step \notin Writing \cup {"file", "found", "refresh"} /\ ~Dropping(p)'
  BY DEF Breaks, Writing, Exited, Late, At, Dropping
<1>3. p \notin complete /\ ~Ended(Written(p))
  BY <1>2, NotOver
<1>4. StoresFresh'
  BY <1>1 DEF RaceInv, FreshInv, StoresFresh, Fresh
<1>5. ReadersKnow' /\ CompleteAre' /\ Befores'
  <2>1. Ended(Written(p))'
    BY <1>2 DEF Ended, Written
  <2>2. \A v : v = Written(p) => Ended(v)'
    BY <1>2 DEF Ended, Written
  <2>3. \A h \in Host : \A v \in settled'[h] : v \in settled[h] \/ Ended(v)'
    BY <1>1, <2>2 DEF Breaks
  <2> QED BY <1>1, <1>2, <1>3, <2>3, WritersStayFresh
<1>6. Rotators'
  <2> SUFFICES ASSUME NEW r \in DOMAIN rotated, NEW q, q = rotated[r]
               PROVE  \/ proc'[q].step \in Exited
                      \/ /\ proc'[q].step \in Refreshing /\ Cmd(q)' \notin {"login", "logout"}
                         /\ Dropping(q)' => Token(keyring[H(q)])' # r
    BY <1>1 DEF Rotators, H, Cmd, Dropping, IsLogout, At
  <2>1. CASE q = p
    BY <1>2, <2>1
  <2>2. CASE q # p
    <3>1. proc'[q] = proc[q]
      BY <1>1, <2>2, RotatedBy
    <3> QED BY <1>1, <3>1, RotatedBy, Same
  <2> QED BY <2>1, <2>2
<1>7. Undisturbed'
  <2> SUFFICES ASSUME NEW q \in Proc, Dropping(q)', Alone(q)' PROVE Fresh(proc[q].cred.refresh, complete)'
    BY DEF Undisturbed
  <2>1. proc'[q] = proc[q] /\ Dropping(q) /\ H(q)' = H(q)
    BY <1>1, <1>2, Same
  <2>2. H(q) # H(p)
    <3>1. SUFFICES ASSUME H(q) = H(p) PROVE FALSE
      OBVIOUS
    <3>2. At(q, "drop") \/ At(q, "dropping") \/ At(q, "refill")
      BY <2>1 DEF Dropping, At
    <3>3. H(q) \in Host
      BY <2>1, HostsOf DEF HasCred, RaceInv
    <3>4. Written(p) \in settled'[H(q)]
      BY <1>1, <3>1, <3>3 DEF Breaks
    <3>5. Written(p) \in proc[q].before
      BY <2>1, <3>4 DEF Alone
    <3> QED BY <1>3, <3>2, <3>5 DEF RaceInv, FreshInv, Befores, Writing, At
  <2>3. Alone(q)
    BY <1>1, <2>1, <2>2 DEF Alone, Breaks
  <2> QED BY <1>1, <2>1, <2>3 DEF RaceInv, FreshInv, Undisturbed, Fresh
<1> QED BY <1>4, <1>5, <1>6, <1>7 DEF FreshInv

LEMMA EffectsStayFresh ==
    ASSUME RaceInv, NEW p \in Proc, Effects(p) PROVE FreshInv'
<1>1. /\ \A q \in Proc \ {p} : proc'[q] = proc[q]
      /\ UNCHANGED <<intact, settled, complete, rotated, idp>> /\ spoiled \subseteq spoiled'
      /\ SameAsk(p) /\ H(p)' = H(p) /\ proc'[p].cred = proc[p].cred /\ proc'[p].before = settled[H(p)]
      /\ ClientTypes /\ ProcTypes(p) /\ ProcTypes(p)' /\ proc[p].step \in {"set", "unset"}
  BY DEF Effects, idp, RaceInv, ClientTypes, SameAsk, H, At
<1>2. /\ proc[p].step \notin Exited \cup Late /\ ~At(p, "config")
      /\ proc'[p].step \notin Exited \cup Late \cup {"file", "found", "refresh"}
  BY DEF Effects, Exited, Late, At
<1>3. p \notin complete /\ H(p) \in Host
  BY <1>1, <1>2, NotOver, HostOf DEF InSession
<1>4. At(p, "set") => New(p)
  BY DEF New, At
\* What it puts into the keyring.
<1>5. \/ keyring' = keyring
      \/ /\ \A h \in Host \ {H(p)} : keyring'[h] = keyring[h]
         /\ \/ keyring'[H(p)] = NoCred
            \/ At(p, "set") /\ keyring'[H(p)] = proc[p].cred
  BY <1>1, <1>3 DEF Effects, ClientTypes, Contents
<1>6. \A h \in Host : keyring'[h] = keyring[h] \/ Token(keyring'[h]) \notin DOMAIN rotated
  <2>1. Token(NoCred) \notin DOMAIN rotated
    BY LiveIsFresh DEF Token
  <2>2. At(p, "set") => Token(proc[p].cred) \notin DOMAIN rotated
    BY <1>4, NewIsFresh
  <2> QED BY <1>5, <2>1, <2>2
<1>7. StoresFresh'
  <2> SUFFICES ASSUME NEW h \in Host \ spoiled'
               PROVE  Fresh(Token(keyring[h]), complete)' /\ Fresh(Token(intact[h]), complete)'
    BY DEF StoresFresh
  <2>1. Fresh(Token(keyring[h]), complete) /\ Fresh(Token(intact[h]), complete)
    BY <1>1 DEF RaceInv, FreshInv, StoresFresh
  <2> QED BY <1>1, <1>6, <2>1 DEF Fresh
<1>8. ReadersKnow' /\ CompleteAre' /\ Befores'
  <2>1. \A v \in proc'[p].before : Ended(v)
    BY <1>1, <1>3 DEF RaceInv, FreshInv, Befores
  <2> QED BY <1>1, <1>2, <1>3, <2>1, WritersStayFresh
<1>9. Rotators'
  <2> SUFFICES ASSUME NEW r \in DOMAIN rotated, NEW q, q = rotated[r]
               PROVE  \/ proc'[q].step \in Exited
                      \/ /\ proc'[q].step \in Refreshing /\ Cmd(q)' \notin {"login", "logout"}
                         /\ Dropping(q)' => Token(keyring[H(q)])' # r
    BY <1>1 DEF Rotators, H, Cmd, Dropping, IsLogout, At
  <2>1. CASE q = p
    <3>1. Cmd(p) \notin {"login", "logout"} /\ At(p, "set")
      BY <1>1, <1>2, <2>1, RotatedBy DEF Refreshing, At
    <3>2. proc'[p].step \in Refreshing /\ Cmd(p)' = Cmd(p)
      BY <1>1, <3>1 DEF Effects, Refreshing, At, Cmd, SameAsk
    <3>3. ASSUME Dropping(p)' PROVE Token(keyring'[H(p)]) # r
      <4>1. At(p, "drop")'
        BY <1>1, <3>3 DEF Effects, Dropping, At
      <4>2. keyring'[H(p)] = proc[p].cred
        BY <1>1, <1>3, <3>1, <4>1 DEF Effects, At, ClientTypes, Contents
      <4> QED BY <1>4, <3>1, <4>2, NewIsFresh
    <3> QED BY <1>1, <2>1, <3>1, <3>2, <3>3
  <2>2. CASE q # p
    <3>1. proc'[q] = proc[q] /\ q \in Proc
      BY <1>1, <2>2, RotatedBy
    <3>2. Dropping(q) => H(q) \in Host
      BY <1>1, <3>1, HostsOf DEF HasCred
    <3> QED BY <1>6, <3>1, <3>2, RotatedBy, Same
  <2> QED BY <2>1, <2>2
<1>10. Undisturbed'
  <2> SUFFICES ASSUME NEW q \in Proc, Dropping(q)', Alone(q)' PROVE Fresh(proc[q].cred.refresh, complete)'
    BY DEF Undisturbed
  <2>1. CASE q = p
    <3>1. At(p, "set")
      BY <1>1, <2>1 DEF Effects, Dropping, At, IsLogout, Cmd
    <3> QED BY <1>1, <1>4, <2>1, <3>1, NewIsFresh DEF Fresh
  <2>2. CASE q # p
    <3>1. proc'[q] = proc[q] /\ Dropping(q) /\ H(q)' = H(q)
      BY <1>1, <2>2, Same
    <3>2. H(q) \in Host /\ proc[q].cred \in Cred
      BY <1>1, <3>1, HostsOf DEF HasCred, ClientTypes, ProcTypes
    <3>3. CASE keyring'[H(q)] = keyring[H(q)]
      <4>1. Alone(q)
        BY <1>1, <3>1, <3>3 DEF Alone
      <4> QED BY <1>1, <3>1, <4>1 DEF RaceInv, FreshInv, Undisturbed, Fresh
    <3>4. CASE Token(keyring'[H(q)]) \notin DOMAIN rotated
      <4>1. keyring'[H(q)] = proc[q].cred
        BY <3>1 DEF Alone
      <4>2. Token(proc[q].cred) = proc[q].cred.refresh
        BY <3>2, MarksAreNew DEF Token
      <4> QED BY <1>1, <3>1, <3>4, <4>1, <4>2 DEF Fresh
    <3> QED BY <1>6, <3>2, <3>3, <3>4
  <2> QED BY <2>1, <2>2
<1> QED BY <1>7, <1>8, <1>9, <1>10 DEF FreshInv

LEMMA FinishesStaysFresh ==
    ASSUME RaceInv, ClientTypes', NEW p \in Proc, Finishes(p) PROVE FreshInv'
<1>1. /\ \A q \in Proc \ {p} : proc'[q] = proc[q]
      /\ UNCHANGED <<keyring, rotated, idp>> /\ complete' = complete \cup {p}
      /\ SameAsk(p) /\ H(p)' = H(p) /\ (IsLogout(p)' <=> IsLogout(p)) /\ Cmd(p)' = Cmd(p)
      /\ ClientTypes /\ ProcTypes(p) /\ proc[p].step \in Writing
  BY DEF Finishes, Only, idp, RaceInv, ClientTypes, SameAsk, H, IsLogout, Cmd, Dropping, Erasing, Writing, At
<1>2. /\ proc[p].step \notin Exited \cup Late /\ ~At(p, "config") /\ H(p) \in Host
  BY <1>1, HostOf DEF InSession, Writing, Exited, Late, At
<1>3. /\ proc'[p].step = IF Cmd(p) = "login" THEN "hosts" ELSE IF IsLogout(p) THEN "config" ELSE "call"
      /\ proc'[p].step \notin Exited \cup Writing \cup {"file", "found", "refresh"}
      /\ ~Dropping(p)'
  BY DEF Finishes, Continue, Cmd, IsLogout, Exited, Writing, Dropping, At
<1>4. p \notin complete /\ ~Ended(Written(p))
  BY <1>2, NotOver
\* The tokens that p had replaced were of its host.
<1>5. ASSUME NEW r \in DOMAIN rotated, rotated[r] = p, NEW h \in Host, TokenOf(r, h) PROVE h = H(p)
  <2>1. WasOf(r, H(p))
    BY <1>2, <1>5 DEF WasOf
  <2>2. r \in RefreshToken
    <3>1. DOMAIN rotated \subseteq 1 .. issued /\ issued \in Nat
      BY DEF RaceInv, TokenInv, Tokens, ClientTypes
    <3> QED BY <3>1 DEF RefreshToken
  <2> QED BY <1>2, <1>5, <2>1, <2>2 DEF RaceInv, TokenInv, OneHost, TokenOf
<1>6. \A r, known : Fresh(r, known) /\ (r \in DOMAIN rotated => rotated[r] # p) => Fresh(r, known \cup {p})
  BY DEF Fresh
<1>7. Fresh(Token(NoCred), complete')
  BY LiveIsFresh DEF Fresh, Token
<1>8. StoresFresh'
  <2> SUFFICES ASSUME NEW h \in Host \ spoiled'
               PROVE  Fresh(Token(keyring'[h]), complete') /\ Fresh(Token(intact'[h]), complete')
    BY <1>1 DEF StoresFresh, Fresh
  <2>1. CASE h # H(p)
    <3>1. h \notin spoiled /\ intact'[h] = intact[h] /\ keyring'[h] = keyring[h]
      BY <1>1, <2>1 DEF Finishes, Undone
    <3>2. Fresh(Token(keyring[h]), complete) /\ Fresh(Token(intact[h]), complete)
      BY <3>1 DEF RaceInv, FreshInv, StoresFresh
    <3>3. \A r \in DOMAIN rotated : r \in {Token(keyring[h]), Token(intact[h])} => rotated[r] # p
      BY <1>5, <2>1 DEF TokenOf, InStores
    <3> QED BY <1>1, <1>6, <3>1, <3>2, <3>3
  <2>2. CASE h = H(p)
    <3>1. CASE Dropping(p)
      <4>1. intact'[h] = NoCred
        BY <2>2, <3>1 DEF Finishes, Dropping, Erasing, At
      <4>2. \A r \in DOMAIN rotated : r = Token(keyring[h]) => rotated[r] # p
        BY <1>2, <2>2, <3>1, RotatedBy
      <4>3. Fresh(Token(keyring[h]), complete)
        <5>1. CASE h \notin spoiled
          BY <5>1 DEF RaceInv, FreshInv, StoresFresh
        <5>2. CASE keyring[h] = proc[p].cred /\ settled[h] = proc[p].before
          <6>1. Fresh(proc[p].cred.refresh, complete)
            BY <2>2, <3>1, <5>2 DEF RaceInv, FreshInv, Undisturbed, Alone
          <6>2. proc[p].cred \in Cred
            BY <1>1, <3>1 DEF ProcTypes, HasCred
          <6> QED BY <5>2, <6>1, <6>2, MarksAreNew DEF Token
        <5> QED BY <2>2, <3>1, <5>1, <5>2 DEF Finishes, Dropping, Erasing, At
      <4> QED BY <1>1, <1>6, <1>7, <4>1, <4>2, <4>3
    <3>2. CASE At(p, "adding")
      <4>1. New(p) /\ HasPages(p) /\ proc[p].pages \in Contents
        BY <1>1, <3>2 DEF New, HasPages, ProcTypes, At
      <4>2. /\ intact' = [proc[p].pages EXCEPT ![H(p)] = proc[p].cred]
            /\ H(p) \in spoiled \/ keyring[H(p)] # NoCred => H(p) \in spoiled'
        BY <3>2 DEF Finishes, Dropping, Erasing, At
      <4>3. intact'[h] = proc[p].cred /\ keyring[h] = NoCred
        BY <2>2, <4>1, <4>2 DEF Contents
      <4>4. Fresh(Token(intact'[h]), complete')
        BY <4>1, <4>3, NewIsFresh DEF Fresh
      <4> QED BY <1>1, <1>7, <4>3, <4>4
    <3>3. CASE Erasing(p)
      <4>1. intact'[h] = NoCred /\ h \notin spoiled
        BY <2>2, <3>3 DEF Finishes, Dropping, Erasing, At
      <4>2. IsLogout(p)
        BY <1>1, <3>3 DEF Erasing, ProcTypes, At
      <4>3. \A r \in DOMAIN rotated : rotated[r] # p
        BY <1>2, <4>2, RotatedBy DEF IsLogout
      <4>4. Fresh(Token(keyring[h]), complete)
        BY <4>1 DEF RaceInv, FreshInv, StoresFresh
      <4> QED BY <1>1, <1>6, <1>7, <4>1, <4>3, <4>4
    <3> QED BY <3>1, <3>2, <3>3 DEF Finishes
  <2> QED BY <2>1, <2>2
<1>9. ReadersKnow' /\ CompleteAre' /\ Befores'
  <2>1. \A v : v = Written(p) => Ended(v)'
    BY <1>1 DEF Ended, Written
  <2>2. \A h \in Host : \A v \in settled'[h] : v \in settled[h] \/ Ended(v)'
    BY <1>1, <1>2, <2>1 DEF Finishes, ClientTypes
  <2>3. proc'[p].step \in Exited \cup Late \/ (At(p, "config")' /\ IsLogout(p)')
    BY <1>1, <1>3 DEF Late, At
  <2> QED BY <1>1, <1>2, <1>3, <2>2, <2>3, WritersStayFresh
<1>10. Rotators'
  <2> SUFFICES ASSUME NEW r \in DOMAIN rotated, NEW q, q = rotated[r]
               PROVE  \/ proc'[q].step \in Exited
                      \/ /\ proc'[q].step \in Refreshing /\ Cmd(q)' \notin {"login", "logout"}
                         /\ Dropping(q)' => Token(keyring[H(q)])' # r
    BY <1>1 DEF Rotators, H, Cmd, Dropping, IsLogout, At
  <2>1. CASE q = p
    <3>1. Cmd(p) \notin {"login", "logout"}
      BY <1>2, <2>1, RotatedBy
    <3> QED BY <1>1, <1>3, <2>1, <3>1 DEF IsLogout, Refreshing
  <2>2. CASE q # p
    <3>1. proc'[q] = proc[q]
      BY <1>1, <2>2, RotatedBy
    <3> QED BY <1>1, <3>1, RotatedBy, Same
  <2> QED BY <2>1, <2>2
<1>11. Undisturbed'
  <2> SUFFICES ASSUME NEW q \in Proc, Dropping(q)', Alone(q)' PROVE Fresh(proc[q].cred.refresh, complete)'
    BY DEF Undisturbed
  <2>1. proc'[q] = proc[q] /\ Dropping(q) /\ H(q)' = H(q) /\ q # p
    BY <1>1, <1>3, Same
  <2>2. HasCred(q) /\ H(q) \in Host /\ proc[q].step \in Writing
    BY <1>1, <2>1, HostsOf DEF HasCred, Dropping, Writing, At
  <2>3. H(q) # H(p)
    <3>1. SUFFICES ASSUME H(q) = H(p) PROVE FALSE
      OBVIOUS
    <3>2. Written(p) \in settled'[H(q)]
      BY <1>1, <2>2, <3>1 DEF Finishes, ClientTypes
    <3>3. Written(p) \in proc[q].before
      BY <2>1, <3>2 DEF Alone
    <3> QED BY <1>4, <2>2, <3>3 DEF RaceInv, FreshInv, Befores
  <2>4. settled'[H(q)] = settled[H(q)]
    BY <1>1, <2>2, <2>3 DEF Finishes, ClientTypes
  <2>5. Alone(q)
    BY <1>1, <2>1, <2>4 DEF Alone
  <2>6. Fresh(proc[q].cred.refresh, complete)
    BY <2>1, <2>5 DEF RaceInv, FreshInv, Undisturbed
  <2>7. \A r \in DOMAIN rotated : r = proc[q].cred.refresh => rotated[r] # p
    BY <1>5, <2>2, <2>3 DEF TokenOf, InHands
  <2> QED BY <1>1, <1>6, <2>1, <2>6, <2>7 DEF Fresh
<1> QED BY <1>8, <1>9, <1>10, <1>11 DEF FreshInv

LEMMA RaceInvKept == RaceInv /\ [Next]_vars => RaceInv'
<1> SUFFICES ASSUME RaceInv, [Next]_vars PROVE RaceInv'
  OBVIOUS
<1>1. ClientTypes /\ ClientTypes'
  BY TypesKept DEF RaceInv
<1>2. CASE Still
  <2>1. FreshInv'
    BY <1>2 DEF Still, creds, told, idp, RaceInv, FreshInv, StoresFresh, ReadersKnow, CompleteAre, Rotators, Befores,
       Undisturbed, Alone, Dropping, IsLogout, Cmd, H, At, Ended, Fresh
  <2>2. TokenInv'
    <3>1. CASE Proc # {}
      BY <1>1, <1>2, <3>1, StillFlows, FlowKeepsTokens DEF RaceInv
    <3>2. CASE Proc = {}
      BY <1>2, <3>2 DEF Still, creds, idp, RaceInv, TokenInv, Tokens, OneHost, InHand, TokenOf, InStores, InHands, WasOf
    <3> QED BY <3>1, <3>2
  <2> QED BY <1>1, <2>1, <2>2 DEF RaceInv
<1>3. ASSUME NEW p \in Proc, Event(p) PROVE RaceInv'
  <2>1. TokenInv'
    <3>1. CASE Gets(p)
      BY <1>1, <3>1, GetsKeepsTokens
    <3>2. CASE ~Gets(p)
      <4>1. Flow
        BY <1>1, <1>3, <3>2, EventFlows
      <4> QED BY <1>1, <4>1, FlowKeepsTokens DEF RaceInv
    <3> QED BY <3>1, <3>2
  <2>2. FreshInv'
    BY <1>1, <1>3, QuietEventsStayFresh, GetsStaysFresh, EffectsStayFresh, FinishesStaysFresh, BreaksStayFresh DEF Event
  <2> QED BY <1>1, <2>1, <2>2 DEF RaceInv
<1> QED BY <1>1, <1>2, <1>3, NextIs

LEMMA InitRace == Init => RaceInv
<1> SUFFICES ASSUME Init PROVE RaceInv
  OBVIOUS
<1> DEFINE l == Loads[load]
<1>1. /\ load \in DOMAIN Loads /\ proc = [p \in Proc |-> Idle]
      /\ keyring = With(Empty, l.keyring) /\ intact = With(Empty, l.file) /\ file \in {intact, Unreadable}
      /\ DOMAIN settled = Host /\ \A h \in Host : \A v \in settled[h] : v.by = Start
      /\ issued = 1 /\ live = {1} /\ rotated = <<>>
      /\ seen = [p \in Proc |-> {}] /\ complete = {} /\ spoiled = {}
  BY DEF Init
<1>2. PICK own \in Host : \A g \in Host \ {own} :
        /\ g \in DOMAIN l.keyring => l.keyring[g].refresh = 0
        /\ g \in DOMAIN l.file => l.file[g].refresh = 0
  BY <1>1, LoadsAreStates
<1>3. /\ DOMAIN l.keyring \subseteq Host /\ DOMAIN l.file \subseteq Host
      /\ \A h \in DOMAIN l.keyring : l.keyring[h] \in FirstCred
      /\ \A h \in DOMAIN l.file : l.file[h] \in FirstCred
  BY <1>1, LoadsAreStates
<1> HIDE DEF l
<1>4. /\ DOMAIN keyring = Host
      /\ \A h \in Host : keyring[h] = IF h \in DOMAIN l.keyring THEN l.keyring[h] ELSE NoCred
  BY <1>1, <1>3 DEF With, Empty
<1>5. /\ DOMAIN intact = Host
      /\ \A h \in Host : intact[h] = IF h \in DOMAIN l.file THEN l.file[h] ELSE NoCred
  BY <1>1, <1>3 DEF With, Empty
<1>6. keyring = [h \in Host |-> keyring[h]] /\ intact = [h \in Host |-> intact[h]]
  BY <1>1, <1>4, <1>5 DEF With
<1>7. keyring \in Contents /\ intact \in Contents
  BY <1>3, <1>4, <1>5, <1>6 DEF Contents, FirstCred
<1>8. \A h \in Host : /\ Token(keyring[h]) \in {0, 1} /\ Token(intact[h]) \in {0, 1}
                      /\ h # own => Token(keyring[h]) = 0 /\ Token(intact[h]) = 0
  BY <1>2, <1>3, <1>4, <1>5 DEF Token, FirstCred
<1>9. \A p \in Proc : At(p, "idle") /\ DOMAIN proc[p] = Fields
  BY <1>1 DEF At, Idle, Fields
<1>10. \A p \in Proc : ~HasCred(p) /\ ~HasPages(p) /\ ~New(p) /\ ~Dropping(p) /\ ProcTypes(p)
  BY <1>9 DEF HasCred, HasPages, New, Dropping, At, ProcTypes, InSession, Early, Late, Writing
<1>11. ClientTypes
  BY <1>1, <1>7, <1>10 DEF ClientTypes
<1>12. ASSUME NEW r \in RefreshToken, NEW h \in Host, TokenOf(r, h) PROVE r = 1 /\ h = own
  <2>1. DOMAIN rotated = {}
    BY <1>1
  <2>2. Token(keyring[h]) = r \/ Token(intact[h]) = r
    BY <1>10, <1>12, <2>1 DEF TokenOf, InStores, InHands, WasOf
  <2>3. r # 0
    BY DEF RefreshToken
  <2> QED BY <1>8, <2>2, <2>3
<1>13. TokenInv
  <2>1. DOMAIN rotated = {} /\ live = {1} /\ issued = 1 /\ 1 \in 1 .. 1
    BY <1>1
  <2>2. Tokens
    BY <1>12, <2>1 DEF Tokens
  <2>3. OneHost
    BY <1>12 DEF OneHost
  <2> QED BY <1>10, <2>2, <2>3 DEF TokenInv, InHand
<1>14. FreshInv
  <2>1. DOMAIN rotated = {}
    BY <1>1
  <2>2. \A p \in Proc : proc[p].step \notin {"file", "found", "refresh"} \cup Writing
    BY <1>9 DEF At, Writing
  <2>3. StoresFresh /\ ReadersKnow /\ CompleteAre /\ Rotators /\ Undisturbed
    BY <1>1, <1>10, <2>1, <2>2 DEF StoresFresh, ReadersKnow, CompleteAre, Rotators, Undisturbed, Fresh
  <2>4. Befores
    BY <1>1, <2>2 DEF Befores, Ended
  <2> QED BY <2>3, <2>4 DEF FreshInv
<1> QED BY <1>11, <1>13, <1>14 DEF RaceInv

\* The identity provider refuses a refresh token only because of another invocation that had
\* it replaced, and that had not stored the answer when this one began to read, or never did
\* (client.go:100-107): an invocation that begins when the one before is done is not refused,
\* in whichever of its two stores the keyring that came and went made it keep the credential.
THEOREM RefusalsAreRaces == Spec => RefusedOnlyByARace
<1> DEFINE A == \A p \in Proc :
                  At(p, "refresh") /\ RefreshRefused(p) =>
                    LET r == proc[p].cred.refresh
                    IN  r \in DOMAIN rotated /\ rotated[r] \notin proc[p].known
<1>1. RaceInv /\ [Next]_vars => [A]_sessionVars
  <2> SUFFICES ASSUME RaceInv, NEW p \in Proc, At(p, "refresh"), RefreshRefused(p), NEW r, r = proc[p].cred.refresh
               PROVE  r \in DOMAIN rotated /\ rotated[r] \notin proc[p].known
    OBVIOUS
  <2>1. HasCred(p) /\ H(p) \in Host /\ proc[p].cred \in Cred /\ r # 0
    <3>1. HasCred(p)
      BY DEF HasCred, At
    <3> QED BY <3>1, HostsOf DEF RaceInv, ClientTypes, ProcTypes
  <2>2. r \in RefreshToken
    BY <2>1 DEF Cred, RefreshToken
  <2>3. TokenOf(r, H(p))
    BY <2>1 DEF TokenOf, InHands
  <2>4. r \in live \cup DOMAIN rotated
    BY <2>1, <2>2, <2>3 DEF RaceInv, TokenInv, Tokens
  <2>5. r \notin live
    BY DEF RefreshRefused
  <2>6. Fresh(r, proc[p].known)
    BY DEF RaceInv, FreshInv, ReadersKnow, At
  <2> QED BY <2>4, <2>5, <2>6 DEF Fresh
<1>2. Spec => []RaceInv
  <2> QED BY InitRace, RaceInvKept, PTL DEF Spec
<1>3. Spec => [][Next]_vars
  BY PTL DEF Spec
<1> HIDE DEF A
<1>4. Spec => [][A]_sessionVars
  BY <1>1, <1>2, <1>3, PTL
<1> QED BY <1>4 DEF A, RefusedOnlyByARace

-----------------------------------------------------------------------------
(* The updates. *)

\* What an update has found out when it downloads a binary and puts it in place.
Updating(p) ==
    /\ proc[p].step \in {"latest", "note", "download", "apply"} => proc[p].version \in Tag
    /\ proc[p].step \in {"note", "download", "apply"} => proc[p].rel \in Release
    /\ proc[p].step \in {"download", "apply"} =>
         proc[p].ask.force \/ Newer(proc[p].rel.tag, proc[p].version)
    /\ At(p, "apply") => proc[p].rel.listed /\ proc[p].rel.sound

UpdateInv ==
    /\ ClientTypes
    /\ installed.tag \in Tag /\ published \in 0 .. Len(Releases)
    /\ \A p \in Proc : Updating(p)

\* The first component that differs decides, which is the order of versions.
LEMMA NewerIsAbove ==
    ASSUME NEW a \in Tag, NEW b \in Tag, Newer(a, b) PROVE Below(b, a)
<1>1. CASE b = Dev
  BY <1>1 DEF Newer, Below
<1>2. CASE b # Dev
  <2>1. /\ a[1] \in Nat /\ a[2] \in Nat /\ a[3] \in Nat
        /\ b[1] \in Nat /\ b[2] \in Nat /\ b[3] \in Nat /\ a # Dev
    BY <1>2 DEF Tag, Newer
  <2>2. PICK i \in 1 .. 3 : a[i] > b[i] /\ \A j \in 1 .. i - 1 : a[j] = b[j]
    BY <1>2 DEF Newer
  <2>3. CASE i = 1
    BY <2>1, <2>2, <2>3 DEF Below
  <2>4. CASE i = 2
    BY <2>1, <2>2, <2>4 DEF Below
  <2>5. CASE i = 3
    <3>1. a[1] = b[1] /\ a[2] = b[2]
      BY <2>2, <2>5
    <3> QED BY <2>1, <2>2, <2>5, <3>1 DEF Below
  <2> QED BY <2>3, <2>4, <2>5
<1> QED BY <1>1, <1>2

\* An invocation that is not updating does not come to update, but at its beginning.
LEMMA ElsewhereStays ==
    ASSUME NEW p \in Proc, Event(p), ~At(p, "idle"), proc[p].step \notin InUpdate
    PROVE  proc'[p].step \notin InUpdate /\ \A q \in Proc \ {p} : proc'[q] = proc[q]
<1>1. \A q \in Proc \ {p} : proc'[q] = proc[q]
  BY DEF Event, Rests, Carries, Misses, Finds, Gets, Effects, Finishes, Breaks, Only
<1>2. CASE Rests(p)
  BY <1>1, <1>2 DEF Rests, Exited, InUpdate
<1>3. CASE Carries(p) \/ Misses(p) \/ Finds(p) \/ Gets(p) \/ Effects(p)
  BY <1>1, <1>3 DEF Carries, Misses, Finds, Gets, Effects, At, InUpdate, Exited
<1>4. CASE Finishes(p) \/ Breaks(p)
  BY <1>1, <1>4 DEF Finishes, Breaks, Continue, InUpdate, Exited
<1> QED BY <1>1, <1>2, <1>3, <1>4 DEF Event

LEMMA InSessionOnly ==
    ASSUME NEW p \in Proc, Session(p) \/ RemoteFails(p) \/ PasteKey(p)
    PROVE  ~At(p, "idle") /\ proc[p].step \notin InUpdate
<1>1. CASE Resolves(p) \/ Stores(p)
  BY <1>1 DEF Resolves, ReadKeyring, ReadFile, Stores, SetKeyring, UnsetKeyring, DropCopy, LoadToAdd, LoadToErase,
     ReplaceFile, CannotReplaceFile, RemoveFile, CutFile, RefillFile, At, InUpdate
<1>2. CASE LoadConfig(p) \/ Found(p) \/ Absent(p) \/ RefreshGranted(p) \/ RefreshRefused(p) \/ ChooseMode(p)
  BY <1>2 DEF LoadConfig, Found, Absent, RefreshGranted, RefreshRefused, ChooseMode, At, InUpdate
<1>3. CASE Sleep(p) \/ PollToken(p) \/ SaveHosts(p) \/ CallVault(p) \/ DeleteByName(p) \/ RemoteFails(p) \/ PasteKey(p)
  BY <1>3 DEF Sleep, PollToken, SaveHosts, CallVault, DeleteByName, RemoteFails, PasteKey, At, InUpdate
<1> QED BY <1>1, <1>2, <1>3 DEF Session

LEMMA OthersUpdate ==
    ASSUME UpdateInv, NEW p \in Proc, \A q \in Proc \ {p} : proc'[q] = proc[q], Updating(p)'
    PROVE  \A q \in Proc : Updating(q)'
<1>1. ASSUME NEW q \in Proc \ {p} PROVE Updating(q)'
  BY DEF UpdateInv, Updating, At
<1> QED BY <1>1

LEMMA DoneUpdating ==
    ASSUME NEW p \in Proc, proc'[p].step \notin {"latest", "note", "download", "apply"} PROVE Updating(p)'
  BY DEF Updating, At

LEMMA BeginUpdates ==
    ASSUME UpdateInv, NEW p \in Proc, Begin(p) PROVE \A q \in Proc : Updating(q)'
<1>1. DOMAIN proc = Proc /\ DOMAIN proc[p] = Fields /\ installed.tag \in Tag
  BY DEF UpdateInv, ClientTypes, ProcTypes
<1>2. PICK q \in Loads[load].asks[p] :
        LET first == IF q.cmd \in {"update", "skill"} THEN FirstUpdateStep(q) ELSE FirstStep(q)
        IN  IF first \in Exited THEN Ends(p, first)
            ELSE Change(p, [step |-> first, ask |-> q, version |-> installed.tag])
  BY DEF Begin
<1> DEFINE first == IF q.cmd \in {"update", "skill"} THEN FirstUpdateStep(q) ELSE FirstStep(q)
           c == [step |-> first, ask |-> q, version |-> installed.tag]
<1>3. CASE first \in Exited
  <2>1. Ends(p, first)
    BY <1>2, <1>3
  <2> HIDE DEF first
  <2>2. proc'[p].step \in Exited /\ \A x \in Proc \ {p} : proc'[x] = proc[x]
    BY <1>1, <1>3, <2>1, Exits
  <2> QED BY <2>2, DoneUpdating, OthersUpdate DEF Exited
<1>4. CASE first \notin Exited
  <2>1. first \notin {"note", "download", "apply"}
    BY DEF FirstUpdateStep, FirstStep
  <2>2. Change(p, c) /\ DOMAIN c = {"step", "ask", "version"} /\ DOMAIN c \subseteq Fields
        /\ c.step = first /\ c.version = installed.tag
    BY <1>2, <1>4 DEF Fields
  <2> HIDE DEF c
  <2>3. /\ \A x \in Proc \ {p} : proc'[x] = proc[x]
        /\ proc'[p].step = first /\ proc'[p].version = installed.tag
    BY <1>1, <2>2, Changed DEF Fields
  <2> HIDE DEF first
  <2>4. Updating(p)'
    BY <1>1, <2>1, <2>3 DEF Updating, At
  <2> QED BY <2>3, <2>4, OthersUpdate
<1> QED BY <1>3, <1>4

LEMMA UpdatesUpdate ==
    ASSUME UpdateInv, NEW p \in Proc, Updates(p)
    PROVE  /\ \A q \in Proc : Updating(q)'
           /\ published' = published /\ installed'.tag \in Tag
<1>1. /\ DOMAIN proc = Proc /\ DOMAIN proc[p] = Fields /\ Updating(p)
      /\ installed.tag \in Tag /\ published \in 0 .. Len(Releases)
  BY DEF UpdateInv, ClientTypes, ProcTypes
<1>2. published' = published
  BY DEF Updates, Latest, Note, Download, Apply, CompareSkill, InstallSkill, updateVars
<1>3. installed'.tag \in Tag
  <2>1. CASE Apply(p)
    BY <1>1, <2>1 DEF Apply, Updating, Release, At
  <2>2. CASE ~Apply(p)
    BY <1>1, <2>2 DEF Updates, Latest, Note, Download, CompareSkill, InstallSkill, updateVars
  <2> QED BY <2>1, <2>2
<1>4. CASE \E how \in Exited : Ends(p, how)
  <2>1. proc'[p].step \in Exited /\ \A x \in Proc \ {p} : proc'[x] = proc[x]
    BY <1>1, <1>4, Exits
  <2> QED BY <1>2, <1>3, <2>1, DoneUpdating, OthersUpdate DEF Exited
<1>5. CASE Latest(p) /\ ~Ends(p, "failed")
  <2> DEFINE c == [step |-> "note", rel |-> Releases[published]]
  <2>1. published > 0 /\ Change(p, c) /\ At(p, "latest")
    BY <1>5 DEF Latest
  <2>2. Releases[published] \in Release
    BY <1>1, <2>1, ReleasesAreReleases
  <2>3. DOMAIN c = {"step", "rel"} /\ DOMAIN c \subseteq Fields /\ c.step = "note" /\ c.rel = Releases[published]
    BY DEF Fields
  <2> HIDE DEF c
  <2>4. /\ \A x \in Proc \ {p} : proc'[x] = proc[x]
        /\ proc'[p].step = "note" /\ proc'[p].version = proc[p].version /\ proc'[p].rel = Releases[published]
    BY <1>1, <2>1, <2>3, Changed DEF Fields
  <2>5. Updating(p)'
    BY <1>1, <2>1, <2>2, <2>4 DEF Updating, At
  <2> QED BY <1>2, <1>3, <2>4, <2>5, OthersUpdate
<1>6. ASSUME NEW step, Go(p, step)
      PROVE  /\ \A x \in Proc \ {p} : proc'[x] = proc[x]
             /\ proc'[p].step = step /\ proc'[p].ask = proc[p].ask
             /\ proc'[p].version = proc[p].version /\ proc'[p].rel = proc[p].rel
  <2> DEFINE c == [step |-> step]
  <2>1. Change(p, c) /\ DOMAIN c = {"step"} /\ c.step = step /\ DOMAIN c \subseteq Fields
    BY <1>6 DEF Go, Fields
  <2> HIDE DEF c
  <2> QED BY <1>1, <2>1, Changed DEF Fields
<1>7. CASE Note(p) /\ ~Ends(p, "ok")
  <2>1. At(p, "note") /\ Go(p, "download") /\ (proc[p].ask.force \/ Newer(proc[p].rel.tag, proc[p].version))
    BY <1>7 DEF Note
  <2>2. Updating(p)'
    BY <1>1, <1>6, <2>1 DEF Updating, At
  <2> QED BY <1>2, <1>3, <1>6, <2>1, <2>2, OthersUpdate
<1>8. CASE Download(p) /\ ~Ends(p, "failed")
  <2>1. At(p, "download") /\ Go(p, "apply") /\ proc[p].rel.listed /\ proc[p].rel.sound
    BY <1>8 DEF Download
  <2>2. Updating(p)'
    BY <1>1, <1>6, <2>1 DEF Updating, At
  <2> QED BY <1>2, <1>3, <1>6, <2>1, <2>2, OthersUpdate
<1>9. CASE CompareSkill(p) /\ ~Ends(p, "ok") /\ ~Ends(p, "failed")
  <2>1. Go(p, "install")
    BY <1>9 DEF CompareSkill
  <2>2. Updating(p)'
    BY <1>6, <2>1 DEF Updating, At
  <2> QED BY <1>2, <1>3, <1>6, <2>1, <2>2, OthersUpdate
<1> QED BY <1>4, <1>5, <1>7, <1>8, <1>9 DEF Updates, Apply, InstallSkill, Exited

LEMMA UpdateInvKept == UpdateInv /\ [Next]_vars => UpdateInv'
<1> SUFFICES ASSUME UpdateInv, [Next]_vars PROVE UpdateInv'
  OBVIOUS
<1>1. ClientTypes /\ ClientTypes' /\ installed.tag \in Tag /\ published \in 0 .. Len(Releases)
  BY TypesKept DEF UpdateInv
<1>2. CASE UNCHANGED proc /\ UNCHANGED updateVars
  BY <1>1, <1>2 DEF UpdateInv, Updating, updateVars, At
<1>3. ASSUME NEW p \in Proc, Begin(p) PROVE UpdateInv'
  <2>1. UNCHANGED <<installed, published>>
    BY <1>3 DEF Begin
  <2> QED BY <1>1, <1>3, <2>1, BeginUpdates DEF UpdateInv
<1>4. ASSUME NEW p \in Proc, Session(p) \/ RemoteFails(p) \/ PasteKey(p), UNCHANGED updateVars PROVE UpdateInv'
  <2>1. Event(p)
    BY <1>1, <1>4, SessionIs, RemoteFailsIs, PasteKeyIs DEF Event
  <2>2. proc'[p].step \notin InUpdate /\ \A q \in Proc \ {p} : proc'[q] = proc[q]
    BY <1>4, <2>1, InSessionOnly, ElsewhereStays
  <2> QED BY <1>1, <1>4, <2>2, DoneUpdating, OthersUpdate DEF UpdateInv, InUpdate, updateVars
<1>5. ASSUME NEW p \in Proc, Killed(p), UNCHANGED updateVars PROVE UpdateInv'
  <2>1. proc'[p].step \in Exited /\ \A q \in Proc \ {p} : proc'[q] = proc[q]
    BY <1>1, <1>5, Exits DEF Killed, ClientTypes, Exited
  <2> QED BY <1>1, <1>5, <2>1, DoneUpdating, OthersUpdate DEF UpdateInv, Exited, updateVars
<1>6. ASSUME NEW p \in Proc, Updates(p) PROVE UpdateInv'
  BY <1>1, <1>6, UpdatesUpdate DEF UpdateInv
<1>7. CASE Surroundings
  <2>1. /\ UNCHANGED <<proc, installed>>
        /\ published' = published \/ (published < Len(Releases) /\ published' = published + 1)
    BY <1>7 DEF Surroundings, KeyringFlips, TokensAge, Publish, DayPasses, CheckEnds, sessionVars, credVars, updateVars
  <2>2. published' \in 0 .. Len(Releases)
    <3>1. Len(Releases) \in Nat
      BY ReleasesAreReleases
    <3> QED BY <1>1, <2>1, <3>1
  <2> QED BY <1>1, <2>1, <2>2 DEF UpdateInv, Updating, At
<1> QED BY <1>2, <1>3, <1>4, <1>5, <1>6, <1>7 DEF Next, Runs, Meets, vars, sessionVars, credVars

\* An update that was not forced puts a newer binary in the place of the one it began with, and
\* any update a binary that the manifest of its release lists and that is whole, whatever is
\* published meanwhile and whichever other invocations update, fail or are killed beside it
\* (update.go:39, selfupdate.go:105-176, 238-273).
THEOREM UpdatesGoForward == Spec => NoDowngrade
<1> DEFINE A == installed' # installed =>
                  /\ installed'.sound
                  /\ \E p \in Proc :
                       /\ At(p, "apply") /\ proc[p].rel.listed /\ proc[p].rel.tag = installed'.tag
                       /\ \/ proc[p].ask.force
                          \/ Below(installed.tag, installed'.tag)
                          \/ installed.tag # proc[p].version
<1>1. Init => UpdateInv
  <2> SUFFICES ASSUME Init PROVE UpdateInv
    OBVIOUS
  <2>1. ClientTypes
    BY InitRace DEF RaceInv
  <2>2. installed.tag \in Tag /\ published \in 0 .. Len(Releases)
    <3>1. load \in DOMAIN Loads /\ installed.tag = Loads[load].version /\ published = 0
      BY DEF Init
    <3> QED BY <3>1, LoadsAreStates, ReleasesAreReleases
  <2>3. \A p \in Proc : Updating(p)
    <3>1. \A p \in Proc : At(p, "idle")
      BY DEF Init, Idle, At
    <3> QED BY <3>1 DEF Updating, At
  <2> QED BY <2>1, <2>2, <2>3 DEF UpdateInv
<1>2. UpdateInv /\ [Next]_vars => A
  <2> SUFFICES ASSUME UpdateInv, [Next]_vars, installed' # installed PROVE A
    OBVIOUS
  <2>1. PICK p \in Proc : Apply(p)
    BY DEF Next, Begin, Runs, Meets, Surroundings, Updates, Latest, Note, Download, CompareSkill, InstallSkill,
       Publish, DayPasses, CheckEnds, updateVars, vars
  <2>2. At(p, "apply") /\ installed' = [tag |-> proc[p].rel.tag, sound |-> proc[p].rel.sound]
    BY <2>1 DEF Apply
  <2>3. Updating(p) /\ installed.tag \in Tag
    BY DEF UpdateInv
  <2>4. /\ proc[p].rel.listed /\ proc[p].rel.sound /\ proc[p].rel.tag \in Tag
        /\ proc[p].ask.force \/ Newer(proc[p].rel.tag, proc[p].version)
    BY <2>2, <2>3 DEF Updating, At, Release
  <2>5. proc[p].ask.force \/ Below(installed.tag, proc[p].rel.tag) \/ installed.tag # proc[p].version
    BY <2>3, <2>4, NewerIsAbove
  <2> QED BY <2>2, <2>4, <2>5
<1> HIDE DEF A
<1>3. Spec => [][A]_<<proc, installed>>
  BY <1>1, <1>2, UpdateInvKept, PTL DEF Spec
<1> QED BY <1>3 DEF A, NoDowngrade

-----------------------------------------------------------------------------
(* A command finds what was stored.  The versions that a read may find are those settled and
   those that invocations write at the time; what the stores hold is among them, and a host
   with two empty stores has been logged out of or is being written.                          *)

V(c) == [by |-> c.by, present |-> TRUE]
Several(s) == \E v, w \in s : v # w \/ ~v.present
Slots(h) == {keyring[h], intact[h]} \ {NoCred}
\* Invocations that have written something for a host and are not done.
Begun(h) == {q \in Proc : proc[q].step \in Writing \ {"add", "adding"} /\ H(q) = h}
Signs(h) == {Written(q) : q \in Begun(h)}
\* It may have left a credential of its own in a store, or a copy in a file that others hold.
Wrote(p) == Dropping(p) \/ proc[p].step \in Late \cup Exited

Signed == \A p \in Proc : New(p) \/ Dropping(p) => proc[p].cred.by = p
Settled == \A h \in Host : settled[h] # {}
NotYet == \A p \in Proc : ~Wrote(p) =>
    \A h \in Host : /\ \A c \in Slots(h) : c.by # p
                    /\ \A q \in Proc : HasPages(q) /\ proc[q].pages[h] # NoCred => proc[q].pages[h].by # p
SlotsTold == \A h \in Host \ spoiled : \A c \in Slots(h) : V(c) \in settled[h] \cup UnderWay(h)
NothingOlder == \A p \in Proc :
    keyring[H(p)] # NoCred /\ (Dropping(p) \/ (Erasing(p) /\ H(p) \notin spoiled)) =>
      V(keyring[H(p)]) \notin proc[p].before
ReadersSee == \A p \in Proc : At(p, "file") => settled[H(p)] \cup UnderWay(H(p)) \subseteq seen[p]
Lasting == \A h \in Host \ spoiled : Slots(h) # {} \/ Several(settled[h] \cup Signs(h))
Persists == \A p \in Proc : Dropping(p) =>
    \/ keyring[H(p)] # NoCred
    \/ \E v \in settled[H(p)] \ proc[p].before : v # Written(p)
    \/ \E q \in Begun(H(p)) : q # p
QuietReaders == \A p \in Proc : At(p, "file") /\ proc[p].quiet /\ H(p) \notin spoiled =>
    intact[H(p)] # NoCred \/ Several(seen[p])

ReadsInv == Signed /\ Settled /\ NotYet /\ SlotsTold /\ NothingOlder /\ ReadersSee /\ Lasting /\ Persists /\ QuietReaders

LEMMA SeveralGrows ==
    ASSUME NEW s, NEW t, Several(s), s \subseteq t PROVE Several(t)
  BY DEF Several

LEMMA UnderWayOf ==
    ASSUME NEW p \in Proc, \A q \in Proc \ {p} : proc'[q] = proc[q], NEW h
    PROVE  /\ \A v \in UnderWay(h)' : \/ v \in UnderWay(h)
                                      \/ proc'[p].step \in Writing /\ H(p)' = h /\ v = Written(p)'
           /\ \A v \in UnderWay(h) : \/ v \in UnderWay(h)'
                                     \/ proc[p].step \in Writing /\ H(p) = h /\ v = Written(p)
<1>1. ASSUME NEW v \in UnderWay(h)' PROVE v \in UnderWay(h) \/ (proc'[p].step \in Writing /\ H(p)' = h /\ v = Written(p)')
  <2>1. PICK q \in Proc : proc'[q].step \in Writing /\ H(q)' = h /\ v = Written(q)'
    BY DEF UnderWay
  <2>2. CASE q # p
    <3>1. proc'[q] = proc[q]
      BY <2>2
    <3> QED BY <2>1, <3>1, Same DEF UnderWay
  <2> QED BY <2>1, <2>2
<1>2. ASSUME NEW v \in UnderWay(h) PROVE v \in UnderWay(h)' \/ (proc[p].step \in Writing /\ H(p) = h /\ v = Written(p))
  <2>1. PICK q \in Proc : proc[q].step \in Writing /\ H(q) = h /\ v = Written(q)
    BY DEF UnderWay
  <2>2. CASE q # p
    <3>1. proc'[q] = proc[q]
      BY <2>2
    <3>2. proc'[q].step \in Writing /\ H(q)' = h /\ v = Written(q)'
      BY <2>1, <3>1, Same
    <3> QED BY <3>2 DEF UnderWay
  <2> QED BY <2>1, <2>2
<1> QED BY <1>1, <1>2

LEMMA BegunOf ==
    ASSUME NEW p \in Proc, \A q \in Proc \ {p} : proc'[q] = proc[q], NEW h
    PROVE  /\ \A q \in Proc \ {p} : (q \in Begun(h)' <=> q \in Begun(h)) /\ Written(q)' = Written(q)
           /\ p \in Begun(h)' <=> proc'[p].step \in Writing \ {"add", "adding"} /\ H(p)' = h
  BY Same DEF Begun

\* Steps that leave the stores as they are.
LEMMA QuietStepsReadWell ==
    ASSUME RaceInv, ReadsInv, NEW p \in Proc, \A q \in Proc \ {p} : proc'[q] = proc[q] /\ seen'[q] = seen[q],
           UNCHANGED creds,
           proc[p].step \in Writing \ {"add", "adding"} => proc'[p].step \in Writing \ {"add", "adding"},
           proc'[p].step \in Writing \ {"add", "adding"} => proc[p].step \in Writing \ {"add", "adding"},
           proc'[p].step \in Writing => proc[p].step \in Writing /\ SameHand(p),
           Dropping(p)' => Dropping(p), Erasing(p)' => Erasing(p), Wrote(p) => Wrote(p)',
           New(p)' => proc'[p].cred.by = p,
           HasPages(p)' => proc'[p].pages = intact \/ (HasPages(p) /\ proc'[p].pages = proc[p].pages),
           At(p, "file")' => Misses(p)
    PROVE  ReadsInv'
<1>1. UNCHANGED <<keyring, intact, settled, spoiled>>
  BY DEF creds, told
<1>2. \A h : Slots(h)' = Slots(h)
  BY <1>1 DEF Slots
<1>3. \A h : UnderWay(h)' \subseteq UnderWay(h)
  <2> SUFFICES ASSUME NEW h, NEW v \in UnderWay(h)' PROVE v \in UnderWay(h)
    OBVIOUS
  <2>1. v \in UnderWay(h) \/ (proc'[p].step \in Writing /\ H(p)' = h /\ v = Written(p)')
    BY UnderWayOf
  <2>2. proc'[p].step \in Writing => proc[p].step \in Writing /\ H(p)' = H(p) /\ Written(p)' = Written(p)
    BY DEF SameHand, SameAsk, H, Written
  <2> QED BY <2>1, <2>2 DEF UnderWay
<1>4. \A h : Signs(h)' = Signs(h) /\ Begun(h)' = Begun(h)
  <2> TAKE h
  <2>1. p \in Begun(h)' <=> p \in Begun(h)
    BY BegunOf DEF Begun, SameHand, SameAsk, H
  <2>2. p \in Begun(h)' => Written(p)' = Written(p)
    BY BegunOf DEF SameHand, SameAsk, Written
  <2>3. \A q \in Proc \ {p} : (q \in Begun(h)' <=> q \in Begun(h)) /\ Written(q)' = Written(q)
    BY BegunOf
  <2>4. \A q \in Proc : (q \in Begun(h)' <=> q \in Begun(h)) /\ (q \in Begun(h) => Written(q)' = Written(q))
    BY <2>1, <2>2, <2>3
  <2>5. Begun(h) \subseteq Proc /\ Begun(h)' \subseteq Proc
    BY DEF Begun
  <2>6. Begun(h)' = Begun(h)
    BY <2>4, <2>5
  <2>7. Signs(h)' = {Written(q)' : q \in Begun(h)'}
    BY DEF Signs
  <2> QED BY <2>4, <2>5, <2>6, <2>7 DEF Signs
<1>5. Signed'
  BY Same DEF ReadsInv, Signed, SameHand, New, Dropping, Writing, At
<1>6. Settled'
  BY <1>1 DEF ReadsInv, Settled
<1>7. NotYet'
  <2> SUFFICES ASSUME NEW q \in Proc, ~Wrote(q)', NEW h \in Host
               PROVE  /\ \A c \in Slots(h)' : c.by # q
                      /\ \A x \in Proc : HasPages(x)' /\ proc'[x].pages[h] # NoCred => proc'[x].pages[h].by # q
    BY DEF NotYet
  <2>1. ~Wrote(q)
    BY Same DEF Wrote
  <2>2. /\ \A c \in Slots(h) : c.by # q
        /\ \A x \in Proc : HasPages(x) /\ proc[x].pages[h] # NoCred => proc[x].pages[h].by # q
    BY <2>1 DEF ReadsInv, NotYet
  <2>3. intact[h] # NoCred => intact[h].by # q
    BY <2>2 DEF Slots
  <2> QED BY <1>2, <2>2, <2>3, Same
<1>8. SlotsTold'
  <2> SUFFICES ASSUME NEW h \in Host \ spoiled, NEW c \in Slots(h) PROVE V(c) \in settled[h] \cup UnderWay(h)'
    BY <1>1, <1>2 DEF SlotsTold, V
  <2>1. V(c) \in settled[h] \cup UnderWay(h)
    BY DEF ReadsInv, SlotsTold
  <2>2. V(c) # Written(p) \/ ~(proc[p].step \in Writing /\ H(p) = h) \/ V(c) \in UnderWay(h)'
    <3>1. CASE proc'[p].step \in Writing
      <4>1. proc[p].step \in Writing /\ H(p)' = H(p) /\ Written(p)' = Written(p)
        BY <3>1 DEF SameHand, SameAsk, H, Written
      <4>2. H(p) = h => Written(p)' \in UnderWay(h)'
        BY <3>1, <4>1 DEF UnderWay
      <4> QED BY <4>1, <4>2
    <3>2. CASE proc[p].step \in Writing /\ proc'[p].step \notin Writing
      <4>1. ~Wrote(p)
        BY <3>2 DEF Wrote, Dropping, Late, Exited, Writing, At
      <4>2. c.by # p
        BY <4>1 DEF ReadsInv, NotYet
      <4> QED BY <4>2 DEF V, Written
    <3> QED BY <3>1, <3>2
  <2> QED BY <2>1, <2>2, UnderWayOf
<1>9. NothingOlder'
  <2> SUFFICES ASSUME NEW q \in Proc, keyring'[H(q)'] # NoCred, Dropping(q)' \/ (Erasing(q)' /\ H(q)' \notin spoiled')
               PROVE  [by |-> keyring'[H(q)'].by, present |-> TRUE] \notin proc'[q].before
    BY DEF NothingOlder, V, H
  <2>1. H(q)' = H(q) /\ proc'[q].before = proc[q].before /\ (Dropping(q)' => Dropping(q)) /\ (Erasing(q)' => Erasing(q))
    <3>1. CASE q = p
      <4>1. Dropping(p)' \/ Erasing(p)' => proc'[p].step \in Writing
        BY DEF Dropping, Erasing, Writing, At
      <4> QED BY <3>1, <4>1 DEF SameHand, SameAsk, H
    <3>2. CASE q # p
      <4>1. proc'[q] = proc[q]
        BY <3>2
      <4> QED BY <4>1, Same
    <3> QED BY <3>1, <3>2
  <2> QED BY <1>1, <2>1 DEF ReadsInv, NothingOlder, V
<1>10. ReadersSee' /\ QuietReaders'
  <2> SUFFICES ASSUME NEW q \in Proc, At(q, "file")'
               PROVE  /\ settled[H(q)'] \cup UnderWay(H(q)') \subseteq seen'[q]
                      /\ proc'[q].quiet /\ H(q)' \notin spoiled => intact[H(q)'] # NoCred \/ Several(seen'[q])
    BY <1>1, <1>3 DEF ReadersSee, QuietReaders, H, Several
  <2>1. CASE q = p
    <3>1. Misses(p)
      BY <2>1
    <3>2. /\ H(p)' = H(p) /\ seen'[p] = settled[H(p)] \cup UnderWay(H(p))
          /\ proc'[p].quiet => keyring[H(p)] = NoCred
      BY <3>1 DEF Misses, SameAsk, H
    <3>3. H(p) \in Host
      BY <3>1, HostOf DEF Misses, At, InSession, Early, RaceInv
    <3>4. Signs(H(p)) \subseteq UnderWay(H(p))
      BY DEF Signs, Begun, UnderWay
    <3>5. ASSUME proc'[p].quiet, H(p) \notin spoiled PROVE intact[H(p)] # NoCred \/ Several(seen'[p])
      <4>1. Slots(H(p)) # {} \/ Several(settled[H(p)] \cup Signs(H(p)))
        BY <3>3, <3>5 DEF ReadsInv, Lasting
      <4>2. Slots(H(p)) # {} => intact[H(p)] # NoCred
        BY <3>2, <3>5 DEF Slots
      <4>3. settled[H(p)] \cup Signs(H(p)) \subseteq seen'[p]
        BY <3>2, <3>4
      <4> QED BY <4>1, <4>2, <4>3, SeveralGrows
    <3> QED BY <2>1, <3>2, <3>5
  <2>2. CASE q # p
    <3>1. proc'[q] = proc[q] /\ seen'[q] = seen[q]
      BY <2>2
    <3> QED BY <3>1 DEF ReadsInv, ReadersSee, QuietReaders, At, H
  <2> QED BY <2>1, <2>2
<1>11. Lasting'
  BY <1>1, <1>2, <1>4 DEF ReadsInv, Lasting, Several
<1>12. Persists'
  <2> SUFFICES ASSUME NEW q \in Proc, Dropping(q)'
               PROVE  \/ keyring[H(q)'] # NoCred
                      \/ \E v \in settled[H(q)'] \ proc'[q].before : v # Written(q)'
                      \/ \E x \in Begun(H(q)') : x # q
    BY <1>1, <1>4 DEF Persists, H
  <2>1. H(q)' = H(q) /\ proc'[q].before = proc[q].before /\ Dropping(q) /\ Written(q)' = Written(q)
    <3>1. CASE q = p
      <4>1. Dropping(p)' => proc'[p].step \in Writing
        BY DEF Dropping, Writing, At
      <4> QED BY <3>1, <4>1 DEF SameHand, SameAsk, H, Written
    <3>2. CASE q # p
      <4>1. proc'[q] = proc[q]
        BY <3>2
      <4> QED BY <4>1, Same
    <3> QED BY <3>1, <3>2
  <2> QED BY <2>1 DEF ReadsInv, Persists
<1> QED BY <1>5, <1>6, <1>7, <1>8, <1>9, <1>10, <1>11, <1>12 DEF ReadsInv

LEMMA QuietEventsReadWell ==
    ASSUME RaceInv, ReadsInv, NEW p \in Proc,
           Rests(p) \/ Carries(p) \/ Misses(p) \/ Finds(p) \/ Gets(p)
    PROVE  ReadsInv'
<1>1. CASE Rests(p)
  <2>1. /\ proc'[p].step \notin Writing \cup {"set", "file"}
        /\ proc[p].step \notin Writing \ {"add", "adding"}
        /\ proc[p].step \in Late \cup Exited => proc'[p].step \in Late \cup Exited
        /\ ~Dropping(p)
    BY <1>1 DEF Rests, Plain, Late, InUpdate, Writing, Exited, Dropping, At
  <2>2. ~Dropping(p)' /\ ~Erasing(p)' /\ ~New(p)' /\ ~HasPages(p)' /\ (Wrote(p) => Wrote(p)')
    BY <2>1 DEF Dropping, Erasing, New, HasPages, Wrote, Writing, At
  <2> QED BY <1>1, <2>1, <2>2, QuietStepsReadWell DEF Rests, Only, At
<1>2. CASE Carries(p)
  <2>1. /\ SameHand(p) /\ SameAsk(p) /\ proc'[p].cred = proc[p].cred
        /\ proc'[p].step \in Writing => proc[p].step \in Writing
        /\ proc[p].step \in Writing \ {"add", "adding"} => proc'[p].step \in Writing \ {"add", "adding"}
        /\ proc'[p].step \in Writing \ {"add", "adding"} => proc[p].step \in Writing \ {"add", "adding"}
        /\ ~At(p, "file")' /\ proc[p].step \notin Late \cup Exited /\ (New(p)' => New(p))
    BY <1>2 DEF Carries, SameHand, At, Writing, Exited, Late, New
  <2>2. ProcTypes(p) /\ ProcTypes(p)'
    BY <1>2 DEF Carries, Only, RaceInv, ClientTypes
  <2>3. (Dropping(p)' => Dropping(p)) /\ (Erasing(p)' => Erasing(p)) /\ (Wrote(p) => Wrote(p)')
    BY <1>2, <2>1, <2>2 DEF Carries, Dropping, Erasing, Wrote, At, IsLogout, Cmd, SameAsk, ProcTypes
  <2>4. New(p)' => proc'[p].cred.by = p
    BY <2>1 DEF ReadsInv, Signed
  <2>5. HasPages(p)' => proc'[p].pages = intact \/ (HasPages(p) /\ proc'[p].pages = proc[p].pages)
    BY <1>2 DEF Carries, HasPages, At
  <2> QED BY <1>2, <2>1, <2>3, <2>4, <2>5, QuietStepsReadWell DEF Carries, Only
<1>3. CASE Misses(p)
  <2>1. /\ proc[p].step \notin Writing \cup Late \cup Exited /\ proc'[p].step \notin Writing \cup {"set"}
        /\ ~Dropping(p) /\ ~Dropping(p)' /\ ~Erasing(p)' /\ ~New(p)' /\ ~HasPages(p)'
    BY <1>3 DEF Misses, At, Writing, Late, Exited, Dropping, Erasing, New, HasPages
  <2> QED BY <1>3, <2>1, QuietStepsReadWell DEF Misses, Only, Wrote
<1>4. CASE Finds(p)
  <2>1. /\ proc[p].step \notin Writing \cup Late \cup Exited /\ proc'[p].step \notin Writing \cup {"set"}
        /\ ~Dropping(p) /\ ~Dropping(p)' /\ ~Erasing(p)' /\ ~New(p)' /\ ~HasPages(p)' /\ ~At(p, "file")'
    BY <1>4 DEF Finds, At, Writing, Late, Exited, Dropping, Erasing, New, HasPages
  <2> QED BY <1>4, <2>1, QuietStepsReadWell DEF Finds, Only, Wrote
<1>5. CASE Gets(p)
  <2>1. /\ proc[p].step \notin Writing \cup Late \cup Exited /\ proc'[p].step \notin Writing
        /\ ~Dropping(p) /\ ~Dropping(p)' /\ ~Erasing(p)' /\ ~HasPages(p)' /\ ~At(p, "file")'
        /\ New(p)' => proc'[p].cred.by = p
    BY <1>5 DEF Gets, At, Writing, Late, Exited, Dropping, Erasing, New, HasPages
  <2> QED BY <1>5, <2>1, QuietStepsReadWell DEF Gets, Only, Wrote
<1> QED BY <1>1, <1>2, <1>3, <1>4, <1>5

\* An invocation whose write has not ended is not among the versions that were there before.
LEMMA WritingIsNew ==
    ASSUME RaceInv, NEW p \in Proc, proc[p].step \in Writing \cup {"set", "unset"}
    PROVE  /\ Written(p).by = p /\ ~Ended(Written(p))
           /\ \A h \in Host : Written(p) \notin settled[h]
           /\ \A q \in Proc : proc[q].step \in Writing => Written(p) \notin proc[q].before
<1>1. ~Ended(Written(p))
  BY NotOver DEF Writing, Exited, Late, At
<1> QED BY <1>1 DEF Written, RaceInv, FreshInv, Befores

LEMMA BreaksReadWell ==
    ASSUME RaceInv, ReadsInv, NEW p \in Proc, Breaks(p) PROVE ReadsInv'
<1>1. /\ \A q \in Proc \ {p} : proc'[q] = proc[q] /\ seen'[q] = seen[q]
      /\ UNCHANGED <<keyring, intact, spoiled>> /\ ClientTypes
      /\ settled' = [settled EXCEPT ![H(p)] = @ \cup {Written(p)}] /\ DOMAIN settled = Host
      /\ proc[p].step \in Writing /\ H(p) \in Host
  BY HostOf DEF Breaks, Only, RaceInv, ClientTypes, InSession
<1>2. ~Dropping(p)' /\ ~Erasing(p)' /\ ~New(p)' /\ ~HasPages(p)' /\ ~At(p, "file")' /\ Wrote(p)' /\ proc'[p].step \notin Writing
  BY DEF Breaks, Exited, Dropping, Erasing, New, HasPages, Wrote, At, Writing
<1>3. \A h \in Host : settled[h] \subseteq settled'[h] /\ settled'[h] \subseteq settled[h] \cup UnderWay(h)
  <2>1. Written(p) \in UnderWay(H(p))
    BY <1>1 DEF UnderWay
  <2> QED BY <1>1, <2>1
<1>4. Written(p) \in settled'[H(p)]
  BY <1>1
<1>5. \A h : Slots(h)' = Slots(h)
  BY <1>1 DEF Slots
<1>6. \A h \in Host : UnderWay(h) \subseteq UnderWay(h)' \cup settled'[h]
  BY <1>1, <1>4, UnderWayOf
<1>7. \A h : UnderWay(h)' \subseteq UnderWay(h)
  BY <1>1, <1>2, UnderWayOf
<1>8. \A h \in Host : Signs(h) \subseteq Signs(h)' \cup settled'[h]
  <2> SUFFICES ASSUME NEW h \in Host, NEW q \in Begun(h) PROVE Written(q) \in Signs(h)' \cup settled'[h]
    BY DEF Signs
  <2>1. CASE q = p
    BY <1>4, <2>1 DEF Begun
  <2>2. CASE q # p
    <3>1. q \in Begun(h)' /\ Written(q)' = Written(q)
      BY <1>1, <2>2, BegunOf DEF Begun
    <3> QED BY <3>1 DEF Signs
  <2> QED BY <2>1, <2>2
<1>9. ASSUME NEW q \in Proc, Dropping(q)' \/ Erasing(q)' \/ New(q)' \/ HasPages(q)' \/ At(q, "file")' \/ ~Wrote(q)'
      PROVE  q # p /\ proc'[q] = proc[q] /\ seen'[q] = seen[q]
  BY <1>1, <1>2, <1>9
<1>10. Signed' /\ Settled' /\ NotYet'
  <2>1. Signed'
    BY <1>9, Same DEF ReadsInv, Signed
  <2>2. Settled'
    BY <1>3 DEF ReadsInv, Settled
  <2>3. NotYet'
    <3> SUFFICES ASSUME NEW q \in Proc, ~Wrote(q)', NEW h \in Host
                 PROVE  /\ \A c \in Slots(h)' : c.by # q
                        /\ \A x \in Proc : HasPages(x)' /\ proc'[x].pages[h] # NoCred => proc'[x].pages[h].by # q
      BY DEF NotYet
    <3>1. ~Wrote(q)
      BY <1>9, Same DEF Wrote
    <3> QED BY <1>5, <1>9, <3>1, Same DEF ReadsInv, NotYet
  <2> QED BY <2>1, <2>2, <2>3
<1>11. SlotsTold'
  <2> SUFFICES ASSUME NEW h \in Host \ spoiled, NEW c \in Slots(h) PROVE V(c) \in settled'[h] \cup UnderWay(h)'
    BY <1>1, <1>5 DEF SlotsTold, V
  <2>1. V(c) \in settled[h] \cup UnderWay(h)
    BY DEF ReadsInv, SlotsTold
  <2> QED BY <1>3, <1>6, <2>1
<1>12. NothingOlder'
  <2> SUFFICES ASSUME NEW q \in Proc, keyring[H(q)'] # NoCred, Dropping(q)' \/ (Erasing(q)' /\ H(q)' \notin spoiled)
               PROVE  V(keyring[H(q)']) \notin proc'[q].before
    BY <1>1 DEF NothingOlder, V, H
  <2>1. proc'[q] = proc[q]
    BY <1>9
  <2> QED BY <2>1, Same DEF ReadsInv, NothingOlder
<1>13. ReadersSee' /\ QuietReaders'
  <2> SUFFICES ASSUME NEW q \in Proc, At(q, "file")'
               PROVE  /\ settled'[H(q)'] \cup UnderWay(H(q)') \subseteq seen'[q]
                      /\ proc'[q].quiet /\ H(q)' \notin spoiled => intact[H(q)'] # NoCred \/ Several(seen'[q])
    BY <1>1, <1>7 DEF ReadersSee, QuietReaders, H, Several
  <2>1. proc'[q] = proc[q] /\ seen'[q] = seen[q] /\ At(q, "file") /\ H(q)' = H(q)
    BY <1>9, Same DEF At
  <2>2. H(q) \in Host
    BY <1>1, <2>1, HostOf DEF At, InSession, Early
  <2> QED BY <1>3, <2>1, <2>2 DEF ReadsInv, ReadersSee, QuietReaders
<1>14. Lasting'
  <2> SUFFICES ASSUME NEW h \in Host \ spoiled, Slots(h) = {}
               PROVE  Several(settled'[h] \cup Signs(h)')
    BY <1>1, <1>5 DEF Lasting, Several
  <2>1. Several(settled[h] \cup Signs(h))
    BY DEF ReadsInv, Lasting
  <2>2. settled[h] \cup Signs(h) \subseteq settled'[h] \cup Signs(h)'
    BY <1>3, <1>8
  <2> QED BY <2>1, <2>2, SeveralGrows
<1>15. Persists'
  <2> SUFFICES ASSUME NEW q \in Proc, Dropping(q)'
               PROVE  \/ keyring[H(q)] # NoCred
                      \/ \E v \in settled'[H(q)] \ proc[q].before : v # Written(q)
                      \/ \E x \in Begun(H(q))' : x # q
    <3>1. \A q \in Proc : Dropping(q)' => H(q)' = H(q) /\ proc'[q] = proc[q] /\ Written(q)' = Written(q)
      BY <1>9, Same
    <3> QED BY <1>1, <3>1 DEF Persists, Begun, H
  <2>1. Dropping(q) /\ q # p /\ H(q)' = H(q)
    BY <1>9, Same
  <2>2. H(q) \in Host /\ proc[q].step \in Writing
    BY <1>1, <2>1, HostsOf DEF HasCred, Dropping, Writing, At
  <2>3. CASE \E x \in Begun(H(q)) : x # q
    <3>1. PICK x \in Begun(H(q)) : x # q
      BY <2>3
    <3>2. CASE x = p
      <4>1. H(p) = H(q) /\ Written(p) # Written(q)
        BY <2>1, <3>1, <3>2 DEF Begun, Written
      <4>2. Written(p) \notin proc[q].before
        BY <1>1, <2>2, WritingIsNew
      <4> QED BY <1>4, <4>1, <4>2
    <3>3. CASE x # p
      <4>1. x \in Begun(H(q))'
        <5>1. proc'[x] = proc[x] /\ x \in Proc
          BY <1>1, <3>1, <3>3 DEF Begun
        <5> QED BY <2>1, <3>1, <5>1, Same DEF Begun
      <4> QED BY <3>1, <4>1
    <3> QED BY <3>2, <3>3
  <2> QED BY <1>3, <2>1, <2>2, <2>3 DEF ReadsInv, Persists
<1> QED BY <1>10, <1>11, <1>12, <1>13, <1>14, <1>15 DEF ReadsInv

LEMMA EffectsReadWell ==
    ASSUME RaceInv, ReadsInv, NEW p \in Proc, Effects(p) PROVE ReadsInv'
<1>1. /\ \A q \in Proc \ {p} : proc'[q] = proc[q]
      /\ UNCHANGED <<intact, settled>> /\ spoiled \subseteq spoiled' /\ ClientTypes /\ ProcTypes(p) /\ ProcTypes(p)'
      /\ SameAsk(p) /\ H(p)' = H(p) /\ Written(p)' = Written(p) /\ (IsLogout(p)' <=> IsLogout(p))
      /\ proc'[p].cred = proc[p].cred /\ proc'[p].before = settled[H(p)]
      /\ \A q \in Proc : seen'[q] = IF q \in Readers(H(p)) THEN seen[q] \cup {Written(p)} ELSE seen[q]
      /\ proc[p].step \in {"set", "unset"} /\ H(p) \in Host
  BY HostOf DEF Effects, RaceInv, ClientTypes, SameAsk, H, Written, IsLogout, Cmd, At, InSession
<1>2. /\ ~Wrote(p) /\ ~HasPages(p) /\ ~HasPages(p)' /\ ~At(p, "file")' /\ proc'[p].step \in Writing
      /\ proc[p].step \notin Writing
  BY DEF Effects, Wrote, HasPages, Dropping, Late, Exited, Writing, At
<1>3. /\ Written(p).by = p /\ \A h \in Host : Written(p) \notin settled[h]
      /\ \A q \in Proc : proc[q].step \in Writing => Written(p) \notin proc[q].before
  BY <1>1, WritingIsNew
<1>4. At(p, "set") \/ (At(p, "unset") /\ IsLogout(p))
  BY <1>1 DEF At, ProcTypes
<1>5. ReadsInv'
  \* The three things it may do.
  <2>1. \/ /\ New(p) /\ At(p, "drop")' /\ Dropping(p)' /\ ~Erasing(p)' /\ ~New(p)' /\ spoiled' = spoiled
           /\ keyring' = [keyring EXCEPT ![H(p)] = proc[p].cred]
           /\ proc[p].cred \in Cred /\ proc[p].cred.by = p /\ V(proc[p].cred) = Written(p)
        \/ /\ New(p) /\ At(p, "add")' /\ ~Dropping(p)' /\ ~Erasing(p)' /\ New(p)' /\ UNCHANGED <<keyring, spoiled>>
           /\ proc[p].cred.by = p
        \/ /\ IsLogout(p) /\ At(p, "erase")' /\ ~Dropping(p)' /\ Erasing(p)' /\ ~New(p)'
           /\ \/ keyring' = [keyring EXCEPT ![H(p)] = NoCred] /\ UNCHANGED spoiled
              \/ UNCHANGED keyring /\ (keyring[H(p)] # NoCred => H(p) \in spoiled')
           /\ \A h \in Host \ {H(p)} : h \in spoiled' <=> h \in spoiled
    <3>1. CASE At(p, "set")
      <4>1. New(p) /\ proc[p].cred \in Cred /\ proc[p].cred.by = p /\ ~IsLogout(p)
        BY <1>1, <3>1 DEF New, At, ProcTypes, HasCred, ReadsInv, Signed
      <4>2. V(proc[p].cred) = Written(p)
        BY <4>1 DEF V, Written, IsLogout, Cmd
      <4> QED BY <3>1, <4>1, <4>2 DEF Effects, Dropping, Erasing, New, At
    <3>2. CASE At(p, "unset")
      BY <1>4, <3>2 DEF Effects, Dropping, Erasing, New, At
    <3> QED BY <1>1, <3>1, <3>2 DEF At
  <2>2. keyring \in Contents /\ DOMAIN keyring = Host /\ (At(p, "drop")' => ~Erasing(p)')
    BY <1>1 DEF ClientTypes, Contents, Erasing, At
  <2>3. \A h \in Host \ {H(p)} : keyring'[h] = keyring[h] /\ (h \in spoiled' => h \in spoiled)
    BY <2>1, <2>2
  <2>4. \A h : UnderWay(h) \subseteq UnderWay(h)'
    BY <1>1, <1>2, UnderWayOf
  <2>5. \A h : h = H(p) => Written(p) \in UnderWay(h)'
    BY <1>1, <1>2 DEF UnderWay
  <2>6. \A h \in Host : \A v \in UnderWay(h)' : v \in UnderWay(h) \/ (h = H(p) /\ v = Written(p))
    BY <1>1, UnderWayOf
  <2>7. \A h \in Host : \A q \in Begun(h) : q # p /\ q \in Begun(h)' /\ Written(q)' = Written(q)
    BY <1>1, <1>2, BegunOf DEF Begun
  <2>8. \A h \in Host : Signs(h) \subseteq Signs(h)'
    BY <2>7 DEF Signs
  \* What it puts there is its own.
  <2>9. \A h \in Host : \A c \in Slots(h)' :
          c \in Slots(h) \/ (h = H(p) /\ Dropping(p)' /\ c = proc[p].cred /\ c.by = p /\ V(c) = Written(p))
    BY <1>1, <2>1, <2>2 DEF Slots
  <2>10. \A q \in Proc \ {p} : proc'[q] = proc[q] /\ H(q)' = H(q) /\ Written(q)' = Written(q)
    BY <1>1, Same
  <2>11. Signed'
    BY <1>1, <2>1, Same DEF ReadsInv, Signed
  <2>12. Settled'
    BY <1>1 DEF ReadsInv, Settled
  <2>13. NotYet'
    <3> SUFFICES ASSUME NEW q \in Proc, ~Wrote(q)', NEW h \in Host
                 PROVE  /\ \A c \in Slots(h)' : c.by # q
                        /\ \A x \in Proc : HasPages(x)' /\ proc'[x].pages[h] # NoCred => proc'[x].pages[h].by # q
      BY DEF NotYet
    <3>1. ~Wrote(q) /\ (q = p => ~Dropping(p)')
      BY <1>1, <1>2, Same DEF Wrote
    <3>2. /\ \A c \in Slots(h) : c.by # q
          /\ \A x \in Proc : HasPages(x) /\ proc[x].pages[h] # NoCred => proc[x].pages[h].by # q
      BY <3>1 DEF ReadsInv, NotYet
    <3>3. \A c \in Slots(h)' : c.by # q
      BY <2>9, <3>1, <3>2
    <3> QED BY <1>1, <1>2, <3>2, <3>3, Same
  <2>14. SlotsTold'
    <3> SUFFICES ASSUME NEW h \in Host \ spoiled', NEW c \in Slots(h)' PROVE V(c) \in settled[h] \cup UnderWay(h)'
      BY <1>1 DEF SlotsTold, V
    <3>1. CASE c \in Slots(h)
      <4>1. V(c) \in settled[h] \cup UnderWay(h)
        BY <1>1, <3>1 DEF ReadsInv, SlotsTold
      <4> QED BY <2>4, <4>1
    <3> QED BY <2>5, <2>9, <3>1
  <2>15. NothingOlder'
    <3> SUFFICES ASSUME NEW q \in Proc, NEW c, c = keyring'[H(q)'], c # NoCred,
                        Dropping(q)' \/ (Erasing(q)' /\ H(q)' \notin spoiled')
                 PROVE  V(c) \notin proc'[q].before
      BY DEF NothingOlder, V, H
    <3>1. CASE q = p
      <4>1. CASE Dropping(p)'
        <5>1. c = proc[p].cred /\ V(c) = Written(p)
          BY <1>1, <2>1, <2>2, <3>1, <4>1
        <5> QED BY <1>1, <1>3, <3>1, <5>1
      <4>2. CASE Erasing(p)' /\ H(p) \notin spoiled'
        BY <1>1, <2>1, <2>2, <3>1, <4>2
      <4> QED BY <1>1, <3>1, <4>1, <4>2
    <3>2. CASE q # p
      <4>1. /\ Dropping(q) \/ (Erasing(q) /\ H(q) \notin spoiled)
            /\ proc'[q] = proc[q] /\ H(q)' = H(q) /\ proc[q].step \in Writing
        BY <1>1, <2>10, <3>2, Same DEF Dropping, Erasing, Writing, At
      <4>2. H(q) \in Host
        BY <1>1, <4>1, HostOf DEF InSession
      <4>3. CASE c = keyring[H(q)]
        BY <4>1, <4>3 DEF ReadsInv, NothingOlder
      <4>4. CASE c # keyring[H(q)]
        <5>1. c = proc[p].cred /\ V(c) = Written(p)
          BY <2>1, <2>2, <4>1, <4>2, <4>4
        <5> QED BY <1>3, <4>1, <5>1
      <4> QED BY <4>3, <4>4
    <3> QED BY <3>1, <3>2
  <2>16. ReadersSee' /\ QuietReaders'
    <3> SUFFICES ASSUME NEW q \in Proc, At(q, "file")'
                 PROVE  /\ settled[H(q)] \cup UnderWay(H(q))' \subseteq seen'[q]
                        /\ proc'[q].quiet /\ H(q) \notin spoiled' => intact[H(q)] # NoCred \/ Several(seen'[q])
      <4>1. \A q \in Proc : At(q, "file")' => H(q)' = H(q)
        BY <1>1, <2>10
      <4> QED BY <1>1, <4>1 DEF ReadersSee, QuietReaders, H, Several, UnderWay
    <3>1. q # p /\ proc'[q] = proc[q] /\ At(q, "file") /\ seen[q] \subseteq seen'[q]
      BY <1>1, <1>2, <2>10 DEF At
    <3>2. H(q) \in Host
      BY <1>1, <3>1, HostOf DEF At, InSession, Early
    <3>3. H(q) = H(p) => Written(p) \in seen'[q]
      BY <1>1, <3>1 DEF Readers
    <3>4. settled[H(q)] \cup UnderWay(H(q)) \subseteq seen[q]
      BY <3>1 DEF ReadsInv, ReadersSee
    <3>5. settled[H(q)] \cup UnderWay(H(q))' \subseteq seen'[q]
      <4>1. PICK h : h = H(q)
        OBVIOUS
      <4>2. \A v \in UnderWay(h)' : v \in seen'[q]
        BY <2>6, <3>1, <3>2, <3>3, <3>4, <4>1
      <4>3. H(q)' = h
        BY <2>10, <3>1, <4>1
      <4>4. UnderWay(H(q))' = UnderWay(h)'
        BY <4>1, <4>3 DEF UnderWay
      <4> QED BY <3>1, <3>4, <4>1, <4>2, <4>4
    <3>6. proc'[q].quiet /\ H(q) \notin spoiled' => intact[H(q)] # NoCred \/ Several(seen'[q])
      BY <1>1, <3>1, SeveralGrows DEF ReadsInv, QuietReaders
    <3> QED BY <3>5, <3>6
  <2>17. Lasting'
    <3> SUFFICES ASSUME NEW h \in Host \ spoiled', Slots(h)' = {}
                 PROVE  Several(settled[h] \cup Signs(h)')
      BY <1>1 DEF Lasting, Several
    <3>1. CASE Slots(h) = {}
      <4>1. Several(settled[h] \cup Signs(h))
        BY <1>1, <3>1 DEF ReadsInv, Lasting
      <4> QED BY <2>8, <4>1, SeveralGrows
    <3>2. CASE Slots(h) # {}
      <4>1. h = H(p) /\ IsLogout(p) /\ At(p, "erase")'
        BY <1>1, <2>1, <2>2, <2>3, <3>2, MarksAreNew DEF Slots
      <4>2. p \in Begun(h)'
        BY <1>1, <4>1 DEF Begun, Writing, At
      <4>3. Written(p) \in Signs(h)' /\ ~Written(p).present
        BY <1>1, <4>1, <4>2 DEF Signs, Written, IsLogout, Cmd
      <4> QED BY <4>3 DEF Several
    <3> QED BY <3>1, <3>2
  <2>18. Persists'
    <3> SUFFICES ASSUME NEW q \in Proc, Dropping(q)', NEW h, h = H(q)
                 PROVE  \/ keyring'[h] # NoCred
                        \/ \E v \in settled[h] \ proc'[q].before : v # Written(q)'
                        \/ \E x \in Begun(h)' : x # q
      <4>1. \A q \in Proc : H(q)' = H(q)
        BY <1>1, <2>10
      <4> QED BY <1>1, <4>1 DEF Persists, Begun
    <3>1. CASE q = p
      BY <1>1, <2>1, <2>2, <3>1, MarksAreNew
    <3>2. CASE q # p
      <4>1. Dropping(q) /\ proc'[q] = proc[q] /\ Written(q)' = Written(q)
        BY <1>1, <2>10, <3>2, Same
      <4>2. H(q) \in Host
        BY <1>1, <4>1, HostsOf DEF HasCred
      <4>3. CASE keyring'[h] # keyring[h] /\ keyring'[h] = NoCred
        <5>1. h = H(p) /\ At(p, "erase")'
          BY <1>1, <2>1, <2>2, <2>3, <4>2, <4>3, MarksAreNew
        <5>2. p \in Begun(h)'
          BY <1>1, <5>1 DEF Begun, Writing, At
        <5> QED BY <3>2, <5>2
      <4>4. CASE keyring'[h] = keyring[h]
        BY <2>7, <4>1, <4>2, <4>4 DEF ReadsInv, Persists
      <4> QED BY <4>3, <4>4
    <3> QED BY <3>1, <3>2
  <2> QED BY <2>11, <2>12, <2>13, <2>14, <2>15, <2>16, <2>17, <2>18 DEF ReadsInv
<1> QED BY <1>5

LEMMA FinishesReadsWell ==
    ASSUME RaceInv, ReadsInv, ClientTypes', NEW p \in Proc, Finishes(p) PROVE ReadsInv'
<1>1. /\ \A q \in Proc \ {p} : proc'[q] = proc[q] /\ seen'[q] = seen[q]
      /\ UNCHANGED keyring /\ ClientTypes /\ ProcTypes(p) /\ SameAsk(p) /\ H(p)' = H(p) /\ Written(p)' = Written(p)
      /\ settled' = [settled EXCEPT ![H(p)] = (@ \ proc[p].before) \cup {Written(p)}] /\ DOMAIN settled = Host
      /\ proc[p].step \in Writing /\ H(p) \in Host
      /\ \A h \in Host \ {H(p)} : h \notin spoiled' => h \notin spoiled /\ intact'[h] = intact[h]
  BY HostOf DEF Finishes, Only, RaceInv, ClientTypes, InSession, SameAsk, H, Written, Dropping, Erasing, Writing, At, Undone
<1>2. /\ ~Dropping(p)' /\ ~Erasing(p)' /\ ~New(p)' /\ ~HasPages(p)' /\ ~At(p, "file")' /\ proc'[p].step \notin Writing
      /\ Wrote(p) => Wrote(p)'
  <2>1. proc'[p].step = IF Cmd(p) = "login" THEN "hosts" ELSE IF IsLogout(p) THEN "config" ELSE "call"
    BY DEF Finishes, Continue, Cmd, IsLogout
  <2>2. IsLogout(p) => ~Wrote(p)
    BY <1>1 DEF Wrote, Dropping, ProcTypes, Writing, Late, Exited, At
  <2> QED BY <2>1, <2>2 DEF Dropping, Erasing, New, HasPages, Wrote, Late, Writing, At
<1>3. /\ Written(p).by = p /\ \A h \in Host : Written(p) \notin settled[h]
      /\ \A q \in Proc : proc[q].step \in Writing => Written(p) \notin proc[q].before
  BY <1>1, WritingIsNew
<1>4. /\ settled'[H(p)] = (settled[H(p)] \ proc[p].before) \cup {Written(p)}
      /\ \A h \in Host \ {H(p)} : settled'[h] = settled[h]
  BY <1>1
<1>5. \A h \in Host : settled'[h] \subseteq settled[h] \cup UnderWay(h)
  <2>1. Written(p) \in UnderWay(H(p))
    BY <1>1 DEF UnderWay
  <2> QED BY <1>4, <2>1
<1>6. \A h : UnderWay(h)' \subseteq UnderWay(h)
  BY <1>1, <1>2, UnderWayOf
<1>7. \A h : \A v \in UnderWay(h) : v \in UnderWay(h)' \/ (h = H(p) /\ v = Written(p))
  BY <1>1, UnderWayOf
<1>8. ASSUME NEW q \in Proc, Dropping(q)' \/ Erasing(q)' \/ New(q)' \/ HasPages(q)' \/ At(q, "file")' \/ q # p
      PROVE  /\ q # p /\ proc'[q] = proc[q] /\ seen'[q] = seen[q]
             /\ H(q)' = H(q) /\ Written(q)' = Written(q)
             /\ (Dropping(q)' <=> Dropping(q)) /\ (Erasing(q)' <=> Erasing(q)) /\ (New(q)' <=> New(q))
             /\ (HasPages(q)' <=> HasPages(q)) /\ (At(q, "file")' <=> At(q, "file"))
  <2>1. q # p /\ proc'[q] = proc[q] /\ seen'[q] = seen[q]
    BY <1>1, <1>2, <1>8
  <2> QED BY <2>1, Same DEF At
<1>9. /\ intact \in Contents /\ intact' \in Contents
      /\ Dropping(p) \/ At(p, "adding") \/ Erasing(p)
      /\ (Dropping(p) => ~At(p, "adding") /\ ~Erasing(p)) /\ (At(p, "adding") => ~Erasing(p))
  BY <1>1 DEF Finishes, ClientTypes, Dropping, Erasing, At
\* What it leaves in the file.
<1>10. At(p, "adding") => /\ intact'[H(p)] = proc[p].cred /\ proc[p].cred # NoCred
                          /\ proc[p].cred.by = p /\ V(proc[p].cred) = Written(p)
                          /\ H(p) \in spoiled \/ keyring[H(p)] # NoCred => H(p) \in spoiled'
  <2> SUFFICES ASSUME At(p, "adding")
               PROVE  /\ intact'[H(p)] = proc[p].cred /\ proc[p].cred # NoCred
                      /\ proc[p].cred.by = p /\ V(proc[p].cred) = Written(p)
                      /\ H(p) \in spoiled \/ keyring[H(p)] # NoCred => H(p) \in spoiled'
    OBVIOUS
  <2>1. New(p) /\ HasPages(p) /\ proc[p].pages \in Contents /\ proc[p].cred \in Cred /\ ~IsLogout(p)
    BY <1>1 DEF New, HasPages, HasCred, ProcTypes, At
  <2>2. /\ intact' = [proc[p].pages EXCEPT ![H(p)] = proc[p].cred]
        /\ H(p) \in spoiled \/ keyring[H(p)] # NoCred => H(p) \in spoiled'
    BY <1>9 DEF Finishes
  <2>3. intact'[H(p)] = proc[p].cred
    BY <1>1, <2>1, <2>2 DEF Contents
  <2>4. proc[p].cred.by = p
    BY <2>1 DEF ReadsInv, Signed
  <2> QED BY <2>1, <2>2, <2>3, <2>4, MarksAreNew DEF V, Written, IsLogout, Cmd
<1>11. \A h \in Host :
         \/ intact'[h] = NoCred \/ intact'[h] = intact[h]
         \/ HasPages(p) /\ intact'[h] = proc[p].pages[h]
         \/ At(p, "adding") /\ h = H(p)
  <2>1. CASE Drops(p)
    <3>1. CASE HasPages(p) /\ intact' = Without(p)
      <4>1. proc[p].pages \in Contents
        BY <1>1, <3>1 DEF ProcTypes
      <4> QED BY <1>1, <3>1, <4>1 DEF Without, Contents
    <3> QED BY <2>1, <3>1 DEF Drops
  <2>2. CASE At(p, "adding")
    <3>1. HasPages(p) /\ proc[p].pages \in Contents /\ intact' = [proc[p].pages EXCEPT ![H(p)] = proc[p].cred]
      BY <1>1, <1>9, <2>2 DEF HasPages, ProcTypes, Finishes, At
    <3> QED BY <1>1, <2>2, <3>1 DEF Contents
  <2> QED BY <2>1, <2>2 DEF Finishes
<1>12. ASSUME H(p) \notin spoiled', ~At(p, "adding") PROVE intact'[H(p)] = NoCred
  BY <1>9, <1>12 DEF Finishes
<1>13. Signed'
  BY <1>8 DEF ReadsInv, Signed
<1>14. Settled'
  BY <1>4 DEF ReadsInv, Settled
<1>15. NotYet'
  <2> SUFFICES ASSUME NEW q \in Proc, ~Wrote(q)', NEW h \in Host
               PROVE  /\ \A c \in Slots(h)' : c.by # q
                      /\ \A x \in Proc : HasPages(x)' /\ proc'[x].pages[h] # NoCred => proc'[x].pages[h].by # q
    BY DEF NotYet
  <2>1. ~Wrote(q)
    BY <1>2, <1>8 DEF Wrote
  <2>2. /\ \A c \in Slots(h) : c.by # q
        /\ \A x \in Proc : HasPages(x) /\ proc[x].pages[h] # NoCred => proc[x].pages[h].by # q
    BY <2>1 DEF ReadsInv, NotYet
  <2>3. At(p, "adding") => q # p
    <3>1. At(p, "adding") => Wrote(p)'
      BY <1>1 DEF Finishes, Continue, Wrote, Late, ProcTypes, IsLogout, Cmd, At
    <3> QED BY <3>1
  <2>4. intact'[h] # NoCred => intact'[h].by # q
    <3>1. CASE intact'[h] = intact[h]
      BY <2>2, <3>1 DEF Slots
    <3>2. CASE HasPages(p) /\ intact'[h] = proc[p].pages[h]
      BY <2>2, <3>2
    <3>3. CASE At(p, "adding") /\ h = H(p)
      BY <1>10, <2>3, <3>3
    <3> QED BY <1>11, <3>1, <3>2, <3>3
  <2>5. keyring'[h] # NoCred => keyring'[h].by # q
    BY <1>1, <2>2 DEF Slots
  <2> QED BY <1>8, <2>2, <2>4, <2>5 DEF Slots
<1>16. SlotsTold'
  <2> SUFFICES ASSUME NEW h \in Host \ spoiled', NEW c \in Slots(h)' PROVE V(c) \in settled'[h] \cup UnderWay(h)'
    BY DEF SlotsTold, V
  <2>1. CASE h # H(p)
    <3>1. h \notin spoiled /\ c \in Slots(h)
      BY <1>1, <2>1 DEF Slots
    <3>2. V(c) \in settled[h] \cup UnderWay(h)
      BY <3>1 DEF ReadsInv, SlotsTold
    <3> QED BY <1>4, <1>7, <2>1, <3>2
  <2>2. CASE h = H(p) /\ c = intact'[h]
    <3>1. At(p, "adding") /\ V(c) = Written(p)
      BY <1>10, <1>12, <2>2 DEF Slots
    <3> QED BY <1>4, <2>2, <3>1
  <2>3. CASE h = H(p) /\ c = keyring[h]
    <3>1. c # NoCred /\ c \in Slots(h)
      BY <2>3, <1>1 DEF Slots
    <3>2. CASE h \notin spoiled
      <4>1. V(c) \in settled[h] \cup UnderWay(h)
        BY <3>1, <3>2 DEF ReadsInv, SlotsTold
      <4>2. ~At(p, "adding")
        BY <1>10, <2>3, <3>1
      <4>3. V(c) \notin proc[p].before
        BY <1>9, <2>3, <3>1, <3>2, <4>2 DEF ReadsInv, NothingOlder
      <4> QED BY <1>4, <1>7, <2>3, <4>1, <4>3
    <3>3. CASE h \in spoiled
      <4>1. Dropping(p) /\ keyring[H(p)] = proc[p].cred
        BY <1>9, <2>3, <3>3 DEF Finishes
      <4>2. ~IsLogout(p)
        BY <1>1, <4>1 DEF Dropping, ProcTypes, At
      <4>3. V(c) = Written(p)
        BY <2>3, <4>1, <4>2 DEF ReadsInv, Signed, V, Written, IsLogout, Cmd
      <4> QED BY <1>4, <2>3, <4>3
    <3> QED BY <3>2, <3>3
  <2> QED BY <1>1, <2>1, <2>2, <2>3 DEF Slots
<1>17. NothingOlder'
  <2> SUFFICES ASSUME NEW q \in Proc, keyring[H(q)'] # NoCred, Dropping(q)' \/ (Erasing(q)' /\ H(q)' \notin spoiled')
               PROVE  V(keyring[H(q)']) \notin proc'[q].before
    BY <1>1 DEF NothingOlder, V, H
  <2>1. /\ q # p /\ proc'[q] = proc[q] /\ H(q)' = H(q) /\ (Dropping(q)' => Dropping(q)) /\ (Erasing(q)' => Erasing(q))
    BY <1>8
  <2>2. Erasing(q)' /\ H(q)' \notin spoiled' => H(q) \notin spoiled
    <3>1. SUFFICES ASSUME Erasing(q), H(q) \notin spoiled', H(q) \in spoiled PROVE FALSE
      BY <2>1
    <3>2. proc[q].step \in Writing
      BY <3>1 DEF Erasing, Writing, At
    <3>3. H(q) \in Host
      BY <1>1, <3>2, HostOf DEF InSession
    <3>4. H(q) = H(p)
      BY <1>1, <3>1, <3>3
    <3>5. UnderWay(H(p)) = {Written(p)}
      BY <1>9, <3>1, <3>4 DEF Finishes
    <3>6. Written(q) \in UnderWay(H(p)) /\ Written(q).by = q
      BY <3>2, <3>4 DEF UnderWay, Written
    <3> QED BY <1>3, <2>1, <3>5, <3>6
  <2> QED BY <2>1, <2>2 DEF ReadsInv, NothingOlder
<1>18. ReadersSee' /\ QuietReaders'
  <2> SUFFICES ASSUME NEW q \in Proc, At(q, "file")', NEW h, h = H(q)
               PROVE  /\ settled'[h] \cup UnderWay(h)' \subseteq seen'[q]
                      /\ proc'[q].quiet /\ h \notin spoiled' => intact'[h] # NoCred \/ Several(seen'[q])
    <3>1. \A q \in Proc : At(q, "file")' => H(q)' = H(q)
      BY <1>8
    <3> QED BY <3>1 DEF ReadersSee, QuietReaders, H, Several, UnderWay
  <2>1. q # p /\ proc'[q] = proc[q] /\ At(q, "file") /\ seen'[q] = seen[q]
    BY <1>8
  <2>2. h \in Host
    BY <1>1, <2>1, HostOf DEF At, InSession, Early
  <2>3. settled[h] \cup UnderWay(h) \subseteq seen[q]
    BY <2>1 DEF ReadsInv, ReadersSee
  <2>4. settled'[h] \cup UnderWay(h)' \subseteq seen'[q]
    BY <1>5, <1>6, <2>1, <2>2, <2>3
  <2>5. ASSUME proc'[q].quiet, h \notin spoiled' PROVE intact'[h] # NoCred \/ Several(seen'[q])
    <3>1. CASE h # H(p)
      BY <1>1, <2>1, <2>2, <2>5, <3>1 DEF ReadsInv, QuietReaders
    <3>2. CASE h = H(p) /\ At(p, "adding")
      BY <1>10, <3>2
    <3>3. CASE h = H(p) /\ ~At(p, "adding")
      <4>1. Written(p) \in seen'[q]
        BY <1>4, <2>4, <3>3
      <4>2. PICK v \in settled[h] : TRUE
        BY <2>2 DEF ReadsInv, Settled
      <4>3. v \in seen'[q] /\ v # Written(p)
        BY <1>3, <2>1, <2>2, <2>3, <4>2
      <4> QED BY <4>1, <4>3 DEF Several
    <3> QED BY <3>1, <3>2, <3>3
  <2> QED BY <2>4, <2>5
<1>19. Lasting'
  <2> SUFFICES ASSUME NEW h \in Host \ spoiled', Slots(h)' = {}
               PROVE  Several(settled'[h] \cup Signs(h)')
    BY DEF Lasting, Several
  <2>1. \A q \in Begun(h) : q # p => q \in Begun(h)' /\ Written(q)' = Written(q)
    BY <1>1, BegunOf DEF Begun
  <2>2. CASE h # H(p)
    <3>1. h \notin spoiled /\ Slots(h) = {}
      BY <1>1, <2>2 DEF Slots
    <3>2. Several(settled[h] \cup Signs(h))
      BY <3>1 DEF ReadsInv, Lasting
    <3>3. p \notin Begun(h)
      BY <2>2 DEF Begun
    <3>4. Signs(h) \subseteq Signs(h)'
      BY <2>1, <3>3 DEF Signs
    <3> QED BY <1>4, <2>2, <3>2, <3>4, SeveralGrows
  <2>3. CASE h = H(p)
    <3>1. Written(p) \in settled'[h] /\ ~At(p, "adding") /\ keyring[h] = NoCred
      BY <1>1, <1>4, <1>10, <2>3 DEF Slots
    <3>2. CASE Erasing(p)
      <4>1. ~Written(p).present
        BY <1>1, <3>2 DEF Written, Erasing, ProcTypes, IsLogout, Cmd, At
      <4> QED BY <3>1, <4>1 DEF Several
    <3>3. CASE Dropping(p)
      <4>1. CASE \E v \in settled[h] \ proc[p].before : v # Written(p)
        BY <1>4, <2>3, <3>1, <4>1 DEF Several
      <4>2. CASE \E q \in Begun(h) : q # p
        <5>1. PICK q \in Begun(h) : q # p
          BY <4>2
        <5>2. Written(q) \in Signs(h)' /\ Written(q).by = q
          BY <2>1, <5>1 DEF Signs, Written
        <5> QED BY <1>3, <3>1, <5>1, <5>2 DEF Several
      <4> QED BY <2>3, <3>1, <3>3, <4>1, <4>2 DEF ReadsInv, Persists
    <3> QED BY <1>9, <3>1, <3>2, <3>3
  <2> QED BY <2>2, <2>3
<1>20. Persists'
  <2> SUFFICES ASSUME NEW q \in Proc, Dropping(q)', NEW h, h = H(q)
               PROVE  \/ keyring[h] # NoCred
                      \/ \E v \in settled'[h] \ proc'[q].before : v # Written(q)'
                      \/ \E x \in Begun(h)' : x # q
    <3>1. \A q \in Proc : Dropping(q)' => H(q)' = H(q)
      BY <1>8
    <3> QED BY <1>1, <3>1 DEF Persists, Begun
  <2>1. q # p /\ Dropping(q) /\ proc'[q] = proc[q] /\ Written(q)' = Written(q)
    BY <1>8
  <2>2. h \in Host /\ proc[q].step \in Writing
    BY <1>1, <2>1, HostsOf DEF HasCred, Dropping, Writing, At
  <2>3. CASE h = H(p)
    <3>1. Written(p) \in settled'[h] /\ Written(p) \notin proc'[q].before
      BY <1>3, <1>4, <2>1, <2>2, <2>3
    <3>2. Written(p) # Written(q)
      BY <1>3, <2>1 DEF Written
    <3> QED BY <2>1, <3>1, <3>2
  <2>4. CASE h # H(p)
    <3>1. \A x \in Begun(h) : x \in Begun(h)'
      BY <1>1, <2>4, BegunOf DEF Begun
    <3>2. settled'[h] = settled[h]
      BY <1>4, <2>2, <2>4
    <3> QED BY <2>1, <3>1, <3>2 DEF ReadsInv, Persists
  <2> QED BY <2>3, <2>4
<1> QED BY <1>13, <1>14, <1>15, <1>16, <1>17, <1>18, <1>19, <1>20 DEF ReadsInv

LEMMA ReadsInvKept == RaceInv /\ ReadsInv /\ [Next]_vars => ReadsInv'
<1> SUFFICES ASSUME RaceInv, ReadsInv, [Next]_vars PROVE ReadsInv'
  OBVIOUS
<1>1. ClientTypes /\ ClientTypes'
  BY TypesKept DEF RaceInv
<1>2. CASE Still
  <2>1. UNCHANGED <<proc, seen, keyring, intact, settled, spoiled>>
    BY <1>2 DEF Still, creds, told
  <2>2. \A h : UnderWay(h)' = UnderWay(h) /\ Begun(h)' = Begun(h) /\ Slots(h)' = Slots(h)
    BY <2>1 DEF UnderWay, Begun, Slots, Written, H
  <2>3. \A h : Signs(h)' = Signs(h)
    BY <2>1, <2>2 DEF Signs, Written
  <2>4. \A q : /\ New(q)' = New(q) /\ Dropping(q)' = Dropping(q) /\ Erasing(q)' = Erasing(q)
               /\ HasPages(q)' = HasPages(q) /\ Wrote(q)' = Wrote(q)
               /\ H(q)' = H(q) /\ Written(q)' = Written(q) /\ At(q, "file")' = At(q, "file")
    BY <2>1 DEF New, Dropping, Erasing, HasPages, Wrote, IsLogout, Cmd, H, Written, At
  <2>5. Signed' /\ Settled' /\ NotYet'
    BY <2>1, <2>2, <2>4 DEF ReadsInv, Signed, Settled, NotYet
  <2>6. SlotsTold' /\ Lasting'
    BY <2>1, <2>2, <2>3 DEF ReadsInv, SlotsTold, Lasting, V, Several
  <2>7. NothingOlder' /\ ReadersSee' /\ Persists' /\ QuietReaders'
    <3>1. \A q : UnderWay(H(q))' = UnderWay(H(q)) /\ Begun(H(q))' = Begun(H(q))
      BY <2>1 DEF UnderWay, Begun, Written, H
    <3> QED BY <2>1, <2>4, <3>1 DEF ReadsInv, NothingOlder, ReadersSee, Persists, QuietReaders, V, Several
  <2> QED BY <2>5, <2>6, <2>7 DEF ReadsInv
<1>3. ASSUME NEW p \in Proc, Event(p) PROVE ReadsInv'
  BY <1>1, <1>3, QuietEventsReadWell, EffectsReadWell, FinishesReadsWell, BreaksReadWell DEF Event
<1> QED BY <1>1, <1>2, <1>3, NextIs

LEMMA InitReads == Init => ReadsInv
<1> SUFFICES ASSUME Init PROVE ReadsInv
  OBVIOUS
<1> DEFINE l == Loads[load]
<1>1. /\ load \in DOMAIN Loads /\ proc = [p \in Proc |-> Idle]
      /\ keyring = With(Empty, l.keyring) /\ intact = With(Empty, l.file)
      /\ settled = [h \in Host |-> {[by |-> Start, present |-> h \in DOMAIN l.keyring \cup DOMAIN l.file]}]
  BY DEF Init
<1>2. /\ DOMAIN l.keyring \subseteq Host /\ DOMAIN l.file \subseteq Host
      /\ \A h \in DOMAIN l.keyring : l.keyring[h] \in FirstCred
      /\ \A h \in DOMAIN l.file : l.file[h] \in FirstCred
  BY <1>1, LoadsAreStates
<1> HIDE DEF l
<1>3. \A p \in Proc : /\ At(p, "idle") /\ ~New(p) /\ ~Dropping(p) /\ ~Erasing(p) /\ ~HasPages(p)
                      /\ ~At(p, "file") /\ proc[p].step \notin Writing
  BY <1>1 DEF Idle, At, New, Dropping, Erasing, HasPages, Writing
<1>4. \A h \in Host : /\ keyring[h] = IF h \in DOMAIN l.keyring THEN l.keyring[h] ELSE NoCred
                      /\ intact[h] = IF h \in DOMAIN l.file THEN l.file[h] ELSE NoCred
                      /\ settled[h] = {[by |-> Start, present |-> h \in DOMAIN l.keyring \cup DOMAIN l.file]}
  BY <1>1, <1>2 DEF With, Empty
<1>5. \A h \in Host : \A c \in Slots(h) : c.by = Start /\ h \in DOMAIN l.keyring \cup DOMAIN l.file
  BY <1>2, <1>4 DEF Slots, FirstCred
<1>6. \A h \in Host : h \in DOMAIN l.keyring \cup DOMAIN l.file => Slots(h) # {}
  <2>1. \A c \in FirstCred : c # NoCred
    BY MarksAreNew DEF FirstCred
  <2> QED BY <1>2, <1>4, <2>1 DEF Slots
<1>7. Signed /\ NothingOlder /\ ReadersSee /\ Persists /\ QuietReaders
  BY <1>3 DEF Signed, NothingOlder, ReadersSee, Persists, QuietReaders
<1>8. Settled
  BY <1>4 DEF Settled
<1>9. NotYet
  BY <1>3, <1>5, MarksAreNew DEF NotYet
<1>10. SlotsTold
  BY <1>4, <1>5 DEF SlotsTold, V
<1>11. Lasting
  <2> SUFFICES ASSUME NEW h \in Host, Slots(h) = {} PROVE Several(settled[h] \cup Signs(h))
    BY DEF Lasting
  <2>1. h \notin DOMAIN l.keyring \cup DOMAIN l.file
    BY <1>6
  <2> DEFINE stored == h \in DOMAIN l.keyring \cup DOMAIN l.file
             v == [by |-> Start, present |-> stored]
  <2>2. ~stored
    BY <2>1, Zenon
  <2>3. v.present = stored
    OBVIOUS
  <2>4. v \in settled[h]
    BY <1>4
  <2> HIDE DEF v, stored
  <2>5. ~v.present
    BY <2>2, <2>3, Zenon
  <2>6. v \in settled[h] \cup Signs(h)
    BY <2>4, Zenon
  <2> QED BY <2>5, <2>6, Zenon DEF Several
<1> QED BY <1>7, <1>8, <1>9, <1>10, <1>11 DEF ReadsInv

\* A command works with the credential last stored for its host, or one that is being stored
\* meanwhile, and finds none only after a logout or beside a write (credstore.go:82-137),
\* however many invocations read and write the two stores at the same time, fail or are killed
\* half way, and however often the keyring comes and goes; but for the hosts of the four
\* accidents that the property names.
THEOREM FindsWhatWasStored == Spec => ReadsWhatWasStored
<1> DEFINE A == \A p \in Proc :
                  (At(p, "keyring") \/ At(p, "file")) /\ H(p) \notin spoiled =>
                    LET may == IF At(p, "keyring") THEN settled[H(p)] \cup UnderWay(H(p)) ELSE seen[p]
                    IN  /\ proc'[p].step = "found" => [by |-> proc'[p].cred.by, present |-> TRUE] \in may
                        /\ proc'[p].step = "absent" => \E v, w \in may : v # w \/ ~v.present
<1>1. RaceInv /\ ReadsInv /\ [Next]_vars => A
  <2> SUFFICES ASSUME RaceInv, ReadsInv, [Next]_vars, NEW p \in Proc, At(p, "keyring") \/ At(p, "file"),
                      H(p) \notin spoiled,
                      NEW may, may = IF At(p, "keyring") THEN settled[H(p)] \cup UnderWay(H(p)) ELSE seen[p]
               PROVE  /\ proc'[p].step = "found" => [by |-> proc'[p].cred.by, present |-> TRUE] \in may
                      /\ proc'[p].step = "absent" => \E v, w \in may : v # w \/ ~v.present
    OBVIOUS
  <2>1. ClientTypes /\ H(p) \in Host
    BY HostOf DEF RaceInv, At, InSession, Early
  <2>2. SUFFICES ASSUME proc'[p].step \in {"found", "absent"}
                 PROVE  /\ proc'[p].step = "found" => [by |-> proc'[p].cred.by, present |-> TRUE] \in may
                        /\ proc'[p].step = "absent" => \E v, w \in may : v # w \/ ~v.present
    OBVIOUS
  <2>3. Event(p)
    <3>1. CASE Still
      BY <2>2, <3>1 DEF Still, At
    <3>2. ASSUME NEW q \in Proc, Event(q), q # p PROVE FALSE
      <4>1. proc'[p] = proc[p]
        BY <3>2 DEF Event, Rests, Carries, Misses, Finds, Gets, Effects, Finishes, Breaks, Only
      <4> QED BY <2>2, <4>1 DEF At
    <3> QED BY <2>1, <3>1, <3>2, NextIs
  <2>4. Rests(p) \/ Finds(p)
    <3>1. ~Carries(p) /\ ~Misses(p) /\ ~Gets(p) /\ ~Effects(p)
      BY <2>2 DEF Carries, Misses, Gets, Effects, At
    <3>2. ~Finishes(p) /\ ~Breaks(p)
      BY <2>2 DEF Finishes, Breaks, Continue, Exited
    <3> QED BY <2>3, <3>1, <3>2 DEF Event
  <2>5. At(p, "file") => settled[H(p)] \cup UnderWay(H(p)) \subseteq may
    BY DEF ReadsInv, ReadersSee, At
  <2>6. CASE Finds(p)
    <3>1. proc'[p].step = "found" /\ proc'[p].cred \in Slots(H(p))
      BY <2>6 DEF Finds, Slots, At
    <3>2. V(proc'[p].cred) \in settled[H(p)] \cup UnderWay(H(p))
      BY <2>1, <3>1 DEF ReadsInv, SlotsTold
    <3>3. V(proc'[p].cred) \in may
      BY <2>5, <3>2
    <3> QED BY <3>1, <3>3 DEF V
  <2>7. CASE Rests(p)
    <3>1. At(p, "file") /\ proc'[p].step = "absent" /\ proc[p].quiet /\ intact[H(p)] = NoCred
      BY <2>2, <2>7 DEF Rests, At, Plain, Exited, Late, InUpdate
    <3>2. Several(seen[p])
      BY <3>1 DEF ReadsInv, QuietReaders
    <3> QED BY <3>1, <3>2 DEF Several, At
  <2> QED BY <2>4, <2>6, <2>7
<1>2. Spec => [](RaceInv /\ ReadsInv)
  BY InitRace, InitReads, RaceInvKept, ReadsInvKept, PTL DEF Spec
<1>3. Spec => [][Next]_vars
  BY PTL DEF Spec
<1> HIDE DEF A
<1>4. Spec => [][A]_credVars
  BY <1>1, <1>2, <1>3, PTL
<1> QED BY <1>4 DEF A, ReadsWhatWasStored

=============================================================================

------------------------------- MODULE CredStore -------------------------------
(***************************************************************************)
(* Where dwvault keeps the credential of a host: the OS keyring, which may *)
(* be locked or absent, and behind it a file that invocations read, change *)
(* and replace without a lock (cli/internal/credstore).  A credential      *)
(* carries the invocation that stored it, so that a read can be compared   *)
(* with the writes before and beside it.                                   *)
(***************************************************************************)
EXTENDS Naturals

CONSTANTS Proc,        \* invocations of dwvault; each runs one command
          Host,        \* addresses of vaults
          Start,       \* who stored what was there at the start
          NoCred,      \* no credential
          NoAsk, NoEntry, NoRelease,
          Unreadable   \* a file cut short, or one whose permissions checkPerms refuses

VARIABLES proc,      \* [Proc -> step, command and what the invocation holds in memory]
          keyring,   \* the OS keyring
          available, \* the keyring answers
          file,      \* credentials.json: [Host -> credential], all NoCred when there is none
          openers,   \* invocations that have opened the present file to write it in place
          intact,    \* what the last write of the file meant to leave there (history)
          settled,   \* [Host -> versions the next read may find] (history)
          seen,      \* [Proc -> versions a read in progress may return] (history)
          complete,  \* invocations whose write is over (history)
          spoiled,   \* hosts whose stores disagree, see ReadsWhatWasStored (history)
          budget     \* bounds: what may still go wrong, and how often

stores == <<keyring, file, openers>>
history == <<intact, settled, seen, complete, spoiled>>
credVars == <<proc, stores, available, history, budget>>

\* A stored credential; the tokens of an OAuth credential are numbers, 0 for none.
Cred == [by : Proc \cup {Start}, type : {"oauth", "api_key", "broken"},
         access : Nat, refresh : Nat, expires : Nat]
Contents == [Host -> Cred \cup {NoCred}]

ASSUME MarksAreNew == /\ NoCred \notin Cred /\ Start \notin Proc /\ Unreadable \notin Contents
                      /\ NoEntry \notin {"keyring", "file"}

Idle == [step |-> "idle", ask |-> NoAsk, cred |-> NoCred, quiet |-> FALSE, pages |-> NoCred,
         kept |-> NoEntry, cfg |-> NoEntry, before |-> {}, known |-> {}, left |-> 0, interval |-> 0,
         version |-> NoRelease, rel |-> NoRelease]

Trouble == {"fault", "crash", "flip", "age", "day", "publish"}
Spend(what) == budget[what] > 0 /\ budget' = [budget EXCEPT ![what] = @ - 1]

H(p) == proc[p].ask.host
At(p, step) == proc[p].step = step
With(old, change) == [k \in DOMAIN old \cup DOMAIN change |->
                       IF k \in DOMAIN change THEN change[k] ELSE old[k]]
Change(p, change) == proc' = [proc EXCEPT ![p] = With(@, change)]
Go(p, step) == Change(p, [step |-> step])
\* The invocation exits; its memory goes.
Ends(p, how) == proc' = [proc EXCEPT ![p] = [Idle EXCEPT !.step = how]]
Exited == {"ok", "failed", "killed"}

\* A version of a host's credential: who wrote it, and whether it is one or none.
Written(p) == [by |-> p, present |-> proc[p].ask.cmd # "logout"]
\* The steps from the first effect of StoreCredential or Delete to the last.
Writing == {"drop", "dropping", "add", "adding", "erase", "erasing", "refill"}
UnderWay(h) == {Written(q) : q \in {x \in Proc : proc[x].step \in Writing /\ H(x) = h}}
Readers(h) == {q \in Proc : At(q, "file") /\ H(q) = h}

-----------------------------------------------------------------------------
(* ResolveCredential after the environment: the keyring, then the file. *)

\* parseCredential.  The writes an invocation should know of are those that were over when it
\* began to read; none, where the stores disagree.
Answered(p, c) ==
    IF c.type = "broken" THEN Ends(p, "failed")
    ELSE Change(p, [step |-> "found", cred |-> c,
                    known |-> IF H(p) \in spoiled THEN {}
                              ELSE IF At(p, "keyring") THEN complete ELSE proc[p].known])

ReadKeyring(p) ==
    /\ At(p, "keyring")
    /\ IF available /\ keyring[H(p)] # NoCred
         THEN Answered(p, keyring[H(p)]) /\ UNCHANGED seen
         ELSE /\ Change(p, [step |-> "file", quiet |-> available, known |-> complete])
              /\ seen' = [seen EXCEPT ![p] = settled[H(p)] \cup UnderWay(H(p))]
    /\ UNCHANGED <<stores, available, intact, settled, complete, spoiled, budget>>

Holds(p) == IF file = Unreadable THEN FALSE ELSE file[H(p)] # NoCred

\* A keyring that failed is reported only when the file holds nothing either.
ReadFile(p) ==
    /\ At(p, "file")
    /\ CASE file = Unreadable -> Ends(p, "failed")
         [] Holds(p) -> Answered(p, file[H(p)])
         [] OTHER -> IF proc[p].quiet THEN Go(p, "absent") ELSE Ends(p, "failed")
    /\ seen' = [seen EXCEPT ![p] = {}]
    /\ UNCHANGED <<stores, available, intact, settled, complete, spoiled, budget>>

-----------------------------------------------------------------------------
(* StoreCredential and Delete *)

\* From here on a read may find what p writes, or what was there.
FirstEffect(p, change) ==
    /\ Change(p, With([before |-> settled[H(p)]], change))
    /\ seen' = [q \in Proc |-> IF q \in Readers(H(p)) THEN seen[q] \cup {Written(p)} ELSE seen[q]]
    /\ UNCHANGED <<available, intact, settled, complete, budget>>

SetKeyring(p) ==
    /\ At(p, "set")
    /\ IF available
         THEN keyring' = [keyring EXCEPT ![H(p)] = proc[p].cred] /\ FirstEffect(p, [step |-> "drop"])
         ELSE UNCHANGED keyring /\ FirstEffect(p, [step |-> "add"])
    /\ UNCHANGED <<file, openers, spoiled>>

\* Delete looks at no answer of the keyring.
UnsetKeyring(p) ==
    /\ At(p, "unset")
    /\ IF available THEN keyring' = [keyring EXCEPT ![H(p)] = NoCred] /\ UNCHANGED spoiled
       ELSE /\ spoiled' = spoiled \cup (IF keyring[H(p)] # NoCred THEN {H(p)} ELSE {})
            /\ UNCHANGED keyring
    /\ FirstEffect(p, [step |-> "erase"])
    /\ UNCHANGED <<file, openers>>

Continue(p) == CASE proc[p].ask.cmd = "login" -> "hosts"
                 [] proc[p].ask.cmd = "logout" -> "config"
                 [] OTHER -> "call"

\* The deletion of an entry does not reach the file: nobody can read it, or it was replaced
\* after p had opened it.
DeletionMisses(p) == (At(p, "drop") /\ file = Unreadable) \/ (At(p, "refill") /\ p \notin openers)

\* The write of p is over: a read that starts now finds nothing older.  The stores disagree on
\* a host whose entry p has undone with what it had read of the file, and on its own if an
\* older credential is left in the keyring that refused the new one or in the file that the
\* deletion missed; they agree again after a write that none overlapped.
Done(p, kept) ==
    LET h == H(p)
        undone == {g \in Host \ {h} : intact'[g] # intact[g] /\ intact'[g] = proc[p].pages[g]}
        behind == IF kept = "file" THEN keyring[h] # NoCred ELSE intact'[h] # NoCred /\ DeletionMisses(p)
        alone == /\ kept = "keyring" /\ keyring[h] = proc[p].cred
                 /\ UnderWay(h) = {Written(p)} /\ settled[h] = proc[p].before
    IN  /\ settled' = [settled EXCEPT ![h] = (@ \ proc[p].before) \cup {Written(p)}]
        /\ spoiled' = (spoiled \ {g \in {h} : alone}) \cup undone \cup {g \in {h} : behind}
        /\ complete' = complete \cup {p}
        /\ Change(p, [step |-> Continue(p), kept |-> kept, pages |-> NoCred, before |-> {}])
        /\ UNCHANGED <<keyring, available, seen, budget>>

Reads(p, next) == /\ Change(p, [pages |-> file, step |-> next])
                  /\ UNCHANGED <<stores, available, history, budget>>

\* Mutant: storeRaw leaves the copy of the file alone.
LeaveCopy(p) == At(p, "drop") /\ UNCHANGED <<file, openers, intact>> /\ Done(p, "keyring")

\* fileLoad in the fileDelete of storeRaw, whose errors are dropped.
DropCopy(p) ==
    /\ At(p, "drop")
    /\ IF Holds(p) THEN Reads(p, "dropping")
       ELSE UNCHANGED <<file, openers, intact>> /\ Done(p, "keyring")

\* fileLoad in fileSet.
LoadToAdd(p) ==
    /\ At(p, "add")
    /\ IF file # Unreadable THEN Reads(p, "adding")
       ELSE Ends(p, "failed") /\ UNCHANGED <<stores, available, history, budget>>

\* fileLoad in the fileDelete of Delete.
LoadToErase(p) ==
    /\ At(p, "erase")
    /\ CASE Holds(p) -> Reads(p, "erasing")
         [] file = Unreadable -> /\ Ends(p, "failed")
                                 /\ settled' = [settled EXCEPT ![H(p)] = @ \cup {Written(p)}]
                                 /\ UNCHANGED <<stores, available, intact, seen, complete, spoiled, budget>>
         [] OTHER -> UNCHANGED <<file, openers, intact>> /\ Done(p, NoEntry)

\* fileSet: a new file is renamed over the old one.
ReplaceFile(p) ==
    /\ At(p, "adding")
    /\ file' = [proc[p].pages EXCEPT ![H(p)] = proc[p].cred]
    /\ openers' = {} /\ intact' = file'
    /\ Done(p, "file")

CannotReplaceFile(p) == /\ At(p, "adding") /\ Spend("fault")
                        /\ Ends(p, "failed")
                        /\ UNCHANGED <<stores, available, history>>

Without(p) == [proc[p].pages EXCEPT ![H(p)] = NoCred]
Empty == [h \in Host |-> NoCred]
Keeps(p) == IF proc[p].ask.cmd = "logout" THEN NoEntry ELSE "keyring"

\* fileDelete: an empty file is removed, any other is cut and then written in place.
RemoveFile(p) ==
    /\ proc[p].step \in {"dropping", "erasing"} /\ Without(p) = Empty
    /\ file' = Empty /\ openers' = {} /\ intact' = file'
    /\ Done(p, Keeps(p))

CutFile(p) ==
    /\ proc[p].step \in {"dropping", "erasing"} /\ Without(p) # Empty
    /\ file' = Unreadable /\ openers' = openers \cup {p}
    /\ Go(p, "refill")
    /\ UNCHANGED <<keyring, available, history, budget>>

\* A file that was replaced meanwhile keeps the entry; one that another invocation wrote in
\* place may hold the tail of the other's text.
RefillFile(p) ==
    /\ At(p, "refill")
    /\ IF p \notin openers THEN UNCHANGED <<file, intact>>
       ELSE /\ file' \in {Without(p)} \cup (IF file = Unreadable THEN {} ELSE {Unreadable})
            /\ intact' = Without(p)
    /\ openers' = openers \ {p}
    /\ Done(p, Keeps(p))

\* The process is killed at any step; what it was writing may or may not be there.
Killed(p) ==
    /\ proc[p].step \notin Exited \cup {"idle"} /\ Spend("crash")
    /\ Ends(p, "killed")
    /\ settled' = IF proc[p].step \in Writing
                    THEN [settled EXCEPT ![H(p)] = @ \cup {Written(p)}] ELSE settled
    /\ openers' = openers \ {p}
    /\ seen' = [seen EXCEPT ![p] = {}]
    /\ UNCHANGED <<keyring, file, available, intact, complete, spoiled>>

\* The keyring is locked or unlocked; the user opens or mends the permissions of the file.
KeyringFlips == available' = ~available /\ Spend("flip") /\ UNCHANGED <<proc, stores, history>>

Resolves(p) == ReadKeyring(p) \/ ReadFile(p)
Stores(p) == \/ SetKeyring(p) \/ UnsetKeyring(p)
             \/ DropCopy(p) \/ LoadToAdd(p) \/ LoadToErase(p) \/ ReplaceFile(p)
             \/ CannotReplaceFile(p) \/ RemoveFile(p) \/ CutFile(p) \/ RefillFile(p)

-----------------------------------------------------------------------------
\* A command works with the credential last stored for its host, or one being stored
\* meanwhile, and finds none only after a logout or beside a write (credstore.go:82-137), in
\* spite of two stores, a keyring that comes and goes, and invocations killed half way.  A
\* host is exempt from the four accidents the code leaves open: a write or logout the
\* keyring refuses while it holds an older credential (credstore.go:126, 159), a stale copy
\* the unreadable file may keep (credstore.go:128), entries of other hosts that a
\* read-change-replace of the file undoes (credstore.go:206), and a deletion written into
\* a file that has been replaced (credstore.go:253).
ReadsWhatWasStored ==
    [][\A p \in Proc :
         (At(p, "keyring") \/ At(p, "file")) /\ H(p) \notin spoiled =>
           LET may == IF At(p, "keyring") THEN settled[H(p)] \cup UnderWay(H(p)) ELSE seen[p]
           IN  /\ proc'[p].step = "found" => [by |-> proc'[p].cred.by, present |-> TRUE] \in may
               /\ proc'[p].step = "absent" => \E v, w \in may : v # w \/ ~v.present]_credVars
=============================================================================

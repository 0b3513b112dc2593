-------------------------------- MODULE DwVault --------------------------------
(***************************************************************************)
(* dwvault: invocations that run beside each other on one user's machine   *)
(* over its keyring, its files and its binary.  A load says what is there  *)
(* at first, which commands are run and what may go wrong.                 *)
(***************************************************************************)
EXTENDS SelfUpdate

CONSTANT Loads   \* [name -> load]

FirstCred == {c \in Cred : c.by = Start /\ c.refresh \in {0, 1}}

ASSUME LoadsAreStates ==
    \A n \in DOMAIN Loads : LET l == Loads[n] IN
      /\ l.available \in BOOLEAN /\ l.readable \in BOOLEAN
      /\ l.issuers \subseteq Issuer
      /\ DOMAIN l.asks \subseteq Proc
      /\ \A p \in DOMAIN l.asks : l.asks[p] \subseteq Ask \cup UpdateAsk
      /\ DOMAIN l.keyring \subseteq Host /\ DOMAIN l.file \subseteq Host
      /\ \A h \in DOMAIN l.keyring \cap DOMAIN l.file : l.keyring[h] = l.file[h]
      \* One login has been made, at one host: its refresh token is the only one issued.
      /\ \A h \in DOMAIN l.keyring : l.keyring[h] \in FirstCred
      /\ \A h \in DOMAIN l.file : l.file[h] \in FirstCred
      /\ \E h \in Host : \A g \in Host \ {h} :
           /\ g \in DOMAIN l.keyring => l.keyring[g].refresh = 0
           /\ g \in DOMAIN l.file => l.file[g].refresh = 0
      /\ l.version \in Tag /\ l.skill \in {NoSkill, EditedSkill}
      /\ DOMAIN l.budget \subseteq Trouble /\ \A k \in DOMAIN l.budget : l.budget[k] \in Nat
ASSUME ReleasesAreReleases == Releases \in Seq(Release)

VARIABLE load

vars == <<load, sessionVars, updateVars>>

Init ==
    /\ load \in DOMAIN Loads
    /\ LET l == Loads[load] IN
         /\ proc = [p \in Proc |-> Idle]
         /\ keyring = With(Empty, l.keyring)
         /\ available = l.available
         /\ intact = With(Empty, l.file) /\ file = IF l.readable THEN intact ELSE Unreadable
         /\ hosts = [h \in Host |-> IF keyring[h] # NoCred THEN "keyring"
                                 ELSE IF h \in DOMAIN l.file THEN "file" ELSE NoEntry]
         /\ settled = [h \in Host |-> {[by |-> Start, present |-> h \in DOMAIN l.keyring \cup DOMAIN l.file]}]
         /\ issuer \in l.issuers
         /\ issued = 1 /\ live = {1} /\ aged = 0 /\ rotated = <<>>
         /\ budget = [k \in Trouble |-> IF k \in DOMAIN l.budget THEN l.budget[k] ELSE 0]
         /\ installed = [tag |-> l.version, sound |-> TRUE]
    /\ seen = [p \in Proc |-> {}] /\ complete = {} /\ spoiled = {} /\ openers = {}
    /\ published = 0 /\ noted = [tag |-> Dev, recent |-> FALSE] /\ checks = 0 /\ skill = Loads[load].skill

\* A command is entered.
Begin(p) ==
    /\ p \in DOMAIN Loads[load].asks /\ At(p, "idle")
    /\ \E q \in Loads[load].asks[p] :
         LET first == IF q.cmd \in {"update", "skill"} THEN FirstUpdateStep(q) ELSE FirstStep(q)
         IN  /\ IF first \in Exited THEN Ends(p, first)
                ELSE Change(p, [step |-> first, ask |-> q, version |-> installed.tag])
             /\ Notify(q)
    /\ UNCHANGED <<load, stores, available, history, budget, hosts, idpVars, aged,
                   published, installed, noted, skill>>

Runs(p) == /\ \/ Session(p) /\ UNCHANGED updateVars
              \/ Updates(p) /\ UNCHANGED <<stores, available, history, budget, hosts, idpVars, aged>>
           /\ UNCHANGED load

\* What depends on others: the user, the network, the machine.
Meets(p) == /\ \/ RemoteFails(p) \/ PasteKey(p)
               \/ Killed(p) /\ UNCHANGED <<hosts, idpVars, aged>>
            /\ UNCHANGED <<load, updateVars>>

Surroundings ==
    /\ \/ KeyringFlips /\ UNCHANGED <<hosts, idpVars, aged, updateVars>>
       \/ TokensAge /\ UNCHANGED updateVars
       \/ /\ (Publish /\ Spend("publish")) \/ (DayPasses /\ Spend("day"))
          /\ UNCHANGED <<proc, stores, available, history, hosts, idpVars, aged>>
       \/ CheckEnds /\ UNCHANGED sessionVars
    /\ UNCHANGED load

Next == (\E p \in Proc : Begin(p) \/ Runs(p) \/ Meets(p)) \/ Surroundings

\* An invocation that has begun runs on, since each of its calls has a timeout; nothing
\* obliges a user to enter a command or a key.
Fairness == \A p \in Proc : WF_vars(Runs(p))

Spec == Init /\ [][Next]_vars /\ Fairness
=============================================================================

------------------------------- MODULE MCDwVault -------------------------------
(* DwVault on small instances, one load for each of its concerns. *)
EXTENDS DwVault, TLC
CONSTANTS c1, c2, c3, h1, h2

ThreeProcs == {c1, c2, c3}
TwoHosts == {h1, h2}
Rotating == [rotates |-> TRUE, lifetime |-> TRUE, interval |-> 0]
Keeping == [rotates |-> FALSE, lifetime |-> TRUE, interval |-> 5]
Silent == [rotates |-> TRUE, lifetime |-> FALSE, interval |-> 10]

Is(a, b, c) == <<a, b, c>>
\* A fix for the old line is published after the new one; the last release is damaged.
ThreeReleases == <<[tag |-> Is(2, 0, 0), asset |-> TRUE, listed |-> TRUE, sound |-> TRUE],
                   [tag |-> Is(1, 9, 1), asset |-> TRUE, listed |-> TRUE, sound |-> TRUE],
                   [tag |-> Is(2, 1, 0), asset |-> TRUE, listed |-> TRUE, sound |-> FALSE]>>

Cmd(c, h) == [cmd |-> c, host |-> h, env |-> FALSE, force |-> FALSE, mode |-> "none", usable |-> TRUE]
Login(h, mode) == [Cmd("login", h) EXCEPT !.mode = mode]
Forced(q) == [q EXCEPT !.force = TRUE]
OnEnv(q) == [q EXCEPT !.env = TRUE]
Update(f, c) == [cmd |-> "update", force |-> f, check |-> c]
Skill(f, c) == [cmd |-> "skill", force |-> f, check |-> c]

Key == [by |-> Start, type |-> "api_key", access |-> 0, refresh |-> 0, expires |-> 0]
Oauth == [by |-> Start, type |-> "oauth", access |-> 1, refresh |-> 1, expires |-> 1]
Expired == [Oauth EXCEPT !.expires = 0]
Broken == [Key EXCEPT !.type = "broken"]

Calm == [available |-> TRUE, readable |-> TRUE, keyring |-> <<>>, file |-> <<>>, asks |-> <<>>,
         issuers |-> {Rotating}, version |-> Dev, skill |-> NoSkill, budget |-> <<>>]

\* A desktop: logins and calls of every kind, one of them killed.
Desktop == [Calm EXCEPT !.keyring = h1 :> Oauth, !.file = h2 :> Key, !.budget = [age |-> 1, crash |-> 1],
              !.asks = c1 :> {Cmd("use", h1), Cmd("logout", h1), Cmd("delete", h2)}
                    @@ c2 :> {Login(h1, "oauth"), Forced(Login(h1, "api_key")), Forced(Login(h1, "both")),
                              [Cmd("create", h1) EXCEPT !.usable = FALSE], OnEnv(Cmd("status", h1)),
                              OnEnv(Login(h2, "oauth"))}
                    @@ c3 :> {Cmd("status", h1), Cmd("logout", h2)}]

\* A session that is refreshed by one invocation after the other or at once.
Refreshing == [Calm EXCEPT !.keyring = h1 :> Oauth, !.budget = [age |-> 2],
                 !.issuers = {Rotating, Keeping},
                 !.asks = [p \in ThreeProcs |-> {Cmd("use", h1)}]]

\* No keyring: every credential is in the file.
Headless == [Calm EXCEPT !.available = FALSE, !.file = (h1 :> Expired) @@ (h2 :> Key),
               !.budget = [fault |-> 1, crash |-> 1],
               !.asks = c1 :> {Cmd("use", h1), Cmd("logout", h1), Forced(Login(h2, "api_key"))}
                     @@ c2 :> {Cmd("logout", h2), Cmd("status", h1), Forced(Login(h2, "api_key"))}
                     @@ c3 :> {Cmd("use", h1)}]

\* A keyring that is locked and unlocked.
Flipping == [Calm EXCEPT !.keyring = h1 :> Key, !.file = h2 :> Key, !.budget = [flip |-> 2, crash |-> 1],
               !.asks = c1 :> {Forced(Login(h1, "api_key")), Forced(Login(h2, "api_key")), Cmd("logout", h1)}
                     @@ c2 :> {Cmd("use", h1), Cmd("use", h2), Cmd("logout", h2)}
                     @@ c3 :> {Cmd("status", h1)}]

\* Two copies of an expired session, while the keyring comes back.
Copies == [Calm EXCEPT !.available = FALSE, !.keyring = h1 :> Expired, !.file = h1 :> Expired,
             !.budget = [flip |-> 1],
             !.asks = c1 :> {Cmd("use", h1)} @@ c2 :> {Cmd("use", h1)} @@ c3 :> {Forced(Login(h1, "api_key"))}]

\* Files nobody can use.
Damaged == [Calm EXCEPT !.readable = FALSE, !.keyring = h1 :> Broken, !.budget = [flip |-> 1],
              !.asks = c1 :> {Cmd("use", h1), Cmd("status", h2), Cmd("logout", h1),
                              Forced(Login(h2, "api_key"))}]

\* Two device logins.
Devices == [Calm EXCEPT !.budget = [fault |-> 1], !.issuers = {Rotating, Keeping, Silent},
              !.asks = [p \in {c1, c2} |-> {Login(h1, "oauth"), Login(h2, "oauth")}]]

\* Updates beside each other while releases appear.
Updating == [Calm EXCEPT !.version = Is(1, 8, 5), !.budget = [publish |-> 3, crash |-> 1],
               !.asks = c1 :> {Update(FALSE, FALSE), Update(FALSE, TRUE)}
                     @@ c2 :> {Update(FALSE, FALSE)}
                     @@ c3 :> {Update(TRUE, FALSE)}]

\* What other commands do on the way, and the skill.
Passive == [Calm EXCEPT !.version = Is(1, 8, 5), !.keyring = h1 :> Key, !.budget = [publish |-> 2, day |-> 1],
              !.asks = c1 :> {Update(FALSE, FALSE), Skill(FALSE, FALSE)}
                    @@ c2 :> {Skill(TRUE, FALSE), Skill(FALSE, TRUE), Skill(FALSE, FALSE)}
                    @@ c3 :> {Cmd("use", h1)}]

\* A build from source.
Source == [Calm EXCEPT !.skill = EditedSkill, !.budget = [publish |-> 1],
             !.asks = c1 :> {Update(FALSE, FALSE), Update(TRUE, FALSE)} @@ c2 :> {Skill(FALSE, FALSE), Skill(TRUE, FALSE)}]

CliLoads == [desktop |-> Desktop, refreshing |-> Refreshing, headless |-> Headless, flipping |-> Flipping,
             copies |-> Copies, damaged |-> Damaged, devices |-> Devices, updating |-> Updating,
             passive |-> Passive, source |-> Source]
=============================================================================

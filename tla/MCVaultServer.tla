----------------------------- MODULE MCVaultServer -----------------------------
(* VaultServer on small instances, one load for each of its concerns. *)
EXTENDS VaultServer
CONSTANTS p1, p2, r1, r2, r3, r4, alice, bob, k1, k2, n1, n2, proxy, a1, a2, a3

TwoReplicas == {p1, p2}
FourRequests == {r1, r2, r3, r4}
TwoUsers == {alice, bob}
TwoKeks == {k1, k2}
TwoNames == {n1, n2}
FourAddrs == {proxy, a1, a2, a3}
Proxies == {proxy}
FourEntries == 1 .. 4

Good == [dsn |-> TRUE, migrate |-> TRUE, active |-> k1, keks |-> {k1}, auth |-> TRUE, https |-> TRUE]
Rotated == [Good EXCEPT !.active = k2, !.keks = {k1, k2}]
Open == [Good EXCEPT !.auth = FALSE, !.migrate = FALSE]

Token(u, c) == [type |-> "token", user |-> u, client |-> c, valid |-> TRUE, sub |-> TRUE]
ByKey(id) == [type |-> "key", key |-> id]
Alice == Token(alice, "web")

Plain == [op |-> "me", by |-> Alice, peer |-> a1, hops |-> <<>>, table |-> "api_keys", name |-> n1,
          id |-> 0, malformed |-> FALSE, secret |-> FALSE, kind |-> "opaque", login |-> "none",
          header |-> FALSE, known |-> TRUE, scopes |-> {}, enabled |-> FALSE]
Asks(op) == [Plain EXCEPT !.op = op]
Saves(t, withSecret) == [Asks("save") EXCEPT !.table = t, !.secret = withSecret]
As(u, q) == [q EXCEPT !.by = u]

OpaqueRow == [table |-> "api_keys", id |-> 1, user |-> alice, name |-> n1, secret |-> Initial, kek |-> k1,
              shape |-> [kind |-> "opaque", login |-> "none", header |-> "", prefix |-> FALSE]]
ConfigRow == [table |-> "configs", id |-> 2, user |-> alice, name |-> n1, secret |-> Initial, kek |-> k1, idKek |-> k1]
AliceKey == [id |-> 1, user |-> alice, name |-> n1, scopes |-> {"readwrite"}, enabled |-> TRUE]

Calm == [up |-> {p1}, conf |-> [p \in TwoReplicas |-> Good], launch |-> {}, recorded |-> Version,
         rows |-> {}, keys |-> {}, trail |-> {}, asks |-> <<>>, budget |-> <<>>]

\* Two replicas start at once on an empty database, beside failures of every kind.
Boot == [Calm EXCEPT !.up = {}, !.launch = {Good, Open}, !.recorded = {},
           !.budget = [launch |-> 3, crash |-> 1, fault |-> 1, outage |-> 1]]

\* Configurations run() refuses, on a database that lacks the second migration.
Upgrade == [Calm EXCEPT !.up = {}, !.recorded = {1}, !.budget = [launch |-> 2],
              !.launch = {Good, [Good EXCEPT !.dsn = FALSE], [Good EXCEPT !.active = k2],
                          [Good EXCEPT !.active = NoKek], [Good EXCEPT !.https = FALSE]}]

\* Callers of every kind at a replica whose identity provider may be away.
Gate == [Calm EXCEPT !.up = {}, !.launch = {Good, Open}, !.keys = {AliceKey}, !.rows = {OpaqueRow},
           !.budget = [launch |-> 1, outage |-> 1, fault |-> 1],
           !.asks = r1 :> ({p1} \X ({As(b, Asks(o)) : o \in {"me", "remove", "audit"},
                                       b \in {Alice, Token(bob, "cli"), Token(bob, "other"), ByKey(1), ByKey(9),
                                              [type |-> "none"], [Alice EXCEPT !.valid = FALSE],
                                              [Alice EXCEPT !.sub = FALSE]}}
                                     \cup {Asks("config"), [Asks("remove") EXCEPT !.malformed = TRUE],
                                           [Asks("audit") EXCEPT !.malformed = TRUE]}))]

\* Four requests from two addresses, one of them behind a proxy, across a window's end.
Forwarded == [Asks("config") EXCEPT !.peer = proxy, !.hops = <<NoAddr, a1>>]
Direct == [Asks("config") EXCEPT !.peer = a2, !.hops = <<a1>>]
Flood == [Calm EXCEPT !.budget = [tick |-> 3],
            !.asks = r1 :> {<<p1, Forwarded>>} @@ r2 :> {<<p1, Forwarded>>}
                  @@ r3 :> {<<p1, Forwarded>>, <<p1, Direct>>} @@ r4 :> {<<p1, Direct>>}]

\* Access keys that are made, disabled and deleted while they are presented.
Keys == [Calm EXCEPT !.keys = {AliceKey}, !.budget = [fault |-> 1],
           !.asks = r1 :> ({p1} \X {As(ByKey(1), Saves("api_keys", TRUE)), As(ByKey(1), Asks("listKeys")),
                                    As(ByKey(2), Asks("me"))})
                 @@ r2 :> ({p1} \X ({[Asks("setKey") EXCEPT !.id = 1], [Asks("removeKey") EXCEPT !.id = 1],
                                     As(Token(bob, "cli"), [Asks("removeKey") EXCEPT !.id = 1])}
                                    \cup {[Asks("newKey") EXCEPT !.name = n, !.scopes = s] :
                                            n \in TwoNames, s \in {{"read", "blank"}, {"blank"}, {"read", "unknown"}}}))
                 @@ r3 :> ({p1} \X {As(ByKey(1), [Asks("setKey") EXCEPT !.id = 1, !.enabled = TRUE]),
                                    As(ByKey(1), [Asks("newKey") EXCEPT !.name = n2, !.scopes = {"audit"}])})]

\* Edits of one credential and of one app config that overlap, and a reveal between them.
Edits == [Calm EXCEPT !.rows = {OpaqueRow, ConfigRow}, !.budget = [fault |-> 1],
            !.asks = r1 :> ({p1} \X {Saves("api_keys", TRUE), Saves("configs", TRUE),
                                     [Saves("api_keys", TRUE) EXCEPT !.name = n2]})
                  @@ r2 :> ({p1} \X ({[Saves("api_keys", FALSE) EXCEPT !.kind = k, !.header = h, !.login = "given"] :
                                        k \in Kind, h \in BOOLEAN}
                                     \cup {Saves("configs", FALSE), [Saves("configs", TRUE) EXCEPT !.known = FALSE],
                                           [Saves("api_keys", TRUE) EXCEPT !.name = NoName],
                                           [Saves("api_keys", TRUE) EXCEPT !.name = n2]}))
                  @@ r3 :> ({p1} \X {Asks("reveal"), Asks("shape"), [Asks("remove") EXCEPT !.id = 1],
                                     As(Token(bob, "cli"), [Asks("remove") EXCEPT !.id = 1]),
                                     As(Token(bob, "cli"), Asks("reveal"))})]

\* A rolling change of the active key: one replica knows both keys, the other only the old.
Rotation == [Calm EXCEPT !.up = {p1, p2}, !.conf[p2] = Rotated, !.launch = {Rotated},
               !.rows = {OpaqueRow, ConfigRow}, !.budget = [crash |-> 1, launch |-> 1],
               !.asks = r1 :> (TwoReplicas \X {Saves("api_keys", TRUE), Saves("configs", FALSE)})
                     @@ r2 :> (TwoReplicas \X {Asks("reveal"), [Asks("list") EXCEPT !.table = "configs"],
                                               Asks("list")})]

\* Clients with addresses of their own: none of them meets the limiter.
Spread(l) == [l EXCEPT !.asks =
               [r \in DOMAIN @ |-> {<<pq[1], [pq[2] EXCEPT !.peer = CASE r = r1 -> a1
                                                                    [] r = r2 -> a2
                                                                    [] OTHER -> a3]>> : pq \in @[r]}]]

Entry(i, u, d) == [id |-> i, user |-> u, day |-> d]

\* Two replicas sweep while days pass and entries are written.
Retained == [Calm EXCEPT !.up = {p1, p2},
               !.trail = {Entry(2, alice, 0), Entry(3, bob, 0), Entry(4, alice, 1)},
               !.budget = [settle |-> 2, day |-> 2, entry |-> 1, crash |-> 1, fault |-> 1]]

\* The trail is read.
Trail == [Calm EXCEPT !.trail = {Entry(2, alice, 0), Entry(3, bob, 0)}, !.budget = [fault |-> 1],
            !.asks = r1 :> ({p1} \X {Asks("audit"), As(Token(bob, "cli"), Asks("audit"))})]

ServerLoads == [boot |-> Boot, upgrade |-> Upgrade, gate |-> Gate, flood |-> Flood,
                keys |-> Spread(Keys), edits |-> Spread(Edits), rotation |-> Spread(Rotation),
                retained |-> Retained, trail |-> Trail]
=============================================================================

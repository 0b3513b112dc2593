---------------------------- MODULE MCOAuthTokens ----------------------------
(* OAuthTokens on small instances: one cfg per question. *)
EXTENDS OAuthTokens
CONSTANTS r1, r2, cb1, cb2, work, home

TwoCallbacks == {cb1, cb2}
TwoReqs == {r1, r2}
OneAccount == {work}
TwoAccounts == {work, home}

Always == {TRUE}
Sometimes == {TRUE, FALSE}
Hour == {"fresh"}
ConfigRemoval == {"config"}
NoRemovals == {}
TokenRemovals == {"token"}
RowRemovals == {"token", "provider"}
=============================================================================

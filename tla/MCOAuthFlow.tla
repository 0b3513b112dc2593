----------------------------- MODULE MCOAuthFlow -----------------------------
(* OAuthFlow on small instances. *)
EXTENDS OAuthFlow
CONSTANTS f1, f2, d1, d2, e1, s1, s2

OneFlow == {f1}
TwoFlows == {f1, f2}
TwoDeliveries == {d1, d2}
OneEditor == {e1}
OneSaver == {s1}
TwoSavers == {s1, s2}
=============================================================================

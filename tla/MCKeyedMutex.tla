---------------------------- MODULE MCKeyedMutex ----------------------------
(* KeyedMutex on a small instance.  As many objects as callers: each caller *)
(* refers to at most one, and every map entry is one some caller refers to. *)
EXTENDS KeyedMutex
CONSTANTS c1, c2, c3, k1, k2, m1, m2, m3

MCCaller == {c1, c2, c3}
MCKey == {k1, k2}
MCMutex == {m1, m2, m3}
=============================================================================

----------------------------- MODULE MCUserList -----------------------------
(* UserList for TLC: a text that matches some users, one that matches one  *)
(* other, and the empty text, which matches all.                           *)
EXTENDS UserList, TLC

CONSTANTS s1, s2, me, A, B

SomeMatches == (NoText :> {s1, s2, me}) @@ (A :> {s1, me}) @@ (B :> {s2})
=============================================================================

------------------------------ MODULE MCSessions ------------------------------
(***************************************************************************)
(* SessionStore for TLC: sessions are interchangeable.                     *)
(***************************************************************************)
EXTENDS SessionStore, TLC

CONSTANTS s1, s2

SessionSymmetry == Permutations(Session)
=============================================================================

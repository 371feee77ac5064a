----------------------------- MODULE MCIssuance -----------------------------
(* Small instances of Issuance.                                            *)
EXTENDS Issuance, TLC

CONSTANTS w1, w2, s1, s2, q1, q2, q3

\* No definition tells two members of one of these sets apart.
Interchangeable == Permutations(Wallet) \cup Permutations(Session) \cup Permutations(Request)
=============================================================================

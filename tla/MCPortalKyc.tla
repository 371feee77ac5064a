---------------------------- MODULE MCPortalKyc ----------------------------
(* Small instances of PortalKyc.                                           *)
EXTENDS PortalKyc, TLC

CONSTANTS r1, r2, r3, u1, u2, u3, w1, w2, q1, q2, q3

\* No definition tells two members of one of these sets apart (nor two requests, but
\* their permutations cost more than they save).
Interchangeable == Permutations(Wallet) \cup Permutations(RunId) \cup Permutations(Account)
=============================================================================

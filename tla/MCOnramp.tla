------------------------------ MODULE MCOnramp ------------------------------
(* Small instances of Onramp.                                              *)
EXTENDS Onramp, TLC

CONSTANTS r1, r2, r3, q1, q2, q3, k1, k2, u1

\* No definition tells two members of one of these sets apart.
Interchangeable == Permutations(Request) \cup Permutations(RunId) \cup Permutations(Key)
                       \cup Permutations(Account)
=============================================================================

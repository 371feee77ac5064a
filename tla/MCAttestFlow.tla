---------------------------- MODULE MCAttestFlow ----------------------------
(* Two runs of one subject.                                                *)
EXTENDS AttestFlow, TLC

CONSTANTS r1, r2

\* Every disclosure parseDisclosure accepts.
Accepted == SUBSET ChainClaims \ {{}}

Symmetry == Permutations(Run)
=============================================================================

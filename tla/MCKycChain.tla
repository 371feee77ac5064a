----------------------------- MODULE MCKycChain -----------------------------
(***************************************************************************)
(* Small instances of KycChain.                                            *)
(***************************************************************************)
EXTENDS KycChain, TLC

CONSTANTS a1, i1, k1, k2, s1, s2, n1, n2, over18, over21

\* One credential under the first key; the issuer it names may be registered with
\* the second.
OneCredential == {[key |-> k1, issuer |-> i1, index |-> 1, claims |-> {over18}]}

\* No definition tells two nonces, or two subjects, apart.
Interchangeable == Permutations(Nonce) \cup Permutations(Subject)
=============================================================================

-------------------------- MODULE MCPortalAccounts --------------------------
(* Two accounts and two tokens, for sign-ins around failures and resets.    *)
EXTENDS PortalAccounts, TLC

CONSTANTS a1, a2, t1, t2

MCAccountId == {a1, a2}
MCToken == {t1, t2}
Symmetry == Permutations(MCAccountId) \cup Permutations(MCToken)
=============================================================================

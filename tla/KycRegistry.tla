---------------------------- MODULE KycRegistry ----------------------------
(***************************************************************************)
(* The kyc-registry contract: the list of issuers whose BBS+ keys the gate *)
(* trusts.  An issuer id is registered once, with one key, and can be      *)
(* revoked but never rotated, re-registered or restored.                   *)
(***************************************************************************)
EXTENDS SorobanHost, Sequences

CONSTANTS
    IssuerId,           \* 32-byte issuer ids
    Key                 \* uncompressed G2 public keys

VARIABLES
    registryAdmin,      \* DataKey::Admin, or NoAddress before init
    issuers,            \* DataKey::Issuer(id), for the ids registered so far
    issuerIds           \* DataKey::IssuerIds, in registration order

registryVars == <<registryAdmin, issuers, issuerIds>>

Issuer == [pubkey : Key, validUntil : Ledger, revoked : BOOLEAN]

RegistryTypeOK ==
    /\ registryAdmin \in Address \cup {NoAddress}
    /\ DOMAIN issuers \subseteq IssuerId
    /\ \A i \in DOMAIN issuers : issuers[i] \in Issuer
    /\ issuerIds \in Seq(IssuerId)

RegistryInit ==
    /\ registryAdmin = NoAddress
    /\ issuers = [i \in {} |-> [pubkey |-> i, validUntil |-> 0, revoked |-> FALSE]]
    /\ issuerIds = << >>

RegistryRequireAdmin(signers) ==
    /\ registryAdmin # NoAddress
    /\ RequireAuth(registryAdmin, signers)

InitRegistry(admin, signers) ==
    /\ registryAdmin = NoAddress
    /\ RequireAuth(admin, signers)
    /\ registryAdmin' = admin
    /\ issuerIds' = << >>
    /\ UNCHANGED issuers

RegisterIssuer(id, pubkey, validUntil, signers) ==
    /\ RegistryRequireAdmin(signers)
    /\ id \notin DOMAIN issuers
    /\ issuers' = [i \in DOMAIN issuers \cup {id} |->
                     IF i = id THEN [pubkey |-> pubkey, validUntil |-> validUntil,
                                     revoked |-> FALSE]
                               ELSE issuers[i]]
    /\ issuerIds' = Append(issuerIds, id)
    /\ UNCHANGED registryAdmin

RevokeIssuer(id, signers) ==
    /\ RegistryRequireAdmin(signers)
    /\ id \in DOMAIN issuers
    /\ issuers' = [issuers EXCEPT ![id].revoked = TRUE]
    /\ UNCHANGED <<registryAdmin, issuerIds>>

\* active_key(id) answers with a key: the id is registered, not revoked and not
\* past its validity (0 is "no expiry").  is_trusted is this predicate.
IsTrusted(id) ==
    /\ id \in DOMAIN issuers
    /\ ~issuers[id].revoked
    /\ issuers[id].validUntil # 0 => seq <= issuers[id].validUntil

ActiveKey(id) == issuers[id].pubkey
=============================================================================

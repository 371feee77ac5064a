---------------------------- MODULE Predicates ----------------------------
(***************************************************************************)
(* The question a relying party asks: which claims to reveal and which     *)
(* values to expect of them (packages/identity/src/predicates.ts over the  *)
(* frozen schema of schema.ts).  A claim stands for its index: CLAIM_INDEX *)
(* is a bijection, so a set of names is a disclosure set.                  *)
(***************************************************************************)
EXTENDS Integers, FiniteSets

\* CLAIM_SPECS by kind: what credentialAudit() reveals, and the boolean claims.
AuditClaims == {"schemaVersion", "issuerId", "revocationIndex", "issuedAt", "expiresAt",
                "subjectBinding"}
DisclosableClaims == {"over18", "over21", "notSanctioned", "notPep", "jurisdictionOk",
                      "livenessOk"}
ClaimNames == AuditClaims \cup DisclosableClaims

SCHEMA_VERSION == "1"

\* claimPredicate, and over18() .. livenessOk(), each for one name.  Of the label
\* only the allowlists of countryAllowed are kept, all of which allOf names.
ClaimPredicate(name) == [label |-> {}, disclose |-> {name}, expect |-> [n \in {name} |-> TRUE]]

CredentialAudit == [label |-> {}, disclose |-> AuditClaims,
                    expect |-> [n \in {"schemaVersion"} |-> SCHEMA_VERSION]]

\* allOf throws on no predicate and on two that expect different values.
Conflict(ps) ==
    \E p, q \in ps : \E n \in DOMAIN p.expect \cap DOMAIN q.expect : p.expect[n] # q.expect[n]

AllOfDefined(ps) == ps # {} /\ ~Conflict(ps)

AllOf(ps) ==
    [label |-> UNION {p.label : p \in ps},
     disclose |-> UNION {p.disclose : p \in ps},
     expect |-> [n \in UNION {DOMAIN p.expect : p \in ps} |->
                    (CHOOSE p \in ps : n \in DOMAIN p.expect).expect[n]]]

\* gatePredicateFor(names): at least one claim, on top of the audit claims.
GatePredicateFor(names) == AllOf({CredentialAudit} \cup {ClaimPredicate(n) : n \in names})

StandardOnrampPredicate == AllOf({ClaimPredicate("over18"), ClaimPredicate("notSanctioned")})
GateOnrampPredicate == GatePredicateFor({"over18", "notSanctioned"})

\* countryAllowed: schema v1 has no country, so an allowlist that leaves out a
\* country of the issuer's policy is refused rather than answered wrongly.
CountryAllowedDefined(allowed, policy) == allowed # {} /\ policy # {} /\ policy \subseteq allowed
CountryAllowed(allowed) == [ClaimPredicate("jurisdictionOk") EXCEPT !.label = {allowed}]

\* encodeClaims: the message at an index carries the claim's own name.
EncodeClaims(claims) == [n \in ClaimNames |-> [name |-> n, value |-> claims[n]]]

\* decodeDisclosed throws on a message whose name is not its index's.
Decodable(messages) == \A n \in DOMAIN messages : n \in ClaimNames /\ messages[n].name = n
DecodeDisclosed(messages) == [n \in DOMAIN messages |-> messages[n].value]

\* The value policy of verifyDetailed: an expected claim is disclosed and equal.
ExpectationsMet(expect, claims) ==
    \A n \in DOMAIN expect : n \in DOMAIN claims /\ claims[n] = expect[n]
===========================================================================

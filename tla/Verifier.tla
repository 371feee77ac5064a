----------------------------- MODULE Verifier -----------------------------
(***************************************************************************)
(* verifyDetailed and checkPredicate, with the resolver of StatusResolver  *)
(* as the status list callback and a ReplayGuard shared by every           *)
(* verification of the process.  Every check is on: UNSAFE_SKIP is for     *)
(* tools that have no policy.  The stages are the code between its awaits: *)
(* Present runs up to bbs.verifyProof, ProofVerified up to the resolver,   *)
(* StatusReturned from the resolver's answer to the end.  A refusal has no *)
(* effect but to end the verification.                                     *)
(***************************************************************************)
EXTENDS StatusResolver, Predicates

CONSTANTS
    Bindings,       \* the challenges relying parties issue
    Credentials,    \* what has been issued
    Presentations,  \* what holders may present
    Questions,      \* the predicates relying parties ask
    Subjects,       \* the subject commitments they may expect
    Policy,         \* ISSUER_JURISDICTION_POLICY
    IssuanceSkew    \* ISSUANCE_CLOCK_SKEW_SECONDS

\* A credential as issue() makes it: it names the key that signs it and an index of
\* that issuer's list, ends after it begins, and its jurisdiction claim follows the
\* issuer's policy.
IssuedCredential(c) ==
    /\ c.signer \in Issuers
    /\ c.claims.issuerId = c.signer
    /\ c.claims.revocationIndex \in Indexes
    /\ c.claims.schemaVersion = SCHEMA_VERSION
    /\ c.claims.expiresAt \in Nat /\ c.claims.expiresAt > c.claims.issuedAt
    /\ c.claims.jurisdictionOk = (c.country \in Policy)

\* assertValidBinding: five fields, none optional; the expiry is a ledger number (here on the
\* same clock as everything else).
ValidBinding(b) ==
    /\ DOMAIN b = {"nonce", "walletAddress", "contractId", "networkPassphrase", "ledgerExpiry"}
    /\ b.ledgerExpiry \in Nat

\* bindingDigest: every field length-prefixed, so equal digests are equal bindings.
BindingDigest(b) ==
    <<b.nonce, b.walletAddress, b.contractId, b.networkPassphrase, b.ledgerExpiry>>

\* A question that names countries was built from countryAllowed, which is refused
\* for an allowlist that leaves out a country of the policy.
AskedQuestion(q) ==
    \A allowed \in q.label :
        /\ CountryAllowedDefined(allowed, Policy)
        /\ "jurisdictionOk" \in DOMAIN q.expect /\ q.expect["jurisdictionOk"] = TRUE

\* Whatever a holder makes of it, a presentation starts from a credential.
ASSUME VerifierConfig ==
    /\ \A c \in Credentials : IssuedCredential(c)
    /\ \A b \in Bindings : ValidBinding(b)
    /\ \A q \in Questions : AskedQuestion(q)
    /\ \A p \in Presentations : p.cred \in Credentials
    /\ "revocation" \in Purposes

VARIABLES
    ver,        \* the verification each caller runs
    consumed,   \* ReplayGuard.#consumed
    accepts     \* history: how often each binding was accepted

vars == <<resolverVars, ver, consumed, accepts>>

Waiting == [stage |-> "idle"]

\* derive(): the messages of the indexes asked for, bound to one challenge.  A
\* holder may relabel the binding or the version, garble the arrays, or present
\* bytes that are no proof ("tampered" verifies to false, "garbage" throws).
Derive(c, disclosed, b) ==
    [cred |-> c, binding |-> b, madeFor |-> BindingDigest(b), bytes |-> "proof",
     schemaVersion |-> SCHEMA_VERSION, wellFormed |-> TRUE,
     messages |-> [n \in disclosed |-> EncodeClaims(c.claims)[n]]]

Init ==
    /\ ResolverInit
    /\ ver = [v \in Callers |-> Waiting]
    /\ consumed = {}
    /\ accepts = [d \in {BindingDigest(b) : b \in Bindings} |-> 0]

BbsVerifiesAnyHeader(proof, key, b) ==
    /\ proof.bytes = "proof" /\ proof.cred.signer = key
    /\ \A n \in DOMAIN proof.messages : proof.messages[n] = EncodeClaims(proof.cred.claims)[n]

\* bbs.verifyProof over the disclosed messages and the presentation header of
\* the expected binding.
BbsVerifies(proof, key, b) ==
    /\ proof.bytes = "proof" /\ proof.cred.signer = key
    /\ \A n \in DOMAIN proof.messages : proof.messages[n] = EncodeClaims(proof.cred.claims)[n]
    /\ proof.madeFor = BindingDigest(b)

\* VerifyOptions as checkPredicate fills them in: both halves of the predicate,
\* and the caller's subject.  The clock, the ledger, the status list and the
\* replay guard are the process's own.
VerifyOptions(predicate, subject) ==
    [expectedClaims |-> predicate.expect, expectedDisclosedIndexes |-> predicate.disclose,
     expectedSubjectBinding |-> subject, label |-> predicate.label]

\* The checks before ProofVerify: the version label, the expected binding and
\* its expiry, the arrays, the disclosure set asked for, the messages' names.
StructureOk(proof, options, b, now) ==
    /\ proof.schemaVersion = SCHEMA_VERSION
    /\ BindingDigest(proof.binding) = BindingDigest(b)
    /\ now =< b.ledgerExpiry
    /\ proof.wellFormed
    /\ DOMAIN proof.messages = options.expectedDisclosedIndexes
    /\ Decodable(proof.messages)

\* The checks on signed values, each refused when the claim it needs is hidden.
PolicyOk(proof, options, key, now) ==
    LET claims == DecodeDisclosed(proof.messages)
        shown  == DOMAIN claims
    IN /\ "schemaVersion" \in shown => claims.schemaVersion = SCHEMA_VERSION
       /\ "issuerId" \in shown => claims.issuerId = key
       /\ "expiresAt" \in shown /\ now =< claims.expiresAt
       /\ "issuedAt" \in shown => claims.issuedAt =< now + IssuanceSkew
       /\ "subjectBinding" \in shown /\ claims.subjectBinding = options.expectedSubjectBinding
       /\ ExpectationsMet(options.expectedClaims, claims)
       /\ "revocationIndex" \in shown

\* checkPredicate and verifyDetailed up to the first await, with the ledger and
\* the time the caller read.
Present(v, proof, predicate, key, b, subject) ==
    /\ ver[v] = Waiting /\ calls[v] = Idle
    /\ DOMAIN proof.messages = predicate.disclose
    /\ StructureOk(proof, VerifyOptions(predicate, subject), b, clock)
    /\ ver' = [ver EXCEPT ![v] =
          [stage |-> "proving", proof |-> proof, key |-> key, binding |-> b,
           options |-> VerifyOptions(predicate, subject)]]
    /\ UNCHANGED <<resolverVars, consumed, accepts>>

\* ProofVerify returned: refuse, or call the resolver for the disclosed issuer.
ProofVerified(v) ==
    LET r  == ver[v]
        id == IF "issuerId" \in DOMAIN r.proof.messages
              THEN r.proof.messages["issuerId"].value ELSE NoIssuer
    IN /\ r.stage = "proving"
       /\ IF /\ BbsVerifies(r.proof, r.key, r.binding)
             /\ PolicyOk(r.proof, r.options, r.key, clock)
          THEN /\ ver' = [ver EXCEPT ![v].stage = "status"]
               /\ Resolve(v, id, "revocation")
          ELSE /\ ver' = [ver EXCEPT ![v] = Waiting]
               /\ UNCHANGED resolverVars
       /\ UNCHANGED <<consumed, accepts>>

\* ReplayGuard.consume: the test and the addition are one synchronous step.
Consume(b) == BindingDigest(b) \notin consumed

StatusReturnedBurnsFirst(v) ==
    LET r == ver[v]
        ok == /\ calls[v].stage = "done"
              /\ r.proof.messages["revocationIndex"].value \notin calls[v].doc.bits
              /\ Consume(r.binding)
    IN /\ r.stage = "status"
       /\ Taken(v)
       /\ ver' = [ver EXCEPT ![v] = IF ok THEN [@ EXCEPT !.stage = "accepted"] ELSE Waiting]
       /\ consumed' = consumed \cup {BindingDigest(r.binding)}
       /\ accepts' = IF ok THEN [accepts EXCEPT ![BindingDigest(r.binding)] = @ + 1] ELSE accepts

\* The resolver settled: read the bit, then burn the nonce, last of all.
StatusReturned(v) ==
    LET r == ver[v]
        clear == calls[v].stage = "done"
                    /\ r.proof.messages["revocationIndex"].value \notin calls[v].doc.bits
        ok == clear /\ Consume(r.binding)
    IN /\ r.stage = "status"
       /\ Taken(v)
       /\ ver' = [ver EXCEPT ![v] = IF ok THEN [@ EXCEPT !.stage = "accepted"] ELSE Waiting]
       /\ consumed' = IF clear THEN consumed \cup {BindingDigest(r.binding)} ELSE consumed
       /\ accepts' = IF ok THEN [accepts EXCEPT ![BindingDigest(r.binding)] = @ + 1] ELSE accepts

\* The relying party gets its answer.
Accepted(v) ==
    /\ ver[v].stage = "accepted"
    /\ ver' = [ver EXCEPT ![v] = Waiting]
    /\ UNCHANGED <<resolverVars, consumed, accepts>>

\* Only a fetch takes time worth the name: ProofVerify is ~10 ms.
VerifierTick ==
    /\ \A v \in Callers : ver[v].stage \in {"idle", "status"}
    /\ Tick
    /\ UNCHANGED <<ver, consumed, accepts>>

Next ==
    \/ IssuerStep /\ UNCHANGED <<ver, consumed, accepts>>
    \/ Invalidate /\ UNCHANGED <<ver, consumed, accepts>>
    \/ VerifierTick
    \/ \E v \in Callers :
          \/ \E p \in Presentations, q \in Questions, i \in Issuers, b \in Bindings,
             s \in Subjects : Present(v, p, q, i, b, s)
          \/ ProofVerified(v)
          \/ FetchStep(v) /\ UNCHANGED <<ver, consumed, accepts>>
          \/ StatusReturned(v)
          \/ Accepted(v)

Spec == Init /\ [][Next]_vars

---------------------------------------------------------------------------
(* What an acceptance means *)

\* A challenge is answered once, however many verifications of it overlap.
AcceptedOnce == \A d \in DOMAIN accepts : accepts[d] =< 1

\* A nonce is burnt only by an acceptance: a refused, revoked or unverifiable
\* presentation leaves the holder's challenge usable.
BurntByAcceptance == \A d \in consumed : accepts[d] > 0

\* The guard's nonces are exactly the accepted challenges, one acceptance each.
GuardExact == AcceptedOnce /\ BurntByAcceptance

\* An accepted presentation was made for this challenge from a credential the
\* verifying issuer signed for this subject, reveals what was asked and no more,
\* every value asked for is what the issuer signed, and a holder accepted under
\* country allowlists lives in a country of each.
AcceptanceSound ==
    \A v \in Callers : ver[v].stage = "accepted" =>
        LET r == ver[v]
            c == r.proof.cred
            o == r.options
        IN /\ c \in Credentials /\ c.signer = r.key
           /\ r.proof.madeFor = BindingDigest(r.binding)
           /\ c.claims.subjectBinding = o.expectedSubjectBinding
           /\ DOMAIN r.proof.messages = o.expectedDisclosedIndexes
           /\ \A allowed \in o.label : c.country \in allowed
           /\ \A n \in DOMAIN o.expectedClaims : c.claims[n] = o.expectedClaims[n]

\* The ledger and the time are read before the awaits, so an acceptance may
\* outlive the challenge and the credential by one fetch and no longer.
AcceptedInTime ==
    \A v \in Callers : ver[v].stage = "accepted" =>
        /\ clock =< ver[v].binding.ledgerExpiry + FetchBound
        /\ clock =< ver[v].proof.cred.claims.expiresAt + FetchBound

\* What an acceptance says is true, and was true in time.
AcceptanceHolds == AcceptanceSound /\ AcceptedInTime

\* A credential revoked longer ago than the revocation window is refused.
RevocationRespected ==
    \A v \in Callers : ver[v].stage = "accepted" =>
        LET c == ver[v].proof.cred IN
        clock =< revokedAt[c.signer][c.claims.revocationIndex] + Lead + MaxAge + FetchBound
===========================================================================

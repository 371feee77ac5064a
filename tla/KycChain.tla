------------------------------ MODULE KycChain ------------------------------
(***************************************************************************)
(* The two contracts on one ledger, with the holders who derive            *)
(* presentations and anyone who submits them: attest_bbs takes no          *)
(* signature of the subject, so a call may carry any presentation ever     *)
(* derived and any value for the arguments the presentation does not bind. *)
(***************************************************************************)
EXTENDS KycGate, FiniteSets

CONSTANTS
    MaxPresentations,       \* bound on the presentations holders derive
    MaxRevocations,         \* bound on the revocations of one subject
    Validity                \* the valid_until values issuers are registered with

VARIABLE presentations      \* every proof derived so far, submitted or not

\* History, read by the properties only.
VARIABLES
    accepted,               \* the attest_bbs calls the gate accepted
    revocations             \* how often each subject was revoked

historyVars == <<accepted, revocations>>

vars == <<seq, registryVars, gateVars, presentations, historyVars>>

ASSUME BoundAssumption ==
    /\ MaxPresentations \in Nat
    /\ MaxRevocations \in Nat
    /\ Validity \subseteq Ledger

Acceptance == [call : AttestCall, at : Ledger]

TypeOK ==
    /\ seq \in Ledger
    /\ RegistryTypeOK
    /\ GateTypeOK
    /\ presentations \subseteq Presentation
    /\ accepted \subseteq Acceptance
    /\ revocations \in [Subject -> Nat]

Init ==
    /\ seq = 0
    /\ RegistryInit
    /\ GateInit
    /\ presentations = {}
    /\ accepted = {}
    /\ revocations = [s \in Subject |-> 0]

-----------------------------------------------------------------------------
CloseLedger ==
    /\ LedgerCloses
    /\ UNCHANGED <<registryVars, gateVars, presentations, historyVars>>

RegistryStep(signers) ==
    /\ \/ \E a \in Address : InitRegistry(a, signers)
       \/ \E i \in IssuerId, k \in Key, v \in Validity : RegisterIssuer(i, k, v, signers)
       \/ \E i \in IssuerId : RevokeIssuer(i, signers)
    /\ UNCHANGED <<seq, gateVars, presentations, historyVars>>

\* A holder derives a presentation from a credential for a subject, disclosing
\* some of the claims the credential attests and choosing nonce and deadline.
\* One that discloses no claim, or is late already, can grant nothing.
Derive(credential, disclosed, subject, nonce, ledgerExpiry) ==
    /\ Cardinality(presentations) < MaxPresentations
    /\ disclosed \subseteq credential.claims
    /\ disclosed # {}
    /\ ledgerExpiry >= seq
    /\ presentations' = presentations \cup
         {[credential |-> credential, disclosed |-> disclosed, subject |-> subject,
           nonce |-> nonce, ledgerExpiry |-> ledgerExpiry,
           derivedEpoch |-> CurrentEpoch(subject)]}
    /\ UNCHANGED <<seq, registryVars, gateVars, historyVars>>

\* The calls worth making with a proof: the arguments the disclosure or the
\* header pins down, and every value of the ones left to the caller.  Any other
\* issuer, index, nonce or deadline is refused as an InvalidProof.
CallsWith(proof) ==
    {[subject |-> s, issuerId |-> proof.credential.issuer, claims |-> claims,
      expiresAt |-> e, revocationEpoch |-> r,
      revocationIndex |-> proof.credential.index, proof |-> proof,
      nonce |-> proof.nonce, ledgerExpiry |-> proof.ledgerExpiry] :
        s \in Subject, claims \in SUBSET Claim, e \in Ledger, r \in Epoch}

Attest(call) ==
    /\ AttestBbs(call)
    /\ accepted' = accepted \cup {[call |-> call, at |-> seq]}
    /\ UNCHANGED <<seq, registryVars, presentations, revocations>>

RevokeSubject(subject, signers) ==
    /\ revocations[subject] < MaxRevocations
    /\ Revoke(subject, signers)
    /\ revocations' = [revocations EXCEPT ![subject] = @ + 1]
    /\ UNCHANGED <<seq, registryVars, presentations, accepted>>

AdminStep(signers) ==
    /\ \/ \E a \in Address : InitGate(a, signers)
       \/ \E a \in Address : SetAdmin(a, signers)
       \/ Upgrade(signers)
    /\ UNCHANGED <<seq, registryVars, presentations, historyVars>>

Next ==
    \/ CloseLedger
    \/ \E signers \in SUBSET Address :
         \/ RegistryStep(signers)
         \/ AdminStep(signers)
         \/ \E s \in Subject : RevokeSubject(s, signers)
    \/ \E c \in Credential, d \in SUBSET Claim, s \in Subject, n \in Nonce, e \in Ledger :
         Derive(c, d, s, n, e)
    \/ \E p \in presentations : \E call \in CallsWith(p) : Attest(call)

Spec == Init /\ [][Next]_vars

-----------------------------------------------------------------------------
(* Safety.                                                                 *)

\* No presentation is ever accepted twice: while a proof is fresh, the nonce it
\* was spent with is still stored (lib.rs, PROOF_MAX_WINDOW <= NONCE_MIN_TTL).
PresentationSpentOnce ==
    \A a, b \in accepted : a.call.proof = b.call.proof => a = b

\* A record never outlives the nonce tombstone that stops its proof from being
\* replayed (lib.rs, MAX_EXPIRY_HORIZON and the nonce_ttl clamp).
RecordWithinNonce ==
    \A a \in accepted :
        /\ nonceLive[a.call.nonce] >= a.call.expiresAt
        /\ nonceLive[a.call.nonce] >= a.call.ledgerExpiry

\* Every claim a record grants was attested for that very subject by a
\* credential under the key its issuer is registered with, through an accepted
\* call (attest_bbs: disclosure, header binding and registry lookup together).
RecordVouched ==
    \A s \in DOMAIN claimRecords :
        LET rec == claimRecords[s]
        IN  rec.claims # {} =>
              \E a \in accepted :
                /\ a.call.proof \in presentations
                /\ a.call.proof.subject = s
                /\ a.at = rec.issuedAt
                /\ rec.claims \subseteq a.call.proof.credential.claims
                /\ rec.issuerId = a.call.proof.credential.issuer
                /\ rec.revocationIndex = a.call.proof.credential.index
                /\ rec.issuerId \in DOMAIN issuers
                /\ issuers[rec.issuerId].pubkey = a.call.proof.credential.key

\* A record's epoch is the number of times its subject was revoked, up to the
\* saturation of the counter; so what a record grants was accepted after the
\* last revocation (write_tombstone, and the epoch attest_bbs carries over).
EpochCountsRevocations ==
    \A s \in Subject :
        CurrentEpoch(s) = IF revocations[s] < MaxEpoch THEN revocations[s] ELSE MaxEpoch

\* issuer_ids lists every registered issuer exactly once (register_issuer).
IssuerListExact ==
    /\ {issuerIds[k] : k \in DOMAIN issuerIds} = DOMAIN issuers
    /\ \A j, k \in DOMAIN issuerIds : issuerIds[j] = issuerIds[k] => j = k

\* What relying contracts trust: every claim on record was vouched for under a registered
\* key, and the list of issuers names each issuer once.
TrustSound == RecordVouched /\ IssuerListExact

\* A record may be followed by itself, by a revocation's tombstone in a later
\* epoch (the same one once the counter is saturated), or by a grant in the same
\* epoch that ends later or comes after the old one has lapsed.
Follows(old, new) ==
    \/ new = old
    \/ new.revocationEpoch > old.revocationEpoch
    \/ old.revocationEpoch = MaxEpoch /\ new.claims = {}
    \/ /\ new.revocationEpoch = old.revocationEpoch
       /\ \/ new.expiresAt > old.expiresAt
          \/ seq > old.expiresAt /\ old.claims # {}

\* A record is never dropped, its epoch never falls, and within an epoch one
\* that still holds is replaced only by one that expires later (attest_bbs, "A
\* live record (or a tombstone) is only ever replaced by a fresher one").
RecordMovesForward ==
    [][\A s \in DOMAIN claimRecords :
         s \in DOMAIN claimRecords' /\ Follows(claimRecords[s], claimRecords'[s])]_vars

\* The gate implements the ledger of claims it promises to relying contracts.
Granted ==
    [s \in Subject |->
        IF HasRecord(s)
        THEN [claims |-> claimRecords[s].claims, until |-> claimRecords[s].expiresAt,
              generation |-> claimRecords[s].revocationEpoch]
        ELSE [claims |-> {}, until |-> -1, generation |-> 0]]

Promise == INSTANCE ClaimLedger WITH
             now <- seq, grant <- Granted, Horizon <- MAX_EXPIRY_HORIZON

\* Every step of the contracts is a step of ClaimLedger or leaves what it shows
\* unchanged (attest_bbs, revoke and check of lib.rs).
ImplementsClaimLedger == Promise!Spec

-----------------------------------------------------------------------------
(* What the repository says and the code does not meet: README, section 6. *)

\* "a record must never outlive ... the TTL its own entry is bumped to" (lib.rs,
\* MAX_EXPIRY_HORIZON).
RecordWithinEntryTtl ==
    \A s \in DOMAIN claimRecords : claimRecords[s].expiresAt <= recordLive[s]

\* A revocation "advances the subject's epoch, so every proof derived before
\* this call is dead" (lib.rs, revoke).
ProofsDieWithTheirEpoch ==
    \A a \in accepted : a.call.proof.derivedEpoch = a.call.revocationEpoch
=============================================================================

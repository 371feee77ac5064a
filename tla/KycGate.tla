------------------------------ MODULE KycGate ------------------------------
(***************************************************************************)
(* The kyc-gate contract: verifies a BBS+ presentation on chain and caches *)
(* the claims it grants, one record per subject, until a ledger sequence.  *)
(*                                                                         *)
(* A claims bitmap is the set of its bits.  A presentation is abstracted   *)
(* to what it binds: the credential it was derived from, the attributes it *)
(* discloses as true, and the subject, nonce and deadline hashed into its  *)
(* presentation header.                                                    *)
(***************************************************************************)
EXTENDS KycRegistry

CONSTANTS
    Subject,                \* addresses that are attested
    Nonce,                  \* 32-byte presentation nonces
    Claim,                  \* the claim bits, CLAIM_OVER_18 and the others
    Credential,             \* the credentials issuers have signed off chain
    NoIssuer,               \* the all-zero issuer id of a first tombstone
    MaxEpoch,               \* u32::MAX of revocation_epoch, which saturates
    CLAIM_TTL_THRESHOLD, CLAIM_TTL_EXTEND_TO,
    NONCE_MIN_TTL, NONCE_MAX_TTL,
    PROOF_MAX_WINDOW

VARIABLES
    gateAdmin,              \* DataKey::Admin; the registry is set with it
    instanceLive,           \* last ledger of the gate's instance entry
    claimRecords,           \* DataKey::Claims(subject), where there is one
    recordLive,             \* last ledger of each subject's persistent entry
    nonceLive               \* last ledger of each nonce's temporary entry

gateVars == <<gateAdmin, instanceLive, claimRecords, recordLive, nonceLive>>

\* The const assertion of the source, and the order its values stand in.
ASSUME GateConstants ==
    /\ MaxEpoch \in Nat \ {0}
    /\ CLAIM_TTL_THRESHOLD \in Nat
    /\ CLAIM_TTL_EXTEND_TO \in Nat
    /\ NONCE_MIN_TTL \in Nat
    /\ NONCE_MAX_TTL \in Nat
    /\ PROOF_MAX_WINDOW \in Nat
    /\ PROOF_MAX_WINDOW <= NONCE_MIN_TTL
    /\ NONCE_MIN_TTL <= NONCE_MAX_TTL

ASSUME CredentialAssumption ==
    /\ NoIssuer \notin IssuerId
    /\ Credential \subseteq [key : Key, issuer : IssuerId, index : Nat,
                             claims : SUBSET Claim]

MAX_EXPIRY_HORIZON ==
    IF CLAIM_TTL_EXTEND_TO < NONCE_MAX_TTL THEN CLAIM_TTL_EXTEND_TO
                                           ELSE NONCE_MAX_TTL

Epoch == 0..MaxEpoch

ClaimRecord ==
    [claims : SUBSET Claim, expiresAt : Ledger, issuerId : IssuerId \cup {NoIssuer},
     issuedAt : Ledger, revocationEpoch : Epoch, revocationIndex : Nat]

\* What a holder's proof carries.  derivedEpoch is the subject's revocation
\* epoch when the proof was made: no check reads it, the properties do.
Presentation ==
    [credential : Credential, disclosed : SUBSET Claim, subject : Subject,
     nonce : Nonce, ledgerExpiry : Ledger, derivedEpoch : Epoch]

\* The arguments of attest_bbs.
AttestCall ==
    [subject : Subject, issuerId : IssuerId, claims : SUBSET Claim,
     expiresAt : Ledger, revocationEpoch : Epoch, revocationIndex : Nat,
     proof : Presentation, nonce : Nonce, ledgerExpiry : Ledger]

GateTypeOK ==
    /\ gateAdmin \in Address \cup {NoAddress}
    /\ instanceLive \in Nat
    /\ DOMAIN claimRecords \subseteq Subject
    /\ \A s \in DOMAIN claimRecords : claimRecords[s] \in ClaimRecord
    /\ recordLive \in [Subject -> Nat]
    /\ nonceLive \in [Nonce -> Nat \cup {-1}]

GateInit ==
    /\ gateAdmin = NoAddress
    /\ instanceLive = seq + MinPersistentTtl
    /\ claimRecords = [s \in {} |-> {}]
    /\ recordLive = [s \in Subject |-> 0]
    /\ nonceLive = [n \in Nonce |-> -1]

-----------------------------------------------------------------------------
HasRecord(subject) == subject \in DOMAIN claimRecords

\* The epoch attest_bbs compares with: that of the record, 0 without one.
CurrentEpoch(subject) ==
    IF HasRecord(subject) THEN claimRecords[subject].revocationEpoch ELSE 0

BumpInstance ==
    instanceLive' = ExtendTtl(Restored(instanceLive), CLAIM_TTL_THRESHOLD,
                              CLAIM_TTL_EXTEND_TO)

\* persistent().set followed by extend_ttl.  set leaves the TTL of an entry that
\* exists alone; a new one starts with the network's minimum.
StoreRecord(subject, record) ==
    LET entryLive == IF HasRecord(subject) THEN Restored(recordLive[subject])
                                           ELSE seq + MinPersistentTtl
    IN  /\ claimRecords' = [s \in DOMAIN claimRecords \cup {subject} |->
                              IF s = subject THEN record ELSE claimRecords[s]]
        /\ recordLive' = [recordLive EXCEPT ![subject] =
                            ExtendTtl(entryLive, CLAIM_TTL_THRESHOLD,
                                      CLAIM_TTL_EXTEND_TO)]

RequireAdmin(signers) ==
    /\ gateAdmin # NoAddress
    /\ RequireAuth(gateAdmin, signers)

InitGate(admin, signers) ==
    /\ gateAdmin = NoAddress
    /\ RequireAuth(admin, signers)
    /\ gateAdmin' = admin
    /\ BumpInstance
    /\ UNCHANGED <<claimRecords, recordLive, nonceLive>>

-----------------------------------------------------------------------------
(* attest_bbs, one predicate for each group of refusals.                   *)

\* Mutant: a proof's deadline may lie any distance ahead.
WellTimedUnbounded(call) ==
    /\ call.expiresAt >= seq
    /\ call.expiresAt - seq <= MAX_EXPIRY_HORIZON
    /\ seq <= call.ledgerExpiry

\* Expired and ExpiryTooFar, for the record and for the proof.
WellTimed(call) ==
    /\ call.expiresAt >= seq
    /\ call.expiresAt - seq <= MAX_EXPIRY_HORIZON
    /\ seq <= call.ledgerExpiry
    /\ call.ledgerExpiry - seq <= PROOF_MAX_WINDOW

\* Mutant: a nonce counts as gone in its last ledger already.
NonceGoneEarly(nonce) == nonceLive[nonce] <= seq

NonceUnused(nonce) == ~TemporaryHas(nonceLive[nonce])

\* The claim bits backed by a disclosed "=true" attribute at its schema index.
DerivedClaims(proof) == proof.disclosed

\* The issuer id and revocation index are disclosed with the call's values, and
\* no claim is asked for that the disclosure does not back.
DisclosureMatches(call) ==
    /\ call.proof.credential.issuer = call.issuerId
    /\ call.proof.credential.index = call.revocationIndex
    /\ call.claims \subseteq DerivedClaims(call.proof)

\* What the header the contract derives from its own arguments binds.
PresentationHeader(subject, nonce, ledgerExpiry) ==
    [subject |-> subject, nonce |-> nonce, ledgerExpiry |-> ledgerExpiry]

\* Mutant: a proof under any key is taken.
VerifyUnderAnyKey(pubkey, header, proof) ==
    header = PresentationHeader(proof.subject, proof.nonce, proof.ledgerExpiry)

\* The pairing check, for an unforgeable signature scheme: the proof was derived
\* from a credential signed with this key, over this very header.
VerifyBbsProof(pubkey, header, proof) ==
    /\ proof.credential.key = pubkey
    /\ header = PresentationHeader(proof.subject, proof.nonce, proof.ledgerExpiry)

EpochCurrent(call) == call.revocationEpoch = CurrentEpoch(call.subject)

\* Mutant: a record counts as lapsed in its last ledger already.
FresherTooEarly(call) ==
    HasRecord(call.subject) =>
        LET prev == claimRecords[call.subject]
        IN  (seq < prev.expiresAt \/ prev.claims = {}) =>
                call.expiresAt > prev.expiresAt

\* A live record, or a tombstone, is only ever replaced by a fresher one.
Fresher(call) ==
    HasRecord(call.subject) =>
        LET prev == claimRecords[call.subject]
        IN  (seq <= prev.expiresAt \/ prev.claims = {}) =>
                call.expiresAt > prev.expiresAt

NonceTtl(expiresAt) ==
    LET lower == IF expiresAt - seq < NONCE_MIN_TTL THEN NONCE_MIN_TTL
                                                    ELSE expiresAt - seq
    IN  IF lower > NONCE_MAX_TTL THEN NONCE_MAX_TTL ELSE lower

AttestBbs(call) ==
    /\ call.claims # {}
    /\ WellTimed(call)
    /\ NonceUnused(call.nonce)
    /\ gateAdmin # NoAddress
    /\ IsTrusted(call.issuerId)
    /\ DisclosureMatches(call)
    /\ VerifyBbsProof(ActiveKey(call.issuerId),
                      PresentationHeader(call.subject, call.nonce, call.ledgerExpiry),
                      call.proof)
    /\ EpochCurrent(call)
    /\ Fresher(call)
    /\ nonceLive' = [nonceLive EXCEPT ![call.nonce] = seq + NonceTtl(call.expiresAt)]
    /\ StoreRecord(call.subject,
                   [claims |-> call.claims, expiresAt |-> call.expiresAt,
                    issuerId |-> call.issuerId, issuedAt |-> seq,
                    revocationEpoch |-> CurrentEpoch(call.subject),
                    revocationIndex |-> call.revocationIndex])
    /\ BumpInstance
    /\ UNCHANGED gateAdmin

-----------------------------------------------------------------------------
\* Mutant: the epoch is kept.
TombstoneSameEpoch(subject) ==
    LET prev == claimRecords[subject]
    IN  [claims |-> {}, expiresAt |-> seq, issuedAt |-> seq,
         revocationEpoch |-> CurrentEpoch(subject),
         issuerId |-> IF HasRecord(subject) THEN prev.issuerId ELSE NoIssuer,
         revocationIndex |-> IF HasRecord(subject) THEN prev.revocationIndex ELSE 0]

\* Mutant: the record is ended but keeps its claims.
TombstoneKeepsClaims(subject) ==
    LET prev == claimRecords[subject]
    IN  [claims |-> IF HasRecord(subject) THEN prev.claims ELSE {},
         expiresAt |-> seq, issuedAt |-> seq,
         revocationEpoch |-> IF CurrentEpoch(subject) < MaxEpoch
                             THEN CurrentEpoch(subject) + 1 ELSE MaxEpoch,
         issuerId |-> IF HasRecord(subject) THEN prev.issuerId ELSE NoIssuer,
         revocationIndex |-> IF HasRecord(subject) THEN prev.revocationIndex ELSE 0]

\* The record a revocation leaves: no claims, the next epoch (saturating), the
\* issuer and audit index of the record before it.
Tombstone(subject) ==
    LET prev == claimRecords[subject]
        next == IF CurrentEpoch(subject) < MaxEpoch THEN CurrentEpoch(subject) + 1
                                                    ELSE MaxEpoch
    IN  [claims |-> {}, expiresAt |-> seq, issuedAt |-> seq,
         revocationEpoch |-> next,
         issuerId |-> IF HasRecord(subject) THEN prev.issuerId ELSE NoIssuer,
         revocationIndex |-> IF HasRecord(subject) THEN prev.revocationIndex ELSE 0]

Revoke(subject, signers) ==
    /\ RequireAdmin(signers)
    /\ StoreRecord(subject, Tombstone(subject))
    /\ BumpInstance
    /\ UNCHANGED <<gateAdmin, nonceLive>>

SetAdmin(newAdmin, signers) ==
    /\ RequireAdmin(signers)
    /\ RequireAuth(newAdmin, signers)
    /\ gateAdmin' = newAdmin
    /\ BumpInstance
    /\ UNCHANGED <<claimRecords, recordLive, nonceLive>>

\* The new code keeps the storage; what it does with it is another program.
Upgrade(signers) ==
    /\ RequireAdmin(signers)
    /\ BumpInstance
    /\ UNCHANGED <<gateAdmin, claimRecords, recordLive, nonceLive>>

\* check(subject, claim_bit), for a mask of any number of bits.
Check(subject, bits) ==
    /\ bits # {}
    /\ HasRecord(subject)
    /\ seq <= claimRecords[subject].expiresAt
    /\ bits \subseteq claimRecords[subject].claims
=============================================================================

--------------------------- MODULE KycChainProofs ---------------------------
(***************************************************************************)
(* Proofs about the two contracts, for every set of subjects, nonces,      *)
(* issuers and credentials and every choice of the lifetimes that meets    *)
(* GateConstants: a presentation is spent once, and the gate keeps what it *)
(* promises relying contracts (epochs count revocations, a record only     *)
(* moves forward, every claim on record was vouched for, the contracts     *)
(* implement ClaimLedger).                                                 *)
(***************************************************************************)
EXTENDS KycChain, TLAPS

\* An accepted call carries the arguments its proof binds (attest_bbs, the
\* presentation header is derived from the call).
AcceptedBound ==
    \A a \in accepted :
        /\ a.call.subject = a.call.proof.subject
        /\ a.call.nonce = a.call.proof.nonce
        /\ a.call.ledgerExpiry = a.call.proof.ledgerExpiry

\* The inductive invariant behind single use.
SpendInv ==
    /\ TypeOK
    /\ AcceptedBound
    /\ RecordWithinNonce
    /\ PresentationSpentOnce

-----------------------------------------------------------------------------
(* Facts about the host's and the gate's operators.                        *)

\* extend_ttl and the restore of an archived entry yield a ledger sequence.
LEMMA TtlType ==
    ASSUME NEW t \in Nat, NEW threshold \in Nat, NEW extendTo \in Nat, seq \in Ledger
    PROVE  /\ Restored(t) \in Nat
           /\ ExtendTtl(t, threshold, extendTo) \in Nat
BY HostAssumption DEF Restored, ExtendTtl, Ledger

\* bump_instance leaves the instance entry a last ledger.
LEMMA BumpType ==
    ASSUME seq \in Ledger, instanceLive \in Nat, BumpInstance
    PROVE  instanceLive' \in Nat
<1>1. Restored(instanceLive) \in Nat
  BY TtlType, GateConstants
<1>2. ExtendTtl(Restored(instanceLive), CLAIM_TTL_THRESHOLD, CLAIM_TTL_EXTEND_TO) \in Nat
  BY <1>1, TtlType, GateConstants
<1>3. QED
  BY <1>2 DEF BumpInstance

\* The horizon is one of the two lifetimes it is the smaller of.
LEMMA HorizonType ==
    /\ MAX_EXPIRY_HORIZON \in Nat
    /\ MAX_EXPIRY_HORIZON <= NONCE_MAX_TTL
    /\ MAX_EXPIRY_HORIZON <= CLAIM_TTL_EXTEND_TO
BY GateConstants DEF MAX_EXPIRY_HORIZON

\* The tombstone of a nonce lives through the record's expiry and through the
\* whole freshness window of the proof (nonce_ttl in attest_bbs).
LEMMA NonceTtlCovers ==
    ASSUME seq \in Ledger, NEW call \in AttestCall, WellTimed(call)
    PROVE  /\ NonceTtl(call.expiresAt) \in Nat
           /\ seq + NonceTtl(call.expiresAt) >= call.expiresAt
           /\ seq + NonceTtl(call.expiresAt) >= call.ledgerExpiry
<1>1. /\ call.expiresAt \in Int /\ call.ledgerExpiry \in Int
      /\ seq \in Int
  BY HostAssumption DEF AttestCall, Ledger
<1>2. QED
  BY <1>1, GateConstants, HorizonType DEF WellTimed, NonceTtl

\* The epoch of a subject is an epoch.
LEMMA CurrentEpochType ==
    ASSUME GateTypeOK, NEW s \in Subject
    PROVE  CurrentEpoch(s) \in Epoch
BY GateConstants DEF GateTypeOK, CurrentEpoch, HasRecord, ClaimRecord, Epoch

\* Every call CallsWith offers is well typed.
LEMMA CallsTyped ==
    ASSUME TypeOK, NEW p \in presentations, NEW call \in CallsWith(p)
    PROVE  call \in AttestCall /\ call.proof \in presentations
<1>1. p \in Presentation
  BY DEF TypeOK
<1>2. p.credential \in [key : Key, issuer : IssuerId, index : Nat, claims : SUBSET Claim]
  BY <1>1, CredentialAssumption DEF Presentation
<1>3. QED
  BY <1>1, <1>2 DEF CallsWith, AttestCall, Presentation

\* Storing a typed record keeps the record store typed.
LEMMA StoreTyped ==
    ASSUME seq \in Ledger, GateTypeOK, NEW s \in Subject, NEW r \in ClaimRecord,
           StoreRecord(s, r)
    PROVE  /\ DOMAIN claimRecords' \subseteq Subject
           /\ \A t \in DOMAIN claimRecords' : claimRecords'[t] \in ClaimRecord
           /\ recordLive' \in [Subject -> Nat]
<1>1. seq + MinPersistentTtl \in Nat
  BY HostAssumption DEF Ledger
<1>2. \A t \in Nat : ExtendTtl(t, CLAIM_TTL_THRESHOLD, CLAIM_TTL_EXTEND_TO) \in Nat
  BY TtlType, GateConstants
<1>3. \A t \in Nat : Restored(t) \in Nat
  BY TtlType, GateConstants
<1>4. recordLive' \in [Subject -> Nat]
  BY <1>1, <1>2, <1>3 DEF StoreRecord, GateTypeOK
<1>5. QED
  BY <1>4 DEF StoreRecord, GateTypeOK

\* The record a revocation writes is a record.
LEMMA TombstoneTyped ==
    ASSUME seq \in Ledger, GateTypeOK, NEW s \in Subject
    PROVE  Tombstone(s) \in ClaimRecord
<1>1. CurrentEpoch(s) \in Epoch
  BY CurrentEpochType
<1>2. (IF CurrentEpoch(s) < MaxEpoch THEN CurrentEpoch(s) + 1 ELSE MaxEpoch) \in Epoch
  BY <1>1, GateConstants DEF Epoch
<1>3. HasRecord(s) => claimRecords[s] \in ClaimRecord
  BY DEF GateTypeOK, HasRecord
<1>4. QED
  BY <1>2, <1>3 DEF Tombstone, ClaimRecord

-----------------------------------------------------------------------------
(* Type correctness.                                                       *)

\* Two contracts that are not initialised yet are well typed (DataKey of both).
LEMMA InitType == Init => TypeOK
BY HostAssumption, GateConstants
   DEF Init, TypeOK, RegistryInit, GateInit, RegistryTypeOK, GateTypeOK, Ledger

\* init, register_issuer and revoke_issuer of the registry keep every type.
LEMMA RegistryType ==
    ASSUME TypeOK, NEW signers \in SUBSET Address, RegistryStep(signers)
    PROVE  TypeOK'
<1>1. RegistryTypeOK'
  <2>1. CASE \E a \in Address : InitRegistry(a, signers)
    BY <2>1 DEF TypeOK, RegistryTypeOK, InitRegistry
  <2>2. CASE \E i \in IssuerId, k \in Key, v \in Validity : RegisterIssuer(i, k, v, signers)
    <3>1. PICK i \in IssuerId, k \in Key, v \in Validity : RegisterIssuer(i, k, v, signers)
      BY <2>2
    <3>2. [pubkey |-> k, validUntil |-> v, revoked |-> FALSE] \in Issuer
      BY BoundAssumption DEF Issuer
    <3>3. QED
      BY <3>1, <3>2 DEF TypeOK, RegistryTypeOK, RegisterIssuer
  <2>3. CASE \E i \in IssuerId : RevokeIssuer(i, signers)
    BY <2>3 DEF TypeOK, RegistryTypeOK, RevokeIssuer, Issuer
  <2>4. QED
    BY <2>1, <2>2, <2>3 DEF RegistryStep
<1>2. QED
  BY <1>1 DEF RegistryStep, TypeOK, GateTypeOK, gateVars, historyVars

\* An accepted attest_bbs keeps every type: the record carries over a current
\* epoch and the nonce gets a last ledger.
LEMMA AttestType ==
    ASSUME TypeOK, NEW call \in AttestCall, Attest(call)
    PROVE  TypeOK'
<1>1. GateTypeOK'
  <2>1. [claims |-> call.claims, expiresAt |-> call.expiresAt,
         issuerId |-> call.issuerId, issuedAt |-> seq,
         revocationEpoch |-> CurrentEpoch(call.subject),
         revocationIndex |-> call.revocationIndex] \in ClaimRecord
    BY CurrentEpochType DEF TypeOK, AttestCall, ClaimRecord
  <2>2. call.subject \in Subject /\ call.nonce \in Nonce
    BY DEF AttestCall
  <2>3. instanceLive' \in Nat
    BY BumpType DEF TypeOK, GateTypeOK, Attest, AttestBbs
  <2>4. seq + NonceTtl(call.expiresAt) \in Nat
    BY NonceTtlCovers DEF TypeOK, Ledger, Attest, AttestBbs
  <2>5. nonceLive' \in [Nonce -> Nat \cup {-1}]
    BY <2>2, <2>4 DEF TypeOK, GateTypeOK, Attest, AttestBbs
  <2>6. QED
    BY <2>1, <2>2, <2>3, <2>5, StoreTyped DEF TypeOK, GateTypeOK, Attest, AttestBbs
<1>2. accepted' \subseteq Acceptance
  BY DEF TypeOK, Attest, Acceptance
<1>3. QED
  BY <1>1, <1>2 DEF TypeOK, Attest, RegistryTypeOK, registryVars

\* revoke keeps every type: write_tombstone saturates the epoch.
LEMMA RevokeType ==
    ASSUME TypeOK, NEW s \in Subject, NEW signers \in SUBSET Address,
           RevokeSubject(s, signers)
    PROVE  TypeOK'
<1>1. GateTypeOK'
  <2>1. instanceLive' \in Nat
    BY BumpType DEF TypeOK, GateTypeOK, RevokeSubject, Revoke
  <2>2. QED
    BY <2>1, TombstoneTyped, StoreTyped DEF TypeOK, GateTypeOK, RevokeSubject, Revoke
<1>2. QED
  BY <1>1 DEF TypeOK, RevokeSubject, RegistryTypeOK, registryVars

\* init, set_admin and upgrade of the gate keep every type.
LEMMA AdminType ==
    ASSUME TypeOK, NEW signers \in SUBSET Address, AdminStep(signers)
    PROVE  TypeOK'
<1>1. BumpInstance => instanceLive' \in Nat
  BY BumpType DEF TypeOK, GateTypeOK
<1>2. GateTypeOK'
  BY <1>1 DEF AdminStep, InitGate, SetAdmin, Upgrade, TypeOK, GateTypeOK
<1>3. QED
  BY <1>2 DEF AdminStep, TypeOK, RegistryTypeOK, registryVars, historyVars

\* A presentation a holder derives is well typed (derive of the identity library).
LEMMA DeriveType ==
    ASSUME TypeOK, NEW c \in Credential, NEW d \in SUBSET Claim, NEW s \in Subject,
           NEW n \in Nonce, NEW e \in Ledger, Derive(c, d, s, n, e)
    PROVE  TypeOK'
<1>1. CurrentEpoch(s) \in Epoch
  BY CurrentEpochType DEF TypeOK
<1>2. presentations' \subseteq Presentation
  BY <1>1 DEF TypeOK, Derive, Presentation
<1>3. QED
  BY <1>2 DEF Derive, TypeOK, RegistryTypeOK, GateTypeOK, registryVars, gateVars, historyVars

\* Every step of the contracts, the ledger and the holders keeps every type.
LEMMA StepType == TypeOK /\ [Next]_vars => TypeOK'
<1> SUFFICES ASSUME TypeOK, [Next]_vars PROVE TypeOK'
  OBVIOUS
<1>1. CASE CloseLedger
  BY <1>1, HostAssumption
     DEF CloseLedger, LedgerCloses, TypeOK, RegistryTypeOK, GateTypeOK, registryVars,
         gateVars, historyVars, Ledger
<1>2. CASE \E signers \in SUBSET Address : RegistryStep(signers)
  BY <1>2, RegistryType
<1>3. CASE \E signers \in SUBSET Address : AdminStep(signers)
  BY <1>3, AdminType
<1>4. CASE \E signers \in SUBSET Address : \E s \in Subject : RevokeSubject(s, signers)
  BY <1>4, RevokeType
<1>5. CASE \E c \in Credential, d \in SUBSET Claim, s \in Subject, n \in Nonce,
              e \in Ledger : Derive(c, d, s, n, e)
  BY <1>5, DeriveType
<1>6. CASE \E p \in presentations : \E call \in CallsWith(p) : Attest(call)
  BY <1>6, AttestType, CallsTyped
<1>7. CASE UNCHANGED vars
  BY <1>7 DEF vars, TypeOK, RegistryTypeOK, GateTypeOK, registryVars, gateVars, historyVars
<1>8. QED
  BY <1>1, <1>2, <1>3, <1>4, <1>5, <1>6, <1>7 DEF Next

\* Every reachable state of the two contracts is well typed; in particular the
\* revocation epoch stays within its width (write_tombstone saturates it).
THEOREM TypeCorrect == Spec => []TypeOK
BY InitType, StepType, PTL DEF Spec

-----------------------------------------------------------------------------
(* Single use of a presentation.                                           *)

\* What the acceptance of a call adds to the invariant.
LEMMA AttestSpend ==
    ASSUME SpendInv, NEW call \in AttestCall, Attest(call)
    PROVE  AcceptedBound' /\ RecordWithinNonce' /\ PresentationSpentOnce'
<1> DEFINE new == [call |-> call, at |-> seq]
<1>1. /\ accepted' = accepted \cup {new}
      /\ nonceLive' = [nonceLive EXCEPT ![call.nonce] = seq + NonceTtl(call.expiresAt)]
      /\ WellTimed(call)
      /\ nonceLive[call.nonce] < seq
  <2>1. nonceLive[call.nonce] \in Int /\ seq \in Int
    BY HostAssumption DEF SpendInv, TypeOK, GateTypeOK, AttestCall, Ledger
  <2>2. QED
    BY <2>1 DEF Attest, AttestBbs, NonceUnused, TemporaryHas
<1>2. /\ call.subject = call.proof.subject
      /\ call.nonce = call.proof.nonce
      /\ call.ledgerExpiry = call.proof.ledgerExpiry
  BY DEF Attest, AttestBbs, VerifyBbsProof, PresentationHeader
<1>3. AcceptedBound'
  BY <1>1, <1>2 DEF SpendInv, AcceptedBound
<1>4. /\ seq + NonceTtl(call.expiresAt) \in Int
      /\ seq + NonceTtl(call.expiresAt) >= call.expiresAt
      /\ seq + NonceTtl(call.expiresAt) >= call.ledgerExpiry
      /\ seq + NonceTtl(call.expiresAt) >= seq
  BY <1>1, NonceTtlCovers, HostAssumption DEF SpendInv, TypeOK, Ledger
<1>5. RecordWithinNonce'
  <2> SUFFICES ASSUME NEW a \in accepted'
               PROVE  /\ nonceLive'[a.call.nonce] >= a.call.expiresAt
                      /\ nonceLive'[a.call.nonce] >= a.call.ledgerExpiry
    BY DEF RecordWithinNonce
  <2>1. call.nonce \in Nonce /\ nonceLive \in [Nonce -> Nat \cup {-1}]
    BY DEF AttestCall, SpendInv, TypeOK, GateTypeOK
  <2>2. CASE a = new
    BY <1>1, <1>4, <2>1, <2>2
  <2>3. CASE a \in accepted
    <3>1. /\ nonceLive[a.call.nonce] >= a.call.expiresAt
          /\ nonceLive[a.call.nonce] >= a.call.ledgerExpiry
      BY <2>3 DEF SpendInv, RecordWithinNonce
    <3>2. /\ a.call.nonce \in Nonce
          /\ a.call.expiresAt \in Int
          /\ a.call.ledgerExpiry \in Int
      BY <2>3 DEF SpendInv, TypeOK, Acceptance, AttestCall, Ledger
    <3>3. seq \in Int /\ nonceLive[a.call.nonce] \in Int
      BY <2>1, <3>2, HostAssumption DEF SpendInv, TypeOK, Ledger
    <3>4. nonceLive'[a.call.nonce] = IF a.call.nonce = call.nonce
                                     THEN seq + NonceTtl(call.expiresAt)
                                     ELSE nonceLive[a.call.nonce]
      BY <1>1, <2>1, <3>2
    <3>5. QED
      BY <1>1, <1>4, <3>1, <3>2, <3>3, <3>4
  <2>4. QED
    BY <1>1, <2>2, <2>3
<1>6. \A a \in accepted : a.call.proof # call.proof
  <2> SUFFICES ASSUME NEW a \in accepted, a.call.proof = call.proof PROVE FALSE
    OBVIOUS
  <2>1. a.call.nonce = call.nonce /\ a.call.ledgerExpiry = call.ledgerExpiry
    BY <1>2 DEF SpendInv, AcceptedBound
  <2>2. nonceLive[call.nonce] >= call.ledgerExpiry
    BY <2>1 DEF SpendInv, RecordWithinNonce
  <2>3. /\ seq \in Int /\ call.ledgerExpiry \in Int
        /\ nonceLive[call.nonce] \in Int
    BY HostAssumption DEF SpendInv, TypeOK, GateTypeOK, AttestCall, Ledger
  <2>4. QED
    BY <1>1, <2>2, <2>3 DEF WellTimed
<1>7. PresentationSpentOnce'
  BY <1>1, <1>6 DEF SpendInv, PresentationSpentOnce
<1>8. QED
  BY <1>3, <1>5, <1>7

\* Only attest_bbs adds to accepted or writes a nonce, so AttestSpend is all that a
\* step has to show.
LEMMA StepSpend == SpendInv /\ [Next]_vars => SpendInv'
<1> SUFFICES ASSUME SpendInv, [Next]_vars PROVE SpendInv'
  OBVIOUS
<1>1. TypeOK'
  BY StepType DEF SpendInv
<1>2. CASE \E p \in presentations : \E call \in CallsWith(p) : Attest(call)
  BY <1>1, <1>2, AttestSpend, CallsTyped DEF SpendInv
<1>3. CASE UNCHANGED <<accepted, nonceLive>>
  BY <1>1, <1>3 DEF SpendInv, AcceptedBound, RecordWithinNonce, PresentationSpentOnce
<1>4. \/ \E p \in presentations : \E call \in CallsWith(p) : Attest(call)
      \/ UNCHANGED <<accepted, nonceLive>>
  BY DEF Next, vars, CloseLedger, RegistryStep, AdminStep, InitGate, SetAdmin, Upgrade,
         RevokeSubject, Revoke, Derive, gateVars, historyVars
<1>5. QED
  BY <1>2, <1>3, <1>4

\* The inductive invariant behind the single use of a presentation holds
\* throughout (attest_bbs and the lifetimes of its nonces).
LEMMA SpendInvariant == Spec => []SpendInv
<1>1. Init => SpendInv
  BY InitType DEF Init, SpendInv, AcceptedBound, RecordWithinNonce, PresentationSpentOnce
<1>2. QED
  BY <1>1, StepSpend, PTL DEF Spec

\* No presentation is accepted twice, whatever nonces are chosen and however
\* long the gate runs (attest_bbs and its nonce tombstones).
THEOREM SpentOnce == Spec => []PresentationSpentOnce
BY SpendInvariant, PTL DEF SpendInv

\* A record ends no later than the tombstone of the nonce it was attested with.
THEOREM NonceOutlivesRecord == Spec => []RecordWithinNonce
BY SpendInvariant, PTL DEF SpendInv

-----------------------------------------------------------------------------
(* What the gate promises relying contracts.                               *)

\* The steps that write a record, and the ones that do not.
LEMMA RecordWriters ==
    ASSUME TypeOK, [Next]_vars
    PROVE  \/ UNCHANGED <<seq, claimRecords, revocations>>
           \/ CloseLedger
           \/ \E call \in AttestCall : call.proof \in presentations /\ Attest(call)
           \/ \E s \in Subject, signers \in SUBSET Address : RevokeSubject(s, signers)
<1>1. CASE UNCHANGED vars
  BY <1>1 DEF vars, gateVars, historyVars
<1>2. CASE \E signers \in SUBSET Address : RegistryStep(signers) \/ AdminStep(signers)
  BY <1>2 DEF RegistryStep, AdminStep, InitGate, SetAdmin, Upgrade, gateVars, historyVars
<1>3. CASE \E c \in Credential, d \in SUBSET Claim, s \in Subject, n \in Nonce,
              e \in Ledger : Derive(c, d, s, n, e)
  BY <1>3 DEF Derive, gateVars, historyVars
<1>4. CASE \E p \in presentations : \E call \in CallsWith(p) : Attest(call)
  BY <1>4, CallsTyped
<1>5. QED
  BY <1>1, <1>2, <1>3, <1>4 DEF Next

\* What a stored record changes: its own subject's slot, and nothing else.
LEMMA StoreEffect ==
    ASSUME NEW s, NEW r, StoreRecord(s, r)
    PROVE  /\ DOMAIN claimRecords' = DOMAIN claimRecords \cup {s}
           /\ claimRecords'[s] = r
           /\ \A t \in DOMAIN claimRecords : t # s => claimRecords'[t] = claimRecords[t]
BY DEF StoreRecord

-----------------------------------------------------------------------------
(* Epochs count revocations.                                               *)

EpochInv == TypeOK /\ EpochCountsRevocations

\* The number of revocations, cut off where the counter saturates.
Saturated(n) == IF n < MaxEpoch THEN n ELSE MaxEpoch

\* attest_bbs carries the epoch of its subject over, revoke adds one to it, and no
\* other call touches a record.
LEMMA StepEpoch == EpochInv /\ [Next]_vars => EpochInv'
<1> SUFFICES ASSUME EpochInv, [Next]_vars PROVE EpochCountsRevocations'
  BY StepType DEF EpochInv
<1>1. TypeOK /\ \A s \in Subject : CurrentEpoch(s) = Saturated(revocations[s])
  BY DEF EpochInv, EpochCountsRevocations, Saturated
<1>2. SUFFICES \A s \in Subject : CurrentEpoch(s)' = Saturated(revocations'[s])
  BY DEF EpochCountsRevocations, Saturated
<1>3. CASE UNCHANGED <<claimRecords, revocations>>
  BY <1>1, <1>3 DEF CurrentEpoch, HasRecord
<1>4. CASE \E call \in AttestCall : Attest(call)
  <2>1. PICK call \in AttestCall : Attest(call)
    BY <1>4
  <2>2. PICK r : StoreRecord(call.subject, r) /\ r.revocationEpoch = CurrentEpoch(call.subject)
    BY <2>1 DEF Attest, AttestBbs
  <2>3. revocations' = revocations
    BY <2>1 DEF Attest
  <2>4. \A s \in Subject : CurrentEpoch(s)' = CurrentEpoch(s)
    <3>1. /\ DOMAIN claimRecords' = DOMAIN claimRecords \cup {call.subject}
          /\ claimRecords'[call.subject].revocationEpoch = CurrentEpoch(call.subject)
          /\ \A t \in DOMAIN claimRecords :
               t # call.subject => claimRecords'[t] = claimRecords[t]
      BY <2>2, StoreEffect
    <3>2. QED
      BY <3>1 DEF CurrentEpoch, HasRecord
  <2>5. QED
    BY <1>1, <2>3, <2>4
<1>5. CASE \E s \in Subject, signers \in SUBSET Address : RevokeSubject(s, signers)
  <2>1. PICK s \in Subject, signers \in SUBSET Address : RevokeSubject(s, signers)
    BY <1>5
  <2>2. StoreRecord(s, Tombstone(s)) /\ revocations' = [revocations EXCEPT ![s] = @ + 1]
    BY <2>1 DEF RevokeSubject, Revoke
  <2>3. revocations \in [Subject -> Nat]
    BY <1>1 DEF TypeOK
  <2>4. CurrentEpoch(s)' = IF CurrentEpoch(s) < MaxEpoch THEN CurrentEpoch(s) + 1 ELSE MaxEpoch
    <3>1. s \in DOMAIN claimRecords' /\ claimRecords'[s] = Tombstone(s)
      BY <2>2, StoreEffect
    <3>2. Tombstone(s).revocationEpoch
            = IF CurrentEpoch(s) < MaxEpoch THEN CurrentEpoch(s) + 1 ELSE MaxEpoch
      BY DEF Tombstone
    <3>3. CurrentEpoch(s)' = claimRecords'[s].revocationEpoch
      BY <3>1 DEF CurrentEpoch, HasRecord
    <3>4. QED
      BY <3>1, <3>2, <3>3
  <2>5. CurrentEpoch(s)' = Saturated(revocations[s] + 1)
    BY <1>1, <2>3, <2>4, GateConstants DEF Saturated
  <2>6. \A t \in Subject : t # s => CurrentEpoch(t)' = CurrentEpoch(t)
    BY <2>2, StoreEffect DEF CurrentEpoch, HasRecord
  <2>7. QED
    BY <1>1, <2>2, <2>3, <2>5, <2>6
<1>6. CASE CloseLedger
  BY <1>1, <1>6 DEF CloseLedger, gateVars, historyVars, CurrentEpoch, HasRecord
<1>7. QED
  BY <1>1, <1>3, <1>4, <1>5, <1>6, RecordWriters

\* The epoch of every subject is the number of its revocations, so a record that
\* grants claims was accepted after the last of them (write_tombstone).
THEOREM EpochsCount == Spec => []EpochCountsRevocations
<1>1. Init => EpochInv
  BY InitType, GateConstants
     DEF Init, GateInit, EpochInv, EpochCountsRevocations, CurrentEpoch, HasRecord
<1>2. EpochInv => EpochCountsRevocations
  BY DEF EpochInv
<1>3. QED
  BY <1>1, <1>2, StepEpoch, PTL DEF Spec
-----------------------------------------------------------------------------
(* What an accepted call and a revocation write.                           *)

\* What attest_bbs leaves in the record of its subject, and that it writes no
\* other one.
LEMMA AttestWrites ==
    ASSUME TypeOK, NEW call \in AttestCall, Attest(call)
    PROVE  /\ DOMAIN claimRecords' = DOMAIN claimRecords \cup {call.subject}
           /\ claimRecords'[call.subject].claims = call.claims
           /\ claimRecords'[call.subject].expiresAt = call.expiresAt
           /\ claimRecords'[call.subject].revocationEpoch = CurrentEpoch(call.subject)
           /\ \A t \in DOMAIN claimRecords :
                t # call.subject => claimRecords'[t] = claimRecords[t]
           /\ seq' = seq
<1>1. PICK r : /\ StoreRecord(call.subject, r)
               /\ r.claims = call.claims
               /\ r.expiresAt = call.expiresAt
               /\ r.revocationEpoch = CurrentEpoch(call.subject)
  BY DEF Attest, AttestBbs
<1>2. QED
  BY <1>1, StoreEffect DEF Attest

\* What revoke leaves in the record of its subject, and that it writes no other
\* one.
LEMMA RevokeWrites ==
    ASSUME NEW s \in Subject, NEW signers, RevokeSubject(s, signers)
    PROVE  /\ DOMAIN claimRecords' = DOMAIN claimRecords \cup {s}
           /\ claimRecords'[s].claims = {}
           /\ claimRecords'[s].expiresAt = seq
           /\ claimRecords'[s].revocationEpoch =
                IF CurrentEpoch(s) < MaxEpoch THEN CurrentEpoch(s) + 1 ELSE MaxEpoch
           /\ \A t \in DOMAIN claimRecords : t # s => claimRecords'[t] = claimRecords[t]
           /\ seq' = seq
<1>1. StoreRecord(s, Tombstone(s)) /\ seq' = seq
  BY DEF RevokeSubject, Revoke
<1>2. /\ Tombstone(s).claims = {}
      /\ Tombstone(s).expiresAt = seq
      /\ Tombstone(s).revocationEpoch =
           IF CurrentEpoch(s) < MaxEpoch THEN CurrentEpoch(s) + 1 ELSE MaxEpoch
  BY DEF Tombstone
<1>3. QED
  BY <1>1, <1>2, StoreEffect

-----------------------------------------------------------------------------
(* Records move forward.                                                   *)

\* No step drops a record or puts back one that ends earlier in the same epoch
\* (the freshness rule of attest_bbs, the tombstone of revoke).
LEMMA StepForward ==
    ASSUME TypeOK, [Next]_vars, NEW s \in DOMAIN claimRecords
    PROVE  s \in DOMAIN claimRecords' /\ Follows(claimRecords[s], claimRecords'[s])
<1>1. CASE UNCHANGED claimRecords
  BY <1>1 DEF Follows
<1>2. CASE \E call \in AttestCall : Attest(call)
  <2>1. PICK call \in AttestCall : Attest(call)
    BY <1>2
  <2>2. CASE s = call.subject
    <3>1. claimRecords[s] \in ClaimRecord /\ seq \in Int
      BY HostAssumption DEF TypeOK, GateTypeOK, Ledger
    <3>2. CurrentEpoch(s) = claimRecords[s].revocationEpoch
      BY DEF CurrentEpoch, HasRecord
    <3>3. \/ call.expiresAt > claimRecords[s].expiresAt
          \/ ~(seq <= claimRecords[s].expiresAt) /\ claimRecords[s].claims # {}
      BY <2>1, <2>2 DEF Attest, AttestBbs, Fresher, HasRecord
    <3>4. claimRecords[s].expiresAt \in Int
      BY <3>1 DEF ClaimRecord, Ledger
    <3>5. /\ s \in DOMAIN claimRecords'
          /\ claimRecords'[s].expiresAt = call.expiresAt
          /\ claimRecords'[s].revocationEpoch = claimRecords[s].revocationEpoch
      BY <2>1, <2>2, <3>2, AttestWrites
    <3>6. QED
      BY <3>1, <3>3, <3>4, <3>5 DEF Follows
  <2>3. CASE s # call.subject
    BY <2>1, <2>3, AttestWrites DEF Follows
  <2>4. QED
    BY <2>2, <2>3
<1>3. CASE \E t \in Subject, signers \in SUBSET Address : RevokeSubject(t, signers)
  <2>1. PICK t \in Subject, signers \in SUBSET Address : RevokeSubject(t, signers)
    BY <1>3
  <2>2. CASE s = t
    <3>1. CurrentEpoch(s) = claimRecords[s].revocationEpoch
      BY DEF CurrentEpoch, HasRecord
    <3>2. claimRecords[s].revocationEpoch \in Int /\ MaxEpoch \in Int
          /\ claimRecords[s].revocationEpoch <= MaxEpoch
      BY GateConstants DEF TypeOK, GateTypeOK, ClaimRecord, Epoch
    <3>3. /\ s \in DOMAIN claimRecords'
          /\ claimRecords'[s].claims = {}
          /\ claimRecords'[s].revocationEpoch =
               IF claimRecords[s].revocationEpoch < MaxEpoch
               THEN claimRecords[s].revocationEpoch + 1 ELSE MaxEpoch
      BY <2>1, <2>2, <3>1, RevokeWrites
    <3>4. QED
      BY <3>2, <3>3 DEF Follows
  <2>3. CASE s # t
    BY <2>1, <2>3, RevokeWrites DEF Follows
  <2>4. QED
    BY <2>2, <2>3
<1>4. QED
  BY <1>1, <1>2, <1>3, RecordWriters DEF CloseLedger, gateVars

\* No step drops a record, lowers an epoch or shortens what a record still
\* grants within its epoch (the replacement rule of attest_bbs).
THEOREM RecordsMoveForward == Spec => RecordMovesForward
<1>1. TypeOK /\ [Next]_vars
        => [\A s \in DOMAIN claimRecords :
              s \in DOMAIN claimRecords' /\ Follows(claimRecords[s], claimRecords'[s])]_vars
  BY StepForward
<1>2. QED
  BY <1>1, TypeCorrect, PTL DEF Spec, RecordMovesForward
-----------------------------------------------------------------------------
(* The contracts implement ClaimLedger.                                    *)

\* Without a write to the records, what the ledger of claims shows stands.
LEMMA GrantedStands == UNCHANGED claimRecords => UNCHANGED Granted
BY DEF Granted, HasRecord

\* A write to one subject's record changes that subject's grant only.
LEMMA GrantedWrite ==
    ASSUME NEW s \in Subject,
           DOMAIN claimRecords' = DOMAIN claimRecords \cup {s},
           \A t \in DOMAIN claimRecords : t # s => claimRecords'[t] = claimRecords[t]
    PROVE  Granted' = [Granted EXCEPT ![s] =
                         [claims |-> claimRecords'[s].claims,
                          until |-> claimRecords'[s].expiresAt,
                          generation |-> claimRecords'[s].revocationEpoch]]
BY DEF Granted, HasRecord

\* Seen through the grants, an accepted attest_bbs gives its claims and is not
\* blocked by the grant before it.
LEMMA AttestGives ==
    ASSUME TypeOK, NEW call \in AttestCall, Attest(call)
    PROVE  Promise!Give(call.subject, call.claims, call.expiresAt)
<1> DEFINE s == call.subject
<1>1. s \in Subject
  BY DEF AttestCall
<1>2. Granted' = [Granted EXCEPT ![s] = [claims |-> call.claims, until |-> call.expiresAt,
                                         generation |-> CurrentEpoch(s)]]
  BY <1>1, AttestWrites, GrantedWrite
<1>3. Granted[s].generation = CurrentEpoch(s)
  BY <1>1 DEF Granted, CurrentEpoch
<1>4. \A g \in {Granted[s]} : g = [claims |-> g.claims, until |-> g.until,
                                  generation |-> g.generation]
  BY <1>1 DEF Granted
<1>5. Granted' = [Granted EXCEPT ![s].claims = call.claims, ![s].until = call.expiresAt]
  BY <1>1, <1>2, <1>3, <1>4 DEF Granted
<1>6. ~Promise!Blocks(Granted[s], call.expiresAt)
  <2>1. CASE HasRecord(s)
    <3>1. /\ Granted[s].claims = claimRecords[s].claims
          /\ Granted[s].until = claimRecords[s].expiresAt
      BY <1>1, <2>1 DEF Granted
    <3>2. (seq <= claimRecords[s].expiresAt \/ claimRecords[s].claims = {})
            => call.expiresAt > claimRecords[s].expiresAt
      BY <2>1 DEF Attest, AttestBbs, Fresher
    <3>3. claimRecords[s].expiresAt \in Int /\ call.expiresAt \in Int
      BY <2>1 DEF TypeOK, GateTypeOK, HasRecord, ClaimRecord, AttestCall, Ledger
    <3>4. QED
      BY <3>1, <3>2, <3>3 DEF Promise!Blocks
  <2>2. CASE ~HasRecord(s)
    <3>1. Granted[s].until = -1
      BY <1>1, <2>2 DEF Granted
    <3>2. call.expiresAt \in Int /\ call.expiresAt >= 0
      BY DEF AttestCall, Ledger
    <3>3. QED
      BY <3>1, <3>2 DEF Promise!Blocks
  <2>3. QED
    BY <2>1, <2>2
<1>7. QED
  BY <1>5, <1>6, AttestWrites DEF Promise!Give, Attest, AttestBbs, WellTimed

\* Seen through the grants, revoke withdraws and starts the next generation.
LEMMA RevokeWithdraws ==
    ASSUME TypeOK, NEW s \in Subject, NEW signers \in SUBSET Address,
           RevokeSubject(s, signers)
    PROVE  Promise!Withdraw(s)
<1>1. Granted[s].generation = CurrentEpoch(s)
  BY DEF Granted, CurrentEpoch
<1>2. Granted' = [Granted EXCEPT ![s] =
         [claims |-> {}, until |-> seq,
          generation |-> IF CurrentEpoch(s) < MaxEpoch THEN CurrentEpoch(s) + 1
                                                       ELSE MaxEpoch]]
  BY RevokeWrites, GrantedWrite
<1>3. QED
  BY <1>1, <1>2, RevokeWrites DEF Promise!Withdraw

\* Every step of the contracts is a step of the ledger of claims, or none of it.
LEMMA StepPromise == TypeOK /\ [Next]_vars => [Promise!Next]_<<seq, Granted>>
<1> SUFFICES ASSUME TypeOK, [Next]_vars PROVE [Promise!Next]_<<seq, Granted>>
  OBVIOUS
<1>1. CASE UNCHANGED <<seq, claimRecords>>
  BY <1>1, GrantedStands
<1>2. CASE CloseLedger
  BY <1>2, GrantedStands
     DEF CloseLedger, LedgerCloses, gateVars, Promise!Next, Promise!Tick
<1>3. CASE \E call \in AttestCall : Attest(call)
  <2>1. PICK call \in AttestCall : Attest(call)
    BY <1>3
  <2>2. call.subject \in Subject /\ call.claims \in SUBSET Claim /\ call.expiresAt \in 0..MaxLedger
    BY DEF AttestCall, Ledger
  <2>3. QED
    BY <2>1, <2>2, AttestGives DEF Promise!Next
<1>4. CASE \E s \in Subject, signers \in SUBSET Address : RevokeSubject(s, signers)
  BY <1>4, RevokeWithdraws DEF Promise!Next
<1>5. QED
  BY <1>1, <1>2, <1>3, <1>4, RecordWriters

\* Every behaviour of the two contracts is, seen through check, a behaviour of
\* the ledger of claims relying contracts are promised.
THEOREM GateImplementsClaimLedger == Spec => ImplementsClaimLedger
<1>1. Init => Promise!Init
  BY DEF Init, GateInit, Promise!Init, Promise!Nothing, Granted, HasRecord
<1>2. TypeOK /\ [Next]_vars => [Promise!Next]_(Promise!vars)
  BY StepPromise DEF Promise!vars
<1>3. QED
  BY <1>1, <1>2, TypeCorrect, PTL DEF Spec, ImplementsClaimLedger, Promise!Spec
-----------------------------------------------------------------------------
(* Every claim was vouched for.                                            *)

\* Before init the registry lists nothing, so init resets an empty list.
EmptyBeforeInit == registryAdmin = NoAddress => DOMAIN issuers = {} /\ issuerIds = << >>

\* A holder discloses only what the credential attests.
DisclosedBacked == \A p \in presentations : p.disclosed \subseteq p.credential.claims

TrustInv ==
    TypeOK /\ EmptyBeforeInit /\ DisclosedBacked /\ RecordVouched /\ IssuerListExact

\* An issuer, once registered, stays registered with the key it has (there is no
\* rotation and no re-registration), and the list names it once.
LEMMA RegistryTrust ==
    ASSUME TrustInv, NEW signers \in SUBSET Address, RegistryStep(signers)
    PROVE  /\ EmptyBeforeInit' /\ IssuerListExact'
           /\ \A i \in DOMAIN issuers :
                i \in DOMAIN issuers' /\ issuers'[i].pubkey = issuers[i].pubkey
<1>1. issuerIds \in Seq(IssuerId) /\ \A i \in DOMAIN issuers : issuers[i] \in Issuer
  BY DEF TrustInv, TypeOK, RegistryTypeOK
<1>2. CASE \E a \in Address : InitRegistry(a, signers)
  BY <1>2, HostAssumption
     DEF InitRegistry, TrustInv, EmptyBeforeInit, IssuerListExact
<1>3. CASE \E i \in IssuerId, k \in Key, v \in Validity : RegisterIssuer(i, k, v, signers)
  <2>1. PICK i \in IssuerId, k \in Key, v \in Validity : RegisterIssuer(i, k, v, signers)
    BY <1>3
  <2>2. /\ i \notin DOMAIN issuers /\ registryAdmin' = registryAdmin
        /\ registryAdmin # NoAddress
        /\ DOMAIN issuers' = DOMAIN issuers \cup {i}
        /\ \A j \in DOMAIN issuers : issuers'[j] = issuers[j]
        /\ issuerIds' = Append(issuerIds, i)
    BY <2>1 DEF RegisterIssuer, RegistryRequireAdmin
  <2>3. /\ DOMAIN issuerIds = 1..Len(issuerIds) /\ Len(issuerIds) \in Nat
        /\ DOMAIN issuerIds' = 1..Len(issuerIds) + 1
        /\ \A k2 \in 1..Len(issuerIds) : issuerIds'[k2] = issuerIds[k2]
        /\ issuerIds'[Len(issuerIds) + 1] = i
    BY <1>1, <2>2
  <2>4. \A n \in DOMAIN issuerIds : issuerIds[n] \in DOMAIN issuers
    BY DEF TrustInv, IssuerListExact
  <2>5. \A n \in DOMAIN issuerIds' : n \in DOMAIN issuerIds \/ n = Len(issuerIds) + 1
    BY <2>3
  <2>6. \A m, n \in DOMAIN issuerIds' : issuerIds'[m] = issuerIds'[n] => m = n
    BY <2>2, <2>3, <2>4, <2>5 DEF TrustInv, IssuerListExact
  <2>7. {issuerIds'[n] : n \in DOMAIN issuerIds'} = DOMAIN issuers \cup {i}
    <3>1. \A n \in DOMAIN issuerIds' : issuerIds'[n] \in DOMAIN issuers \cup {i}
      BY <2>3, <2>4, <2>5
    <3>2. ASSUME NEW x \in DOMAIN issuers PROVE \E n \in DOMAIN issuerIds' : issuerIds'[n] = x
      <4>1. PICK n \in DOMAIN issuerIds : issuerIds[n] = x
        BY DEF TrustInv, IssuerListExact
      <4>2. QED
        BY <2>3, <4>1
    <3>3. Len(issuerIds) + 1 \in DOMAIN issuerIds'
      BY <2>3
    <3>4. QED
      BY <2>3, <3>1, <3>2, <3>3
  <2>8. IssuerListExact'
    BY <2>2, <2>6, <2>7 DEF IssuerListExact
  <2>9. QED
    BY <2>2, <2>8 DEF EmptyBeforeInit
<1>4. CASE \E i \in IssuerId : RevokeIssuer(i, signers)
  <2>1. PICK i \in DOMAIN issuers : issuers' = [issuers EXCEPT ![i].revoked = TRUE]
                                    /\ UNCHANGED <<registryAdmin, issuerIds>>
    BY <1>4 DEF RevokeIssuer
  <2>2. /\ DOMAIN issuers' = DOMAIN issuers
        /\ \A j \in DOMAIN issuers : issuers'[j].pubkey = issuers[j].pubkey
    BY <1>1, <2>1 DEF Issuer
  <2>3. QED
    BY <2>1, <2>2 DEF TrustInv, EmptyBeforeInit, IssuerListExact
<1>5. QED
  BY <1>2, <1>3, <1>4 DEF RegistryStep

\* What a record of s says, vouched for by the acceptance a and the issuers known.
Vouches(a, s, rec, known) ==
    /\ a.call.proof.subject = s
    /\ a.at = rec.issuedAt
    /\ rec.claims \subseteq a.call.proof.credential.claims
    /\ rec.issuerId = a.call.proof.credential.issuer
    /\ rec.revocationIndex = a.call.proof.credential.index
    /\ rec.issuerId \in DOMAIN known
    /\ known[rec.issuerId].pubkey = a.call.proof.credential.key

\* The disclosure, the header and the registry lookup of attest_bbs together make
\* the accepted call vouch for the record it writes.
LEMMA AttestVouches ==
    ASSUME DisclosedBacked, NEW call \in AttestCall, call.proof \in presentations,
           Attest(call)
    PROVE  /\ Vouches([call |-> call, at |-> seq], call.subject,
                      claimRecords'[call.subject], issuers)
           /\ accepted' = accepted \cup {[call |-> call, at |-> seq]}
           /\ UNCHANGED <<registryVars, presentations>>
<1>1. claimRecords'[call.subject] =
        [claims |-> call.claims, expiresAt |-> call.expiresAt,
         issuerId |-> call.issuerId, issuedAt |-> seq,
         revocationEpoch |-> CurrentEpoch(call.subject),
         revocationIndex |-> call.revocationIndex]
  BY StoreEffect DEF Attest, AttestBbs
<1>2. /\ call.issuerId \in DOMAIN issuers
      /\ call.proof.credential.key = issuers[call.issuerId].pubkey
      /\ call.proof.credential.issuer = call.issuerId
      /\ call.proof.credential.index = call.revocationIndex
      /\ call.claims \subseteq call.proof.disclosed
      /\ call.subject = call.proof.subject
  BY DEF Attest, AttestBbs, IsTrusted, DisclosureMatches, DerivedClaims, VerifyBbsProof,
         ActiveKey, PresentationHeader
<1>3. call.claims \subseteq call.proof.credential.claims
  BY <1>2 DEF DisclosedBacked
<1>4. QED
  BY <1>1, <1>2, <1>3 DEF Vouches, Attest

\* RecordVouched, said with Vouches.
LEMMA VouchedSaid ==
    RecordVouched <=> \A s \in DOMAIN claimRecords :
        claimRecords[s].claims # {} =>
            \E a \in accepted :
              a.call.proof \in presentations /\ Vouches(a, s, claimRecords[s], issuers)
BY DEF RecordVouched, Vouches

\* Every call keeps the claims on record vouched for and the list exact.
LEMMA StepTrust == TrustInv /\ [Next]_vars => TrustInv'
<1> SUFFICES ASSUME TrustInv, [Next]_vars
             PROVE  EmptyBeforeInit' /\ DisclosedBacked' /\ RecordVouched' /\ IssuerListExact'
  BY StepType DEF TrustInv
<1>1. CASE \E signers \in SUBSET Address : RegistryStep(signers)
  <2>1. PICK signers \in SUBSET Address : RegistryStep(signers)
    BY <1>1
  <2>2. UNCHANGED <<gateVars, presentations, historyVars>>
    BY <2>1 DEF RegistryStep
  <2>3. /\ EmptyBeforeInit' /\ IssuerListExact'
        /\ \A i \in DOMAIN issuers :
             i \in DOMAIN issuers' /\ issuers'[i].pubkey = issuers[i].pubkey
    BY <2>1, RegistryTrust
  <2>4. RecordVouched'
    BY <2>2, <2>3 DEF TrustInv, RecordVouched, gateVars, historyVars
  <2>5. QED
    BY <2>2, <2>3, <2>4 DEF TrustInv, DisclosedBacked
<1>2. CASE \E p \in presentations : \E call \in CallsWith(p) : Attest(call)
  <2>1. PICK call \in AttestCall : Attest(call) /\ call.proof \in presentations
    BY <1>2, CallsTyped DEF TrustInv
  <2>2. /\ Vouches([call |-> call, at |-> seq], call.subject,
                   claimRecords'[call.subject], issuers)
        /\ accepted' = accepted \cup {[call |-> call, at |-> seq]}
        /\ UNCHANGED <<registryVars, presentations>>
    BY <2>1, AttestVouches DEF TrustInv
  <2>3. /\ DOMAIN claimRecords' = DOMAIN claimRecords \cup {call.subject}
        /\ \A t \in DOMAIN claimRecords :
             t # call.subject => claimRecords'[t] = claimRecords[t]
    BY <2>1, AttestWrites DEF TrustInv
  <2>4. RecordVouched'
    <3>1. ASSUME NEW t \in DOMAIN claimRecords', claimRecords'[t].claims # {}
          PROVE  \E a \in accepted' :
                   a.call.proof \in presentations' /\ Vouches(a, t, claimRecords'[t], issuers')
      <4>1. CASE t = call.subject
        <5>1. Vouches([call |-> call, at |-> seq], t, claimRecords'[t], issuers')
          BY <2>2, <4>1 DEF Vouches, registryVars
        <5>2. [call |-> call, at |-> seq].call.proof \in presentations'
          BY <2>1, <2>2
        <5>3. [call |-> call, at |-> seq] \in accepted'
          BY <2>2
        <5>4. QED
          BY <5>1, <5>2, <5>3
      <4>2. CASE t # call.subject
        <5>1. t \in DOMAIN claimRecords /\ claimRecords'[t] = claimRecords[t]
          BY <2>3, <3>1, <4>2
        <5>2. PICK a \in accepted : a.call.proof \in presentations
                                    /\ Vouches(a, t, claimRecords[t], issuers)
          BY <3>1, <5>1, VouchedSaid DEF TrustInv
        <5>3. Vouches(a, t, claimRecords'[t], issuers')
          BY <2>2, <5>1, <5>2 DEF Vouches, registryVars
        <5>4. QED
          BY <2>2, <5>2, <5>3
      <4>3. QED
        BY <4>1, <4>2
    <3>2. QED
      BY <3>1 DEF RecordVouched, Vouches
  <2>5. QED
    BY <2>2, <2>4 DEF TrustInv, EmptyBeforeInit, IssuerListExact, DisclosedBacked, registryVars
<1>3. CASE \E s \in Subject, signers \in SUBSET Address : RevokeSubject(s, signers)
  <2>1. PICK s \in Subject, signers \in SUBSET Address : RevokeSubject(s, signers)
    BY <1>3
  <2>2. UNCHANGED <<registryVars, presentations, accepted>>
    BY <2>1 DEF RevokeSubject
  <2>3. /\ DOMAIN claimRecords' = DOMAIN claimRecords \cup {s}
        /\ claimRecords'[s].claims = {}
        /\ \A t \in DOMAIN claimRecords : t # s => claimRecords'[t] = claimRecords[t]
    BY <2>1, RevokeWrites
  <2>4. RecordVouched'
    BY <2>2, <2>3 DEF TrustInv, RecordVouched, registryVars
  <2>5. QED
    BY <2>2, <2>4 DEF TrustInv, EmptyBeforeInit, IssuerListExact, DisclosedBacked, registryVars
<1>4. CASE \E c \in Credential, d \in SUBSET Claim, s \in Subject, n \in Nonce,
              e \in Ledger : Derive(c, d, s, n, e)
  <2> PICK c \in Credential, d \in SUBSET Claim, s \in Subject, n \in Nonce,
           e \in Ledger : Derive(c, d, s, n, e)
    BY <1>4
  <2> DEFINE new == [credential |-> c, disclosed |-> d, subject |-> s, nonce |-> n,
                     ledgerExpiry |-> e, derivedEpoch |-> CurrentEpoch(s)]
  <2>1. presentations' = presentations \cup {new} /\ new.disclosed \subseteq new.credential.claims
    BY DEF Derive
  <2>2. UNCHANGED <<registryVars, gateVars, historyVars>>
    BY DEF Derive
  <2>3. QED
    BY <2>1, <2>2
       DEF TrustInv, EmptyBeforeInit, IssuerListExact, DisclosedBacked, RecordVouched,
           registryVars, gateVars, historyVars
<1>5. CASE UNCHANGED <<registryVars, claimRecords, presentations, accepted>>
  BY <1>5 DEF TrustInv, EmptyBeforeInit, IssuerListExact, DisclosedBacked, RecordVouched,
              registryVars
<1>6. QED
  BY <1>1, <1>2, <1>3, <1>4, <1>5
     DEF Next, CloseLedger, AdminStep, InitGate, SetAdmin, Upgrade, gateVars, historyVars, vars

\* What relying contracts trust (attest_bbs, register_issuer): every claim a record
\* grants was attested for its subject by a credential under the key its issuer is
\* registered with, and the list of issuers names each registered issuer once.
THEOREM RecordsAreVouchedFor == Spec => []TrustSound
<1>1. Init => TrustInv
  BY InitType
     DEF Init, RegistryInit, GateInit, TrustInv, EmptyBeforeInit, DisclosedBacked, RecordVouched,
         IssuerListExact
<1>2. TrustInv => TrustSound
  BY DEF TrustInv, TrustSound
<1>3. QED
  BY <1>1, <1>2, StepTrust, PTL DEF Spec
=============================================================================

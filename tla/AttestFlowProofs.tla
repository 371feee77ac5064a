-------------------------- MODULE AttestFlowProofs --------------------------
(***************************************************************************)
(* Proofs about the attestation flow: what a run reports is what the chain *)
(* holds, the record is one run's, and a revocation epoch is read and      *)
(* never guessed, for every number of runs, ledgers and revocations and    *)
(* every choice of the margins and lifetimes.                              *)
(***************************************************************************)
EXTENDS AttestFlow, FiniteSetTheorems, TLAPS

\* Nothing of a run has reached the network before sendTransaction.
Unsent == {"start", "proved", "preflighted", "epochRead", "ready", "built", "prepared"}

\* The outcomes that end a run before sendTransaction, and the refusal it may answer.
NothingSent == {"rpcFailed", "scanFailed", "preflightFailed", "epochUnknown", "refused",
                "rejected"}

\* What a run's stage and outcome say of its transaction and of its nonce.
RunAccounted(f, tx, consumed) ==
    /\ f.at # "ended" => f.outcome = "none"
    /\ f.at \in Unsent \/ f.outcome \in NothingSent => tx.status = "none"
    /\ f.outcome = "failed" => tx.status = "failed"
    /\ f.outcome = "landed" => tx.status = "success"
    /\ consumed <=> tx.status = "success"

RunsAccounted == \A r \in Run : RunAccounted(flow[r], txs[r], r \in spent)

\* A record the chain does not have is what NoClaimRecord stands for: epoch 0, no claim.
MissingRecordIsNew == ~record.exists => record.revocationEpoch = 0 /\ record.claims = {}

\* The inductive invariant behind the theorems.
AttestInv == TypeOK /\ RunsAccounted /\ NeverTooFar /\ MissingRecordIsNew /\ RecordOfOneRun

-----------------------------------------------------------------------------
(* The SDK's arithmetic and decoders.                                      *)

\* ledgerExpiryFor and recordExpiresAtFor lead by at least one ledger, and by no more
\* than the contract accepts.
LEMMA ClampedLeads ==
    ASSUME seq \in Nat
    PROVE  /\ LedgerExpiryFor \in Int /\ LedgerExpiryFor - seq <= PROOF_MAX_WINDOW
           /\ RecordExpiresAtFor \in Int /\ RecordExpiresAtFor - seq <= MAX_EXPIRY_HORIZON
BY AttestFlowAssumption DEF LedgerExpiryFor, RecordExpiresAtFor, Least

\* decodeContractErrorCode names a code only when the failure carries exactly one.
LEMMA OnlyCodeDecoded ==
    /\ DecodeContractErrorCode({}) = NoNumber
    /\ DecodeContractErrorCode({NoClaimRecord, RevocationEpochMismatch}) = NoNumber
<1>1. Cardinality({}) = 0
  BY FS_EmptySet
<1>2. /\ IsFiniteSet({NoClaimRecord})
      /\ Cardinality({NoClaimRecord}) = 1
  BY FS_Singleton
<1>3. RevocationEpochMismatch \notin {NoClaimRecord}
  BY DEF RevocationEpochMismatch, NoClaimRecord
<1>4. {NoClaimRecord} \cup {RevocationEpochMismatch} = {NoClaimRecord, RevocationEpochMismatch}
  OBVIOUS
<1>5. Cardinality({NoClaimRecord, RevocationEpochMismatch}) = 2
  BY <1>2, <1>3, <1>4, FS_AddElement
<1>6. QED
  BY <1>1, <1>5 DEF DecodeContractErrorCode

\* readSubjectChainState: any number it returns is the subject's epoch on the chain, a
\* missing record's 0 included; everything else throws.
LEMMA EpochIsRead ==
    ASSUME MissingRecordIsNew, NEW reply \in {RecordReply} \cup Faults,
           ReadSubjectChainState(reply) # NoNumber
    PROVE  ReadSubjectChainState(reply) = record.revocationEpoch
<1>1. CASE reply.kind = "value"
  BY <1>1 DEF ReadSubjectChainState
<1>2. CASE reply.kind # "value"
  <2>1. /\ reply.kind = "error"
        /\ DecodeContractErrorCode(reply.codes) = NoClaimRecord
        /\ ReadSubjectChainState(reply) = 0
    BY <1>2 DEF ReadSubjectChainState
  <2>2. NoClaimRecord # NoNumber
    BY DEF NoClaimRecord, NoNumber
  <2>3. reply \notin Faults
    BY <2>1, <2>2, OnlyCodeDecoded DEF Faults, Garbled, Failure
  <2>4. ~record.exists
    BY <2>1, <2>3 DEF RecordReply, Value
  <2>5. QED
    BY <2>1, <2>4 DEF MissingRecordIsNew
<1>3. QED
  BY <1>1, <1>2

-----------------------------------------------------------------------------
(* One run moves.                                                          *)

\* A step of one run that may hand its transaction to the network, and that leaves what
\* the run has chosen unless nothing was sent yet.
LEMMA RunMoves ==
    ASSUME AttestInv, NEW r \in Run, NEW f \in FlowState, Steps(r, f),
           UNCHANGED <<seq, record, spent, issuer, accountSeq>>,
           NEW tx \in Tx, txs' = [txs EXCEPT ![r] = tx],
           RunAccounted(f, tx, r \in spent),
           f.ledgerExpiry # NoNumber => f.ledgerExpiry - seq <= PROOF_MAX_WINDOW,
           f.expiresAt # NoNumber => f.expiresAt - seq <= MAX_EXPIRY_HORIZON,
           \/ flow[r].at \in Unsent
           \/ /\ f.verdict = flow[r].verdict /\ f.disclose = flow[r].disclose
              /\ f.epoch = flow[r].epoch /\ f.expiresAt = flow[r].expiresAt
    PROVE  AttestInv'
<1> USE DEF AttestInv
<1>1. /\ flow \in [Run -> FlowState]
      /\ flow' = [flow EXCEPT ![r] = f]
  BY DEF TypeOK, Steps
<1>2. /\ flow'[r] = f
      /\ \A s \in Run : s # r => flow'[s] = flow[s]
      /\ flow' \in [Run -> FlowState]
  BY <1>1
<1>3. /\ txs'[r] = tx
      /\ \A s \in Run : s # r => txs'[s] = txs[s]
      /\ txs' \in [Run -> Tx]
  BY DEF TypeOK
<1>4. TypeOK'
  BY <1>2, <1>3 DEF TypeOK
<1>5. RunsAccounted'
  BY <1>2, <1>3 DEF RunsAccounted
<1>6. NeverTooFar'
  BY <1>2 DEF NeverTooFar
<1>7. MissingRecordIsNew'
  BY DEF MissingRecordIsNew
<1>8. RecordOfOneRun'
  <2> SUFFICES ASSUME record.claims # {} PROVE RecordOfOneRun'
    BY DEF RecordOfOneRun
  <2>1. PICK s \in spent : /\ record.claims = flow[s].disclose \cap flow[s].verdict
                           /\ record.revocationEpoch = flow[s].epoch
                           /\ record.expiresAt = flow[s].expiresAt
    BY DEF RecordOfOneRun
  <2>2. s \in Run
    BY DEF TypeOK
  <2>3. flow[s].at \notin Unsent
    BY <2>2 DEF RunsAccounted, RunAccounted
  <2>4. /\ flow'[s].disclose = flow[s].disclose /\ flow'[s].verdict = flow[s].verdict
        /\ flow'[s].epoch = flow[s].epoch /\ flow'[s].expiresAt = flow[s].expiresAt
    BY <1>2, <2>2, <2>3
  <2>5. QED
    BY <2>1, <2>4 DEF RecordOfOneRun
<1>9. QED
  BY <1>4, <1>5, <1>6, <1>7, <1>8

\* A run's step that the chain and the network do not see.
LEMMA RunGoesOn ==
    ASSUME AttestInv, NEW r \in Run, NEW f \in FlowState, Steps(r, f), UNCHANGED chainVars,
           RunAccounted(f, txs[r], r \in spent),
           f.ledgerExpiry # NoNumber => f.ledgerExpiry - seq <= PROOF_MAX_WINDOW,
           f.expiresAt # NoNumber => f.expiresAt - seq <= MAX_EXPIRY_HORIZON,
           \/ flow[r].at \in Unsent
           \/ /\ f.verdict = flow[r].verdict /\ f.disclose = flow[r].disclose
              /\ f.epoch = flow[r].epoch /\ f.expiresAt = flow[r].expiresAt
    PROVE  AttestInv'
<1>1. txs \in [Run -> Tx]
  BY DEF AttestInv, TypeOK
<1>2. /\ txs[r] \in Tx
      /\ txs' = [txs EXCEPT ![r] = txs[r]]
  BY <1>1 DEF chainVars
<1>3. UNCHANGED <<seq, record, spent, issuer, accountSeq>>
  BY DEF chainVars
<1>4. QED
  BY <1>2, <1>3, RunMoves

\* A run that ends before anything of it was sent, whatever ended it.
LEMMA EndsUnsent ==
    ASSUME AttestInv, NEW r \in Run, flow[r].at \in Unsent, NEW outcome \in NothingSent,
           Ends(r, outcome), UNCHANGED chainVars
    PROVE  AttestInv'
<1> DEFINE f == [flow[r] EXCEPT !.at = "ended", !.outcome = outcome]
<1>1. flow[r] \in FlowState
  BY DEF AttestInv, TypeOK
<1>2. f \in FlowState
  BY <1>1 DEF FlowState, NothingSent, Outcomes
<1>3. RunAccounted(f, txs[r], r \in spent)
  BY <1>1 DEF AttestInv, RunsAccounted, RunAccounted, FlowState, NothingSent
<1>4. /\ f.ledgerExpiry = flow[r].ledgerExpiry
      /\ f.expiresAt = flow[r].expiresAt
  BY <1>1 DEF FlowState
<1>5. QED
  BY <1>2, <1>3, <1>4, RunGoesOn DEF Ends, AttestInv, NeverTooFar

-----------------------------------------------------------------------------
(* The steps of a run.                                                     *)

\* Prove: the proof's deadline is the clamped expiry; a failed scan ends the run.
LEMMA ProveKeeps ==
    ASSUME AttestInv, NEW r \in Run, NEW D \in Disclosures, Prove(r, D)
    PROVE  AttestInv'
<1>1. /\ flow[r] \in FlowState
      /\ seq \in Nat
      /\ D \in SUBSET ChainClaims
  BY AttestFlowAssumption DEF AttestInv, TypeOK
<1>2. CASE ControlFound(D)
  <2> DEFINE f == [flow[r] EXCEPT !.at = "proved", !.disclose = D,
                                  !.ledgerExpiry = LedgerExpiryFor]
  <2>1. f \in FlowState
    BY <1>1, ClampedLeads DEF FlowState
  <2>2. RunAccounted(f, txs[r], r \in spent)
    BY <1>1 DEF AttestInv, RunsAccounted, RunAccounted, FlowState, Unsent, Prove, At, NothingSent
  <2>3. f.ledgerExpiry = LedgerExpiryFor /\ f.expiresAt = flow[r].expiresAt
    BY <1>1 DEF FlowState
  <2>4. QED
    BY <1>1, <1>2, <2>1, <2>2, <2>3, ClampedLeads, RunGoesOn
       DEF Prove, At, Unsent, AttestInv, NeverTooFar
<1>3. CASE ~ControlFound(D)
  <2> DEFINE f == [flow[r] EXCEPT !.at = "ended", !.disclose = D, !.outcome = "scanFailed"]
  <2>1. f \in FlowState
    BY <1>1 DEF FlowState, Outcomes
  <2>2. RunAccounted(f, txs[r], r \in spent)
    BY <1>1 DEF AttestInv, RunsAccounted, RunAccounted, FlowState, Unsent, Prove, At, NothingSent
  <2>3. f.ledgerExpiry = flow[r].ledgerExpiry /\ f.expiresAt = flow[r].expiresAt
    BY <1>1 DEF FlowState
  <2>4. QED
    BY <1>3, <2>1, <2>2, <2>3, RunGoesOn DEF Prove, At, Unsent, AttestInv, NeverTooFar
<1>4. QED
  BY <1>2, <1>3

\* assertIssuerActive: only the stage moves, or the run ends.
LEMMA PreflightKeeps ==
    ASSUME AttestInv, NEW r \in Run, NEW reply, Preflight(r, reply)
    PROVE  AttestInv'
<1>1. flow[r] \in FlowState
  BY DEF AttestInv, TypeOK
<1>2. CASE reply = Value
  <2> DEFINE f == [flow[r] EXCEPT !.at = "preflighted"]
  <2>1. f \in FlowState
    BY <1>1 DEF FlowState
  <2>2. RunAccounted(f, txs[r], r \in spent)
    BY <1>1 DEF AttestInv, RunsAccounted, RunAccounted, FlowState, Unsent, Preflight, At,
                NothingSent
  <2>3. f.ledgerExpiry = flow[r].ledgerExpiry /\ f.expiresAt = flow[r].expiresAt
    BY <1>1 DEF FlowState
  <2>4. QED
    BY <1>2, <2>1, <2>2, <2>3, RunGoesOn DEF Preflight, At, Unsent, AttestInv, NeverTooFar
<1>3. CASE reply # Value
  BY <1>3, EndsUnsent DEF Preflight, At, Unsent, NothingSent
<1>4. QED
  BY <1>2, <1>3

\* readSubjectChainState: the run goes on with the subject's epoch, or ends.
LEMMA ReadEpochKeeps ==
    ASSUME AttestInv, NEW r \in Run, NEW reply, ReadEpoch(r, reply)
    PROVE  /\ AttestInv'
           /\ flow'[r].epoch # flow[r].epoch => flow'[r].epoch = record.revocationEpoch
<1>1. /\ flow \in [Run -> FlowState] /\ flow[r] \in FlowState
      /\ record.revocationEpoch \in 0 .. MaxEpoch
  BY DEF AttestInv, TypeOK, ClaimRecord
<1>2. CASE ReadSubjectChainState(reply) # NoNumber
  <2> DEFINE n == ReadSubjectChainState(reply)
             f == [flow[r] EXCEPT !.at = "epochRead", !.epoch = n]
  <2>0. n = record.revocationEpoch
    BY <1>2, EpochIsRead DEF AttestInv, ReadEpoch
  <2>1. f \in FlowState
    BY <1>1, <2>0 DEF FlowState
  <2>2. RunAccounted(f, txs[r], r \in spent)
    BY <1>1 DEF AttestInv, RunsAccounted, RunAccounted, FlowState, Unsent, ReadEpoch, At,
                NothingSent
  <2>3. f.ledgerExpiry = flow[r].ledgerExpiry /\ f.expiresAt = flow[r].expiresAt /\ f.epoch = n
    BY <1>1 DEF FlowState
  <2>4. AttestInv'
    BY <1>2, <2>1, <2>2, <2>3, RunGoesOn DEF ReadEpoch, At, Unsent, AttestInv, NeverTooFar
  <2>5. flow'[r] = f
    BY <1>1, <1>2 DEF ReadEpoch, Steps
  <2>6. QED
    BY <2>0, <2>3, <2>4, <2>5
<1>3. CASE ReadSubjectChainState(reply) = NoNumber
  <2>1. AttestInv'
    BY <1>3, EndsUnsent DEF ReadEpoch, At, Unsent, NothingSent
  <2>2. flow'[r] = [flow[r] EXCEPT !.at = "ended", !.outcome = "epochUnknown"]
    BY <1>1, <1>3 DEF ReadEpoch, Ends, Steps
  <2>3. flow'[r].epoch = flow[r].epoch
    BY <1>1, <2>2 DEF FlowState
  <2>4. QED
    BY <2>1, <2>3
<1>4. QED
  BY <1>2, <1>3

\* The record's expiry is a clamped lead over the ledger it is chosen at.
LEMMA ChooseExpiresAtKeeps ==
    ASSUME AttestInv, NEW r \in Run, ChooseExpiresAt(r)
    PROVE  AttestInv'
<1> DEFINE f == [flow[r] EXCEPT !.at = "ready", !.expiresAt = RecordExpiresAtFor]
<1>1. /\ flow[r] \in FlowState
      /\ seq \in Nat
  BY DEF AttestInv, TypeOK
<1>2. f \in FlowState
  BY <1>1, ClampedLeads DEF FlowState
<1>3. RunAccounted(f, txs[r], r \in spent)
  BY <1>1 DEF AttestInv, RunsAccounted, RunAccounted, FlowState, Unsent, ChooseExpiresAt, At,
              NothingSent
<1>4. f.ledgerExpiry = flow[r].ledgerExpiry /\ f.expiresAt = RecordExpiresAtFor
  BY <1>1 DEF FlowState
<1>5. QED
  BY <1>1, <1>2, <1>3, <1>4, ClampedLeads, RunGoesOn
     DEF ChooseExpiresAt, At, Unsent, AttestInv, NeverTooFar

\* #build fixes the sequence number and the time bound of the transaction.
LEMMA BuildKeeps ==
    ASSUME AttestInv, NEW r \in Run, Build(r)
    PROVE  AttestInv'
<1> DEFINE f == [flow[r] EXCEPT !.at = "built", !.seqNum = accountSeq + 1,
                                !.validTo = seq + TxLife]
<1>1. /\ flow[r] \in FlowState
      /\ seq + TxLife \in Nat /\ accountSeq + 1 \in Nat
  BY AttestFlowAssumption DEF AttestInv, TypeOK
<1>2. f \in FlowState
  BY <1>1 DEF FlowState
<1>3. RunAccounted(f, txs[r], r \in spent)
  BY <1>1 DEF AttestInv, RunsAccounted, RunAccounted, FlowState, Unsent, Build, At,
              NothingSent
<1>4. f.ledgerExpiry = flow[r].ledgerExpiry /\ f.expiresAt = flow[r].expiresAt
  BY <1>1 DEF FlowState
<1>5. QED
  BY <1>2, <1>3, <1>4, RunGoesOn DEF Build, At, Unsent, AttestInv, NeverTooFar

\* The simulation passes, or the run ends as refused.
LEMMA PrepareKeeps ==
    ASSUME AttestInv, NEW r \in Run, Prepare(r)
    PROVE  AttestInv'
<1> DEFINE f == [flow[r] EXCEPT !.at = "prepared"]
<1>1. flow[r] \in FlowState
  BY DEF AttestInv, TypeOK
<1>2. f \in FlowState
  BY <1>1 DEF FlowState
<1>3. RunAccounted(f, txs[r], r \in spent)
  BY <1>1 DEF AttestInv, RunsAccounted, RunAccounted, FlowState, Unsent, Prepare, At,
              NothingSent
<1>4. f.ledgerExpiry = flow[r].ledgerExpiry /\ f.expiresAt = flow[r].expiresAt
  BY <1>1 DEF FlowState
<1>5. CASE Steps(r, f)
  BY <1>2, <1>3, <1>4, <1>5, RunGoesOn DEF Prepare, At, Unsent, AttestInv, NeverTooFar
<1>6. CASE Ends(r, "refused")
  BY <1>6, EndsUnsent DEF Prepare, At, Unsent, NothingSent
<1>7. QED
  BY <1>5, <1>6 DEF Prepare

\* sendTransaction: whatever it answers, only an answer ERROR says that nothing is in
\* the network.
LEMMA SendKeeps ==
    ASSUME AttestInv, NEW r \in Run, Send(r)
    PROVE  AttestInv'
<1> DEFINE polling == [flow[r] EXCEPT !.at = "polling"]
           rejected == [flow[r] EXCEPT !.at = "ended", !.outcome = "rejected"]
           threw == [flow[r] EXCEPT !.at = "ended", !.outcome = "sendThrew"]
           entered == [seqNum |-> flow[r].seqNum, validTo |-> flow[r].validTo,
                       status |-> "pending"]
<1>1. /\ flow[r] \in FlowState /\ flow[r].at = "prepared"
      /\ txs \in [Run -> Tx] /\ txs[r] \in Tx
      /\ RunAccounted(flow[r], txs[r], r \in spent)
  BY DEF AttestInv, TypeOK, RunsAccounted, Send, At
<1>2. /\ polling \in FlowState /\ rejected \in FlowState /\ threw \in FlowState
      /\ polling.at = "polling" /\ rejected.at = "ended" /\ threw.at = "ended"
      /\ polling.outcome = flow[r].outcome
      /\ rejected.outcome = "rejected" /\ threw.outcome = "sendThrew"
  BY <1>1 DEF FlowState, Outcomes
<1>3. \A f \in {polling, rejected, threw} :
         f.ledgerExpiry = flow[r].ledgerExpiry /\ f.expiresAt = flow[r].expiresAt
  BY <1>1 DEF FlowState
<1>4. entered \in Tx /\ entered.status = "pending"
  BY <1>1 DEF FlowState, Tx
<1>5. txs[r].status = "none" /\ flow[r].outcome = "none" /\ r \notin spent
  BY <1>1 DEF RunAccounted, Unsent
<1>6. PICK f \in {polling, rejected, threw}, tx \in {entered, txs[r]} :
         /\ Steps(r, f)
         /\ txs' = [txs EXCEPT ![r] = tx]
         /\ f = rejected => tx = txs[r]
  <2>1. CASE UNCHANGED txs
    <3>1. txs' = [txs EXCEPT ![r] = txs[r]]
      BY <1>1, <2>1
    <3>2. QED
      BY <3>1 DEF Send, Ends
  <2>2. CASE Entered(r)
    <3>1. txs' = [txs EXCEPT ![r] = entered]
      BY <2>2 DEF Entered
    <3>2. entered # txs[r]
      BY <1>4, <1>5
    <3>3. ~UNCHANGED txs
      BY <1>1, <3>1, <3>2
    <3>4. \/ Steps(r, polling)
          \/ Steps(r, threw)
      BY <3>3 DEF Send, Ends
    <3>5. polling # rejected /\ threw # rejected
      BY <1>2
    <3>6. QED
      BY <3>1, <3>4, <3>5
  <2>3. QED
    BY <2>1, <2>2 DEF Send
<1>7. /\ f \in FlowState /\ tx \in Tx
      /\ f.ledgerExpiry = flow[r].ledgerExpiry /\ f.expiresAt = flow[r].expiresAt
  BY <1>1, <1>2, <1>3, <1>4
<1>8. RunAccounted(f, tx, r \in spent)
  <2>1. f.at \in {"polling", "ended"} /\ f.outcome \in {"none", "rejected", "sendThrew"}
    BY <1>2, <1>5
  <2>2. f.at = "ended" \/ f.outcome = "none"
    BY <1>2, <1>5
  <2>3. f.outcome = "rejected" => tx.status = "none"
    BY <1>2, <1>5, <1>6
  <2>4. tx.status \in {"none", "pending"}
    BY <1>4, <1>5
  <2>5. QED
    BY <1>5, <2>1, <2>2, <2>3, <2>4 DEF RunAccounted, Unsent, NothingSent
<1>9. QED
  BY <1>1, <1>6, <1>7, <1>8, RunMoves DEF Send, Unsent, AttestInv, NeverTooFar

\* getTransaction: "landed" and "failed" are what the chain says; another round and
\* giving up claim nothing.
LEMMA PollKeeps ==
    ASSUME AttestInv, NEW r \in Run, Poll(r)
    PROVE  AttestInv'
<1>1. /\ flow[r] \in FlowState /\ flow[r].at = "polling" /\ flow[r].outcome = "none"
      /\ RunAccounted(flow[r], txs[r], r \in spent)
      /\ UNCHANGED chainVars
  BY DEF AttestInv, TypeOK, RunsAccounted, RunAccounted, Poll, At
<1>2. ASSUME NEW f \in FlowState, Steps(r, f), RunAccounted(f, txs[r], r \in spent),
             f.ledgerExpiry = flow[r].ledgerExpiry, f.expiresAt = flow[r].expiresAt,
             f.verdict = flow[r].verdict, f.disclose = flow[r].disclose,
             f.epoch = flow[r].epoch
      PROVE  AttestInv'
  BY <1>1, <1>2, RunGoesOn DEF AttestInv, NeverTooFar
<1>3. ASSUME NEW outcome \in {"landed", "failed", "unconfirmed"}, Ends(r, outcome),
             outcome = "landed" => txs[r].status = "success",
             outcome = "failed" => txs[r].status = "failed"
      PROVE  AttestInv'
  <2> DEFINE f == [flow[r] EXCEPT !.at = "ended", !.outcome = outcome]
  <2>1. f \in FlowState /\ f.at = "ended" /\ f.outcome = outcome
    BY <1>1 DEF FlowState, Outcomes
  <2>2. /\ f.ledgerExpiry = flow[r].ledgerExpiry /\ f.expiresAt = flow[r].expiresAt
        /\ f.verdict = flow[r].verdict /\ f.disclose = flow[r].disclose
        /\ f.epoch = flow[r].epoch
    BY <1>1 DEF FlowState
  <2>3. RunAccounted(f, txs[r], r \in spent)
    BY <1>1, <1>3, <2>1 DEF RunAccounted, Unsent, NothingSent
  <2>4. QED
    BY <1>2, <1>3, <2>1, <2>2, <2>3 DEF Ends
<1>4. CASE flow[r].polls + 1 < PollAttempts /\ Steps(r, [flow[r] EXCEPT !.polls = @ + 1])
  <2> DEFINE f == [flow[r] EXCEPT !.polls = @ + 1]
  <2>1. flow[r].polls + 1 \in 0 .. PollAttempts - 1
    BY <1>1, <1>4, AttestFlowAssumption DEF FlowState
  <2>2. f \in FlowState
    BY <1>1, <2>1 DEF FlowState
  <2>3. /\ f.ledgerExpiry = flow[r].ledgerExpiry /\ f.expiresAt = flow[r].expiresAt
        /\ f.verdict = flow[r].verdict /\ f.disclose = flow[r].disclose
        /\ f.epoch = flow[r].epoch /\ f.at = "polling" /\ f.outcome = "none"
    BY <1>1 DEF FlowState
  <2>4. RunAccounted(f, txs[r], r \in spent)
    BY <1>1, <2>3 DEF RunAccounted, Unsent, NothingSent
  <2>5. QED
    BY <1>2, <1>4, <2>2, <2>3, <2>4
<1>5. QED
  <2>1. CASE Ends(r, "unconfirmed")
    BY <1>3, <2>1
  <2>2. CASE txs[r].status = "success" /\ Ends(r, "landed")
    BY <1>3, <2>2
  <2>3. CASE txs[r].status = "failed" /\ Ends(r, "failed")
    BY <1>3, <2>3
  <2>4. QED
    BY <1>4, <2>1, <2>2, <2>3 DEF Poll

-----------------------------------------------------------------------------
(* The network and the other users of the chain.                           *)

\* A transaction that leaves the queue without effect says nothing to its run yet.
LEMMA TxSettles ==
    ASSUME AttestInv, NEW r \in Run, txs[r].status = "pending",
           NEW outcome \in {"failed", "dead"},
           txs' = [txs EXCEPT ![r] = [txs[r] EXCEPT !.status = outcome]],
           UNCHANGED <<seq, record, spent, issuer, flow>>, accountSeq' \in Nat
    PROVE  AttestInv'
<1> USE DEF AttestInv
<1>1. /\ txs \in [Run -> Tx] /\ txs[r] \in Tx
      /\ RunAccounted(flow[r], txs[r], r \in spent)
  BY DEF TypeOK, RunsAccounted
<1> DEFINE tx == [txs[r] EXCEPT !.status = outcome]
<1>2. tx \in Tx /\ tx.status = outcome
  BY <1>1 DEF Tx
<1>3. /\ txs'[r] = tx
      /\ \A s \in Run : s # r => txs'[s] = txs[s]
      /\ txs' \in [Run -> Tx]
  BY <1>1, <1>2
<1>4. TypeOK'
  BY <1>3 DEF TypeOK
<1>5. RunAccounted(flow[r], tx, r \in spent)
  BY <1>1, <1>2 DEF RunAccounted
<1>6. RunsAccounted'
  BY <1>3, <1>5 DEF RunsAccounted
<1>7. NeverTooFar' /\ MissingRecordIsNew' /\ RecordOfOneRun'
  BY DEF NeverTooFar, MissingRecordIsNew, RecordOfOneRun
<1>8. QED
  BY <1>4, <1>6, <1>7

\* attest_bbs accepts a run's call: the record becomes what this run disclosed, in the
\* epoch it read, and its nonce is spent.
LEMMA AcceptedKeeps ==
    ASSUME AttestInv, NEW r \in Run, Include(r), GateAccepts(r)
    PROVE  AttestInv'
<1> USE DEF AttestInv
<1> DEFINE f == flow[r]
           tx == [txs[r] EXCEPT !.status = "success"]
<1>1. /\ txs \in [Run -> Tx] /\ txs[r] \in Tx /\ f \in FlowState
      /\ record \in ClaimRecord /\ seq \in 1 .. MaxLedger /\ spent \subseteq Run
      /\ accountSeq \in Nat
      /\ RunAccounted(f, txs[r], r \in spent)
  BY DEF TypeOK, RunsAccounted
<1>2. /\ txs[r].status = "pending"
      /\ accountSeq' = accountSeq + 1
      /\ record' = [exists |-> TRUE, claims |-> DeriveGrantedClaims(f),
                    expiresAt |-> f.expiresAt, revocationEpoch |-> record.revocationEpoch]
      /\ spent' = spent \cup {r}
      /\ txs' = [txs EXCEPT ![r].status = "success"]
      /\ UNCHANGED <<seq, issuer, flow>>
  BY DEF Include
<1>3. txs' = [txs EXCEPT ![r] = tx]
  BY <1>2
<1>4. tx \in Tx /\ tx.status = "success"
  BY <1>1 DEF Tx
<1>5. /\ txs'[r] = tx
      /\ \A s \in Run : s # r => txs'[s] = txs[s]
      /\ txs' \in [Run -> Tx]
  BY <1>1, <1>3, <1>4
<1>6. f.expiresAt \in 0 .. MaxLedger + MAX_EXPIRY_HORIZON
  BY <1>1, AttestFlowAssumption DEF GateAccepts, FlowState
<1>7. DeriveGrantedClaims(f) \in SUBSET ChainClaims
  BY <1>1 DEF DeriveGrantedClaims, FlowState
<1>8. record' \in ClaimRecord
  BY <1>1, <1>2, <1>6, <1>7 DEF ClaimRecord
<1>9. TypeOK'
  BY <1>1, <1>2, <1>5, <1>8 DEF TypeOK
<1>10. /\ RunAccounted(f, tx, r \in spent')
       /\ \A s \in Run : s # r => RunAccounted(flow[s], txs[s], s \in spent')
  BY <1>1, <1>2, <1>4 DEF RunsAccounted, RunAccounted
<1>11. RunsAccounted'
  BY <1>2, <1>5, <1>10 DEF RunsAccounted
<1>12. NeverTooFar' /\ MissingRecordIsNew'
  BY <1>2 DEF NeverTooFar, MissingRecordIsNew
<1>13. RecordOfOneRun'
  <2>1. /\ record'.claims = flow'[r].disclose \cap flow'[r].verdict
        /\ record'.revocationEpoch = flow'[r].epoch
        /\ record'.expiresAt = flow'[r].expiresAt
    BY <1>2 DEF GateAccepts, DeriveGrantedClaims
  <2>2. r \in spent'
    BY <1>2
  <2>3. QED
    BY <2>1, <2>2 DEF RecordOfOneRun
<1>14. QED
  BY <1>9, <1>11, <1>12, <1>13

\* A ledger includes a transaction, accepted or refused.
LEMMA IncludeKeeps ==
    ASSUME AttestInv, NEW r \in Run, Include(r)
    PROVE  AttestInv'
<1>1. CASE GateAccepts(r)
  BY <1>1, AcceptedKeeps
<1>2. CASE ~GateAccepts(r)
  <2>1. accountSeq' \in Nat
    BY DEF Include, AttestInv, TypeOK
  <2>2. txs' = [txs EXCEPT ![r] = [txs[r] EXCEPT !.status = "failed"]]
    BY <1>2 DEF Include
  <2>3. QED
    BY <1>2, <2>1, <2>2, TxSettles DEF Include
<1>3. QED
  BY <1>1, <1>2

\* A transaction whose sequence number or time bound is gone.
LEMMA DropKeeps ==
    ASSUME AttestInv, NEW r \in Run, Drop(r)
    PROVE  AttestInv'
<1>1. accountSeq' \in Nat
  BY DEF Drop, AttestInv, TypeOK
<1>2. txs' = [txs EXCEPT ![r] = [txs[r] EXCEPT !.status = "dead"]]
  BY DEF Drop
<1>3. QED
  BY <1>1, <1>2, TxSettles DEF Drop

\* revoke empties the record; no run's claims are on it any more.
LEMMA RevokeKeeps ==
    ASSUME AttestInv, Revoke
    PROVE  AttestInv'
<1> USE DEF AttestInv
<1>1. record \in ClaimRecord /\ seq \in 1 .. MaxLedger
  BY DEF TypeOK
<1>2. /\ record.revocationEpoch + 1 \in 0 .. MaxEpoch
      /\ seq \in 0 .. MaxLedger + MAX_EXPIRY_HORIZON
  BY <1>1, AttestFlowAssumption DEF Revoke, ClaimRecord
<1>3. record' = [exists |-> TRUE, claims |-> {}, expiresAt |-> seq,
                 revocationEpoch |-> record.revocationEpoch + 1]
  BY DEF Revoke
<1>4. record' \in ClaimRecord
  BY <1>2, <1>3 DEF ClaimRecord
<1>5. TypeOK'
  BY <1>4 DEF TypeOK, Revoke
<1>6. RunsAccounted' /\ NeverTooFar'
  BY DEF RunsAccounted, NeverTooFar, Revoke
<1>7. MissingRecordIsNew' /\ RecordOfOneRun'
  BY <1>3 DEF MissingRecordIsNew, RecordOfOneRun
<1>8. QED
  BY <1>5, <1>6, <1>7

\* Ledgers close: what was in reach when it was chosen only comes nearer.
LEMMA CloseLedgerKeeps ==
    ASSUME AttestInv, CloseLedger
    PROVE  AttestInv'
<1> USE DEF AttestInv, CloseLedger
<1>1. seq' = seq + 1 /\ seq' \in 1 .. MaxLedger
  BY AttestFlowAssumption DEF TypeOK
<1>2. TypeOK'
  BY <1>1 DEF TypeOK
<1>3. RunsAccounted' /\ MissingRecordIsNew' /\ RecordOfOneRun'
  BY DEF RunsAccounted, MissingRecordIsNew, RecordOfOneRun
<1>4. \A r \in Run : /\ flow[r].ledgerExpiry \in Int /\ flow[r].expiresAt \in Int
  BY DEF TypeOK, FlowState
<1>5. seq \in Nat
  BY DEF TypeOK
<1>6. NeverTooFar'
  BY <1>1, <1>4, <1>5, AttestFlowAssumption DEF NeverTooFar
<1>7. QED
  BY <1>2, <1>3, <1>6

-----------------------------------------------------------------------------
(* The theorems.                                                           *)

\* Before the first ledger nothing was sent, chosen or written.
LEMMA InitKeeps == Init => AttestInv
<1> SUFFICES ASSUME Init PROVE AttestInv
  OBVIOUS
<1>1. PICK V \in {{"over18"}, ChainClaims} :
         flow = [r \in Run |-> [at |-> "start", verdict |-> V, disclose |-> {},
                                ledgerExpiry |-> NoNumber, epoch |-> NoNumber,
                                expiresAt |-> NoNumber, seqNum |-> 0, validTo |-> 0,
                                polls |-> 0, outcome |-> "none"]]
  BY DEF Init
<1>2. V \in SUBSET ChainClaims
  BY DEF ChainClaims
<1>3. 0 \in 0 .. PollAttempts - 1
  BY AttestFlowAssumption
<1>4. flow \in [Run -> FlowState]
  BY <1>1, <1>2, <1>3 DEF FlowState, Outcomes, NoNumber
<1>5. record \in ClaimRecord
  BY AttestFlowAssumption DEF Init, ClaimRecord
<1>6. txs \in [Run -> Tx]
  BY DEF Init, NoTx, Tx
<1>7. TypeOK
  <2>1. seq = 1 /\ spent = {} /\ issuer = "active" /\ accountSeq = 0
    BY DEF Init
  <2>2. seq \in 1 .. MaxLedger
    BY <2>1, AttestFlowAssumption
  <2>3. QED
    BY <1>4, <1>5, <1>6, <2>1, <2>2 DEF TypeOK
<1>8. RunsAccounted
  BY <1>1 DEF Init, NoTx, RunsAccounted, RunAccounted, Unsent, NothingSent
<1>9. NeverTooFar
  BY <1>1 DEF NeverTooFar
<1>10. MissingRecordIsNew /\ RecordOfOneRun
  BY DEF Init, MissingRecordIsNew, RecordOfOneRun
<1>11. QED
  BY <1>7, <1>8, <1>9, <1>10 DEF AttestInv

\* Every step keeps the invariant, and the only step that changes the epoch of a run is
\* the read of the chain.
LEMMA StepKeeps ==
    ASSUME AttestInv, [Next]_vars
    PROVE  /\ AttestInv'
           /\ \A r \in Run : flow'[r].epoch # flow[r].epoch =>
                                   flow'[r].epoch = record.revocationEpoch
<1>0. /\ flow \in [Run -> FlowState]
      /\ \A r \in Run : flow[r] \in FlowState
  BY DEF AttestInv, TypeOK
<1>1. CASE UNCHANGED vars
  <2>1. AttestInv'
    BY <1>1 DEF vars, chainVars, AttestInv, TypeOK, RunsAccounted, NeverTooFar,
                MissingRecordIsNew, RecordOfOneRun
  <2>2. QED
    BY <1>1, <2>1 DEF vars
<1>2. ASSUME NEW r \in Run, NEW reply, ReadEpoch(r, reply)
      PROVE  /\ AttestInv'
             /\ \A s \in Run : flow'[s].epoch # flow[s].epoch =>
                                     flow'[s].epoch = record.revocationEpoch
  <2>1. \A s \in Run : s # r => flow'[s] = flow[s]
    BY <1>0, <1>2 DEF ReadEpoch, Ends, Steps
  <2>2. QED
    BY <1>2, <2>1, ReadEpochKeeps
<1>3. ASSUME NEW r \in Run, NEW f, Steps(r, f), f.epoch = flow[r].epoch
      PROVE  \A s \in Run : flow'[s].epoch = flow[s].epoch
  BY <1>0, <1>3 DEF Steps
<1>4. ASSUME NEW r \in Run, NEW outcome, Ends(r, outcome)
      PROVE  \A s \in Run : flow'[s].epoch = flow[s].epoch
  <2>1. [flow[r] EXCEPT !.at = "ended", !.outcome = outcome].epoch = flow[r].epoch
    BY <1>0 DEF FlowState
  <2>2. QED
    BY <1>3, <1>4, <2>1 DEF Ends
<1>5. ASSUME NEW r \in Run, NEW D \in Disclosures, Prove(r, D)
      PROVE  \A s \in Run : flow'[s].epoch = flow[s].epoch
  <2>1. /\ [flow[r] EXCEPT !.at = "proved", !.disclose = D,
                           !.ledgerExpiry = LedgerExpiryFor].epoch = flow[r].epoch
        /\ [flow[r] EXCEPT !.at = "ended", !.disclose = D,
                           !.outcome = "scanFailed"].epoch = flow[r].epoch
    BY <1>0 DEF FlowState
  <2>2. QED
    BY <1>3, <1>5, <2>1 DEF Prove
<1>6. ASSUME NEW r \in Run,
             \/ \E reply : Preflight(r, reply)
             \/ ChooseExpiresAt(r) \/ Build(r) \/ Prepare(r)
             \/ Send(r) \/ Poll(r) \/ RpcThrows(r)
      PROVE  \A s \in Run : flow'[s].epoch = flow[s].epoch
  <2>1. /\ [flow[r] EXCEPT !.at = "preflighted"].epoch = flow[r].epoch
        /\ [flow[r] EXCEPT !.at = "ready",
                           !.expiresAt = RecordExpiresAtFor].epoch = flow[r].epoch
        /\ [flow[r] EXCEPT !.at = "built", !.seqNum = accountSeq + 1,
                           !.validTo = seq + TxLife].epoch = flow[r].epoch
        /\ [flow[r] EXCEPT !.at = "prepared"].epoch = flow[r].epoch
        /\ [flow[r] EXCEPT !.at = "polling"].epoch = flow[r].epoch
        /\ [flow[r] EXCEPT !.polls = @ + 1].epoch = flow[r].epoch
    BY <1>0 DEF FlowState
  <2>2. (\E outcome : Ends(r, outcome))
        \/ \E f : Steps(r, f) /\ f.epoch = flow[r].epoch
    BY <1>6, <2>1 DEF Preflight, ChooseExpiresAt, Build, Prepare, Send, Poll, RpcThrows
  <2>3. QED
    BY <1>3, <1>4, <2>2
<1>7. ASSUME NEW r \in Run, RpcThrows(r)
      PROVE  AttestInv'
  BY <1>7, EndsUnsent DEF RpcThrows, Unsent, NothingSent
<1>8. ASSUME NEW state \in {"unknown", "otherKey"}, IssuerChanges(state)
      PROVE  AttestInv'
  BY <1>8 DEF IssuerChanges, AttestInv, TypeOK, RunsAccounted, NeverTooFar,
              MissingRecordIsNew, RecordOfOneRun
<1>9. QED
  <2>1. CASE \E r \in Run : \/ \E D \in Disclosures : Prove(r, D)
                            \/ \E reply : Preflight(r, reply)
                            \/ ChooseExpiresAt(r) \/ Build(r) \/ Prepare(r)
                            \/ Send(r) \/ Poll(r) \/ RpcThrows(r)
    BY <1>5, <1>6, <1>7, <2>1, ProveKeeps, PreflightKeeps, ChooseExpiresAtKeeps,
       BuildKeeps, PrepareKeeps, SendKeeps, PollKeeps
  <2>2. CASE \E r \in Run, reply \in {Value, Failure({NoClaimRecord})} \cup Faults :
                ReadEpoch(r, reply)
    BY <1>2, <2>2
  <2>3. CASE \/ \E r \in Run : Include(r) \/ Drop(r)
             \/ Revoke
             \/ \E state \in {"unknown", "otherKey"} : IssuerChanges(state)
             \/ CloseLedger
    <3>1. AttestInv'
      BY <1>8, <2>3, IncludeKeeps, DropKeeps, RevokeKeeps, CloseLedgerKeeps
    <3>2. UNCHANGED flow
      BY <2>3 DEF Include, Drop, Revoke, IssuerChanges, CloseLedger
    <3>3. QED
      BY <3>1, <3>2
  <2>4. QED
    BY <1>1, <2>1, <2>2, <2>3 DEF Next

\* submit() tells the truth about the chain, however its answers were lost, and the
\* clamped expiries stay within what the contract accepts.
THEOREM ReportsAreTrue == Spec => []ReportsSound
<1>1. AttestInv /\ [Next]_vars => AttestInv'
  BY StepKeeps
<1>2. AttestInv => ReportsSound
  <2> SUFFICES ASSUME AttestInv PROVE OutcomeSound
    BY DEF AttestInv, ReportsSound
  <2>1. SUFFICES ASSUME NEW r \in Run
                 PROVE  /\ flow[r].outcome = "landed" =>
                              r \in spent /\ txs[r].status = "success"
                        /\ flow[r].outcome \in {"rpcFailed", "refused", "rejected", "failed"} =>
                              r \notin spent /\ txs[r].status # "pending"
    BY DEF OutcomeSound
  <2>2. QED
    BY DEF AttestInv, RunsAccounted, RunAccounted, NothingSent
<1>3. QED
  BY InitKeeps, <1>1, <1>2, PTL DEF Spec

\* What is on record is what one run disclosed and its verdict granted, in the epoch
\* this run had read, whatever runs, revocations and ledgers came between.
THEOREM RecordsAreOneRuns == Spec => []RecordOfOneRun
<1>1. AttestInv /\ [Next]_vars => AttestInv'
  BY StepKeeps
<1>2. AttestInv => RecordOfOneRun
  BY DEF AttestInv
<1>3. QED
  BY InitKeeps, <1>1, <1>2, PTL DEF Spec

\* "Refusing to assume revocation_epoch 0": readSubjectChainState returns what the chain
\* holds, or throws.
THEOREM EpochsAreRead == Spec => EpochNeverGuessed
<1>1. AttestInv /\ [Next]_vars => AttestInv'
  BY StepKeeps
<1>2. AttestInv /\ [Next]_vars =>
        [\A r \in Run : flow'[r].epoch # flow[r].epoch =>
                             flow'[r].epoch = record.revocationEpoch]_vars
  BY StepKeeps
<1>3. QED
  BY InitKeeps, <1>1, <1>2, PTL DEF Spec, EpochNeverGuessed
=============================================================================

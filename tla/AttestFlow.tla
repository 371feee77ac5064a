----------------------------- MODULE AttestFlow -----------------------------
(***************************************************************************)
(* From a credential to a record on the chain, as the onboarding pipeline  *)
(* drives the SDK: prove, scan the proof, preflight the issuer, read the   *)
(* subject's revocation epoch, choose the expiries, build, prepare, sign   *)
(* and send the transaction, and poll for it.  Several runs of one subject *)
(* overlap, and all of them pay from the one submitter account.            *)
(*                                                                         *)
(* The contract is reduced to what decides about a call (KycGate has all   *)
(* of it); RPC answers may be lost, ambiguous or garbled; the network may  *)
(* include a transaction any time before its time bound.                   *)
(***************************************************************************)
EXTENDS Integers, FiniteSets

CONSTANTS
    Run,                \* pipeline runs; each draws its own nonce
    Margin,             \* the margin asked of ledgerExpiryFor
    PROOF_MAX_WINDOW,
    RecordLifetime,     \* RECORD_LIFETIME_LEDGERS
    MAX_EXPIRY_HORIZON,
    TxLife,             \* ledgers a transaction stays valid (setTimeout)
    PollAttempts,
    MaxEpoch,           \* bound on revocations
    MaxLedger,          \* bound on ledgers
    Disclosures         \* the disclosures tried, of those parseDisclosure accepts

ChainClaims == {"over18", "over21"}

ASSUME AttestFlowAssumption ==
    /\ Margin \in Nat \ {0}
    /\ RecordLifetime \in Nat \ {0}
    /\ PROOF_MAX_WINDOW \in Nat \ {0}
    /\ MAX_EXPIRY_HORIZON \in Nat \ {0}
    /\ TxLife \in Nat
    /\ PollAttempts \in Nat \ {0}
    /\ MaxEpoch \in Nat
    /\ MaxLedger \in Nat \ {0}
    /\ Disclosures \subseteq SUBSET ChainClaims

VARIABLES
    seq,                \* the ledger
    record,             \* the subject's claim record
    spent,              \* runs whose nonce the gate consumed
    issuer,             \* what active_key answers for the issuer
    accountSeq,         \* sequence number of the submitter account
    txs,                \* the transaction of each run, on the network's side
    flow                \* where each run stands, and its locals

chainVars == <<seq, record, spent, issuer, accountSeq, txs>>
vars == <<chainVars, flow>>

\* KYC_GATE_ERRORS and kyc-registry's IssuerNotFound, by number.
NoClaimRecord == 3
IssuerNotFound == 3
RevocationEpochMismatch == 15

NoNumber == -1

ClaimRecord == [exists : BOOLEAN, claims : SUBSET ChainClaims,
                expiresAt : 0 .. MaxLedger + MAX_EXPIRY_HORIZON, revocationEpoch : 0 .. MaxEpoch]

Tx == [seqNum : Nat, validTo : Nat, status : {"none", "pending", "success", "failed", "dead"}]

Outcomes == {"none", "rpcFailed", "scanFailed", "preflightFailed", "epochUnknown", "refused", "rejected",
             "sendThrew", "landed", "failed", "unconfirmed"}

\* verdict: the claims the provider granted; disclose: those the holder chose.
FlowState ==
    [at : {"start", "proved", "preflighted", "epochRead", "ready", "built", "prepared",
           "polling", "ended"},
     verdict : SUBSET ChainClaims, disclose : SUBSET ChainClaims,
     ledgerExpiry : Int, epoch : {NoNumber} \cup 0 .. MaxEpoch, expiresAt : Int,
     seqNum : Nat, validTo : Nat, polls : 0 .. PollAttempts - 1, outcome : Outcomes]

TypeOK ==
    /\ seq \in 1 .. MaxLedger
    /\ record \in ClaimRecord
    /\ spent \subseteq Run
    /\ issuer \in {"active", "unknown", "otherKey"}
    /\ accountSeq \in Nat
    /\ txs \in [Run -> Tx]
    /\ flow \in [Run -> FlowState]

NoTx == [seqNum |-> 0, validTo |-> 0, status |-> "none"]

Init ==
    /\ seq = 1
    /\ record = [exists |-> FALSE, claims |-> {}, expiresAt |-> 0, revocationEpoch |-> 0]
    /\ spent = {}
    /\ issuer = "active"
    /\ accountSeq = 0
    /\ txs = [r \in Run |-> NoTx]
    /\ \E V \in {{"over18"}, ChainClaims} :
         flow = [r \in Run |-> [at |-> "start", verdict |-> V, disclose |-> {},
                                ledgerExpiry |-> NoNumber, epoch |-> NoNumber,
                                expiresAt |-> NoNumber, seqNum |-> 0, validTo |-> 0,
                                polls |-> 0, outcome |-> "none"]]

-----------------------------------------------------------------------------
(* The SDK's arithmetic and decoders.                                      *)

Least(a, b) == IF a < b THEN a ELSE b

\* ledgerExpiryFor and recordExpiresAtFor clamp a lead over the ledger they read.
LedgerExpiryFor == seq + Least(Margin, PROOF_MAX_WINDOW)
RecordExpiresAtFor == seq + Least(RecordLifetime, MAX_EXPIRY_HORIZON)

\* The claims argument: what is disclosed as "name=true".
DeriveGrantedClaims(f) == f.disclose \cap f.verdict

\* The scan's control value: the proof must contain over18's message.
ControlFound(D) == "over18" \in D

\* Mutant: with two codes in the failure, one of them is taken.
DecodeAnyErrorCode(codes) ==
    IF codes = {} THEN NoNumber ELSE CHOOSE c \in codes : \A d \in codes : c <= d

\* The one contract error code a failure names, or none.
DecodeContractErrorCode(codes) ==
    IF Cardinality(codes) = 1 THEN CHOOSE c \in codes : TRUE ELSE NoNumber

\* A simulated read may fail in transport, with an ambiguous bundle of diagnostics, or
\* succeed with a payload the decoder refuses; otherwise it tells the truth.
Value == [kind |-> "value", codes |-> {}]
Garbled == [kind |-> "garbled", codes |-> {}]
Failure(codes) == [kind |-> "error", codes |-> codes]
Faults == {Garbled, Failure({}), Failure({NoClaimRecord, RevocationEpochMismatch})}

\* readSubjectChainState: the epoch, 0 for NoClaimRecord and nothing else, or a throw.
ReadSubjectChainState(reply) ==
    IF reply.kind = "value" THEN record.revocationEpoch
    ELSE IF reply.kind = "error" /\ DecodeContractErrorCode(reply.codes) = NoClaimRecord
         THEN 0
    ELSE NoNumber

-----------------------------------------------------------------------------
At(r, stage) == flow[r].at = stage
Steps(r, f) == flow' = [flow EXCEPT ![r] = f]
Ends(r, outcome) == Steps(r, [flow[r] EXCEPT !.at = "ended", !.outcome = outcome])

\* Steps 6 and 7: the proof dies at the clamped expiry; the scan follows in the same
\* callback.
Prove(r, D) ==
    /\ At(r, "start")
    /\ IF ControlFound(D)
       THEN Steps(r, [flow[r] EXCEPT !.at = "proved", !.disclose = D,
                                     !.ledgerExpiry = LedgerExpiryFor])
       ELSE Steps(r, [flow[r] EXCEPT !.at = "ended", !.disclose = D,
                                     !.outcome = "scanFailed"])
    /\ UNCHANGED chainVars

IssuerReply ==
    CASE issuer = "active"   -> Value
      [] issuer = "unknown"  -> Failure({IssuerNotFound})
      [] issuer = "otherKey" -> Garbled

\* Step 8, assertIssuerActive: only the issuer's own key lets the run go on.
Preflight(r, reply) ==
    /\ At(r, "proved")
    /\ reply \in {IssuerReply} \cup Faults
    /\ IF reply = Value THEN Steps(r, [flow[r] EXCEPT !.at = "preflighted"])
                        ELSE Ends(r, "preflightFailed")
    /\ UNCHANGED chainVars

RecordReply == IF record.exists THEN Value ELSE Failure({NoClaimRecord})

\* Step 9 up to the epoch.
ReadEpoch(r, reply) ==
    /\ At(r, "preflighted")
    /\ reply \in {RecordReply} \cup Faults
    /\ IF ReadSubjectChainState(reply) = NoNumber THEN Ends(r, "epochUnknown")
       ELSE Steps(r, [flow[r] EXCEPT !.at = "epochRead",
                                     !.epoch = ReadSubjectChainState(reply)])
    /\ UNCHANGED chainVars

\* The record's expiry and the arguments of attest_bbs.
ChooseExpiresAt(r) ==
    /\ At(r, "epochRead")
    /\ Steps(r, [flow[r] EXCEPT !.at = "ready", !.expiresAt = RecordExpiresAtFor])
    /\ UNCHANGED chainVars

\* submit(): #build reads the account's sequence number.
Build(r) ==
    /\ At(r, "ready")
    /\ Steps(r, [flow[r] EXCEPT !.at = "built", !.seqNum = accountSeq + 1,
                                !.validTo = seq + TxLife])
    /\ UNCHANGED chainVars

\* Mutant: the epoch of the call is not compared.
GateAcceptsAnyEpoch(r) ==
    LET f == flow[r]
    IN  /\ DeriveGrantedClaims(f) # {}
        /\ seq <= f.expiresAt /\ f.expiresAt - seq <= MAX_EXPIRY_HORIZON
        /\ seq <= f.ledgerExpiry /\ f.ledgerExpiry - seq <= PROOF_MAX_WINDOW
        /\ r \notin spent
        /\ issuer = "active"

\* What attest_bbs answers now (KycGate!AttestBbs).
GateAccepts(r) ==
    LET f == flow[r]
    IN  /\ DeriveGrantedClaims(f) # {}
        /\ seq <= f.expiresAt /\ f.expiresAt - seq <= MAX_EXPIRY_HORIZON
        /\ seq <= f.ledgerExpiry /\ f.ledgerExpiry - seq <= PROOF_MAX_WINDOW
        /\ r \notin spent
        /\ issuer = "active"
        /\ f.epoch = record.revocationEpoch
        /\ record.exists /\ (seq <= record.expiresAt \/ record.claims = {})
             => f.expiresAt > record.expiresAt

\* prepareTransaction simulates the call; a refusal or a lost answer ends the run.
Prepare(r) ==
    /\ At(r, "built")
    /\ \/ GateAccepts(r) /\ Steps(r, [flow[r] EXCEPT !.at = "prepared"])
       \/ Ends(r, "refused")
    /\ UNCHANGED chainVars

Entered(r) == txs' = [txs EXCEPT ![r] = [seqNum |-> flow[r].seqNum, validTo |-> flow[r].validTo,
                                         status |-> "pending"]]

\* sendTransaction: taken into the queue, told to try again later (the code polls all
\* the same), refused with status ERROR, or no answer, whatever became of it.
Send(r) ==
    /\ At(r, "prepared")
    /\ \/ Entered(r) /\ Steps(r, [flow[r] EXCEPT !.at = "polling"])
       \/ UNCHANGED txs /\ Steps(r, [flow[r] EXCEPT !.at = "polling"])
       \/ UNCHANGED txs /\ Ends(r, "rejected")
       \/ (Entered(r) \/ UNCHANGED txs) /\ Ends(r, "sendThrew")
    /\ UNCHANGED <<seq, record, spent, issuer, accountSeq>>

\* Mutant: a transaction that is not FAILED is taken for a success.
PollHopeful(r) ==
    /\ At(r, "polling")
    /\ IF txs[r].status = "failed" THEN Ends(r, "failed") ELSE Ends(r, "landed")
    /\ UNCHANGED chainVars

\* getTransaction: SUCCESS, FAILED, or another round, a bounded number of them; a
\* poll that throws ends the run too, whatever became of the transaction.
Poll(r) ==
    /\ At(r, "polling")
    /\ \/ CASE txs[r].status = "success" -> Ends(r, "landed")
            [] txs[r].status = "failed" -> Ends(r, "failed")
            [] OTHER -> IF flow[r].polls + 1 < PollAttempts
                        THEN Steps(r, [flow[r] EXCEPT !.polls = @ + 1])
                        ELSE Ends(r, "unconfirmed")
       \/ Ends(r, "unconfirmed")
    /\ UNCHANGED chainVars

\* getLatestLedger or getAccount throws before anything was sent.
RpcThrows(r) ==
    /\ flow[r].at \in {"start", "epochRead", "ready"}
    /\ Ends(r, "rpcFailed")
    /\ UNCHANGED chainVars

-----------------------------------------------------------------------------
(* The network and the other users of the chain.                           *)

\* A ledger takes the next transaction of the account; a refused call is FAILED.
Include(r) ==
    /\ txs[r].status = "pending"
    /\ txs[r].seqNum = accountSeq + 1
    /\ seq <= txs[r].validTo
    /\ accountSeq' = accountSeq + 1
    /\ IF GateAccepts(r)
       THEN /\ record' = [exists |-> TRUE, claims |-> DeriveGrantedClaims(flow[r]),
                          expiresAt |-> flow[r].expiresAt,
                          revocationEpoch |-> record.revocationEpoch]
            /\ spent' = spent \cup {r}
            /\ txs' = [txs EXCEPT ![r].status = "success"]
       ELSE /\ txs' = [txs EXCEPT ![r].status = "failed"]
            /\ UNCHANGED <<record, spent>>
    /\ UNCHANGED <<seq, issuer, flow>>

\* Its sequence number was used by another, or its time bound passed.
Drop(r) ==
    /\ txs[r].status = "pending"
    /\ txs[r].seqNum <= accountSeq \/ seq > txs[r].validTo
    /\ txs' = [txs EXCEPT ![r].status = "dead"]
    /\ UNCHANGED <<seq, record, spent, issuer, accountSeq, flow>>

Revoke ==
    /\ record.revocationEpoch < MaxEpoch
    /\ record' = [exists |-> TRUE, claims |-> {}, expiresAt |-> seq,
                  revocationEpoch |-> record.revocationEpoch + 1]
    /\ UNCHANGED <<seq, spent, issuer, accountSeq, txs, flow>>

IssuerChanges(state) ==
    /\ issuer = "active" /\ state # "active"
    /\ issuer' = state
    /\ UNCHANGED <<seq, record, spent, accountSeq, txs, flow>>

CloseLedger ==
    /\ seq < MaxLedger
    /\ seq' = seq + 1
    /\ UNCHANGED <<record, spent, issuer, accountSeq, txs, flow>>

Next ==
    \/ \E r \in Run :
         \/ \E D \in Disclosures : Prove(r, D)
         \/ \E reply \in {Value, Failure({NoClaimRecord})} \cup Faults :
              Preflight(r, reply) \/ ReadEpoch(r, reply)
         \/ ChooseExpiresAt(r)
         \/ Build(r)
         \/ Prepare(r)
         \/ Send(r)
         \/ Poll(r)
         \/ RpcThrows(r)
         \/ Include(r)
         \/ Drop(r)
    \/ Revoke
    \/ \E state \in {"unknown", "otherKey"} : IssuerChanges(state)
    \/ CloseLedger

Spec == Init /\ [][Next]_vars

-----------------------------------------------------------------------------
\* "Refusing to assume revocation_epoch 0": whatever the RPC answers, an epoch a run
\* goes on with is the subject's epoch at the moment it was read.
EpochNeverGuessed ==
    [][\A r \in Run : flow'[r].epoch # flow[r].epoch =>
                          flow'[r].epoch = record.revocationEpoch]_vars

\* submit() tells the truth: a run that ended "landed" consumed its nonce on the chain,
\* and one that ended refused, rejected or failed has no transaction there and none
\* that could still get there.
OutcomeSound ==
    \A r \in Run :
        /\ flow[r].outcome = "landed" => r \in spent /\ txs[r].status = "success"
        /\ flow[r].outcome \in {"rpcFailed", "refused", "rejected", "failed"} =>
             r \notin spent /\ txs[r].status # "pending"

\* The clamps leave nothing for ExpiryTooFar: however many ledgers close between the
\* choice of an expiry and the call, it is within what the contract accepts.
NeverTooFar ==
    \A r \in Run :
        /\ flow[r].ledgerExpiry # NoNumber => flow[r].ledgerExpiry - seq <= PROOF_MAX_WINDOW
        /\ flow[r].expiresAt # NoNumber => flow[r].expiresAt - seq <= MAX_EXPIRY_HORIZON

\* The record on the chain says what some run of this subject disclosed and the
\* provider granted, in the epoch that run had read, and no run wrote twice.
RecordOfOneRun ==
    record.claims # {} =>
        \E r \in spent : /\ record.claims = flow[r].disclose \cap flow[r].verdict
                         /\ record.revocationEpoch = flow[r].epoch
                         /\ record.expiresAt = flow[r].expiresAt

\* What a run reports is what the chain holds, with an expiry inside the horizon.
ReportsSound == TypeOK /\ OutcomeSound /\ NeverTooFar

-----------------------------------------------------------------------------
(* What the repository says and the code does not meet: README, section 6. *)

\* The scan "checks that a value the proof does disclose is found": no disclosure the
\* portal accepted fails it.
ScanAcceptsDisclosures == \A r \in Run : flow[r].outcome # "scanFailed"
=============================================================================

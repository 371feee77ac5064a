----------------------------- MODULE PortalKyc -----------------------------
(***************************************************************************)
(* The portal's KYC routes over the run registry and the account file:     *)
(* kyc/start, kyc/submit, the run it starts (deploy the account's wallet   *)
(* on first use, then the onboarding pipeline) and the verdict written     *)
(* back when the run completes, in time or late.                           *)
(*                                                                         *)
(* The chain is reduced to which wallets were deployed and which hold a    *)
(* claim record; KycChain models what a record is.                         *)
(***************************************************************************)
EXTENDS RunRegistry, FiniteSets

CONSTANTS
    Wallet,             \* contract addresses createWallet deploys to
    NoWallet,
    NoTx,               \* no attest_bbs transaction recorded
    Request,            \* kyc/submit requests, each handled once
    MaxActiveRuns       \* deps.maxActiveRuns

VARIABLES
    accounts,           \* the durable account records
    requests,           \* submit requests waiting for their body
    runner,             \* where each run's runner stands, and its locals
    deployedFor,        \* the account each deployed wallet was deployed for
    inFlight,           \* runs whose attest_bbs was sent and did not land yet
    recorded            \* wallets that hold a claim record

portalVars == <<accounts, requests, runner, deployedFor, inFlight, recorded>>
vars == <<registryVars, portalVars>>

ASSUME PortalAssumption ==
    /\ MaxActiveRuns \in Nat \ {0}
    /\ NoWallet \notin Wallet
    /\ NoTx \notin RunId

\* A transaction hash is named by the run that submitted it.
Kyc == [status : {"none", "pending", "approved", "rejected"}, txHash : RunId \cup {NoTx}]

AccountRecord == [kyc : Kyc, wallet : Wallet \cup {NoWallet}]

RunnerState ==
    [at : {"idle", "deploying", "pipeline", "submitted", "ended"},
     scenario : {"approved", "rejected"}, cAddr : Wallet \cup {NoWallet}]

RequestState ==
    [at : {"new", "reading", "answered"}, account : Account \cup {NoAccount}, kyc : Kyc]

NoKyc == [status |-> "none", txHash |-> NoTx]

TypeOK ==
    /\ RegistryTypeOK
    /\ accounts \in [Account -> AccountRecord]
    /\ requests \in [Request -> RequestState]
    /\ runner \in [RunId -> RunnerState]
    /\ deployedFor \in [Wallet -> Account \cup {NoAccount}]
    /\ inFlight \subseteq RunId
    /\ recorded \subseteq Wallet

Init ==
    /\ RegistryInit
    /\ accounts = [a \in Account |-> [kyc |-> NoKyc, wallet |-> NoWallet]]
    /\ requests = [q \in Request |-> [at |-> "new", account |-> NoAccount, kyc |-> NoKyc]]
    /\ runner = [r \in RunId |-> [at |-> "idle", scenario |-> "approved",
                                  cAddr |-> NoWallet]]
    /\ deployedFor = [w \in Wallet |-> NoAccount]
    /\ inFlight = {}
    /\ recorded = {}

-----------------------------------------------------------------------------
ActiveCount == Cardinality({r \in RunId : Active(r)})

\* POST kyc/start: a verified account is left alone, any other is pending again.
KycStart(a) ==
    /\ accounts[a].kyc.status # "approved"
    /\ accounts' = [accounts EXCEPT ![a].kyc.status = "pending"]
    /\ UNCHANGED <<registryVars, requests, runner, deployedFor, inFlight, recorded>>

\* POST kyc/submit up to its await: the account is read before the body is.
SubmitArrives(q, a) ==
    /\ requests[q].at = "new"
    /\ requests' = [requests EXCEPT ![q] = [at |-> "reading", account |-> a,
                                            kyc |-> accounts[a].kyc]]
    /\ UNCHANGED <<registryVars, accounts, runner, deployedFor, inFlight, recorded>>

\* A handler that is done keeps nothing.
Forgotten == [at |-> "answered", account |-> NoAccount, kyc |-> NoKyc]

Answered(q) == requests' = [requests EXCEPT ![q] = Forgotten]

\* 409 run_in_progress, or 503 busy.
SubmitRefused(q) ==
    /\ requests[q].at = "reading"
    /\ \/ ActiveRuns(requests[q].account) # {}
       \/ ActiveCount >= MaxActiveRuns
    /\ Answered(q)
    /\ UNCHANGED <<registryVars, accounts, runner, deployedFor, inFlight, recorded>>

\* Mutant: 409 run_in_progress is the only check before the run starts.
SubmitStartsUncapped(q, r, scenario) ==
    LET a == requests[q].account
    IN  /\ requests[q].at = "reading"
        /\ ActiveRuns(a) = {}
        /\ accounts' = [accounts EXCEPT ![a].kyc =
                          [requests[q].kyc EXCEPT !.status = "pending"]]
        /\ StartRun(r, a)
        /\ runner' = [runner EXCEPT ![r] =
                        [at |-> IF accounts[a].wallet = NoWallet THEN "deploying"
                                                                 ELSE "pipeline",
                         scenario |-> scenario, cAddr |-> accounts[a].wallet]]
        /\ Answered(q)
        /\ UNCHANGED <<deployedFor, inFlight, recorded>>

\* The rest of kyc/submit in one callback: the checks, the write of the snapshot
\* as pending, start(), and the runner up to its first await.
SubmitStarts(q, r, scenario) ==
    LET a == requests[q].account
    IN  /\ requests[q].at = "reading"
        /\ ActiveRuns(a) = {}
        /\ ActiveCount < MaxActiveRuns
        /\ accounts' = [accounts EXCEPT ![a].kyc =
                          [requests[q].kyc EXCEPT !.status = "pending"]]
        /\ StartRun(r, a)
        /\ runner' = [runner EXCEPT ![r] =
                        [at |-> IF accounts[a].wallet = NoWallet THEN "deploying"
                                                                 ELSE "pipeline",
                         scenario |-> scenario, cAddr |-> accounts[a].wallet]]
        /\ Answered(q)
        /\ UNCHANGED <<deployedFor, inFlight, recorded>>

-----------------------------------------------------------------------------
(* The runner.                                                             *)

EndRunner(r) == runner' = [runner EXCEPT ![r].at = "ended"]

\* A throw anywhere: finish() with an error, which onComplete leaves alone.
RunFails(r) ==
    /\ runner[r].at \in {"deploying", "pipeline", "submitted"}
    /\ RunnerThrows(r)
    /\ EndRunner(r)
    /\ UNCHANGED <<accounts, requests, deployedFor, inFlight, recorded>>

\* Mutant: the wallet is stored without reading the account again.
WalletOverwritten(r, w) ==
    LET a == runs[r].account
    IN  /\ runner[r].at = "deploying"
        /\ deployedFor[w] = NoAccount
        /\ deployedFor' = [deployedFor EXCEPT ![w] = a]
        /\ accounts' = [accounts EXCEPT ![a].wallet = w]
        /\ IF runs[r].done
           THEN RunnerThrows(r) /\ EndRunner(r)
           ELSE /\ runner' = [runner EXCEPT ![r].at = "pipeline", ![r].cAddr = w]
                /\ UNCHANGED registryVars
        /\ UNCHANGED <<requests, inFlight, recorded>>

\* Mutant: the stored wallet is kept but the run goes on with its own.
WalletNotAdopted(r, w) ==
    LET a == runs[r].account
        kept == IF accounts[a].wallet = NoWallet THEN w ELSE accounts[a].wallet
    IN  /\ runner[r].at = "deploying"
        /\ deployedFor[w] = NoAccount
        /\ deployedFor' = [deployedFor EXCEPT ![w] = a]
        /\ accounts' = [accounts EXCEPT ![a].wallet = kept]
        /\ IF runs[r].done
           THEN RunnerThrows(r) /\ EndRunner(r)
           ELSE /\ runner' = [runner EXCEPT ![r].at = "pipeline", ![r].cAddr = w]
                /\ UNCHANGED registryVars
        /\ UNCHANGED <<requests, inFlight, recorded>>

\* createWallet answers.  The account is read again: a wallet stored meanwhile
\* is the subject, else this one is stored.  A run that was abandoned by its
\* timeout throws before the pipeline.
WalletDeployed(r, w) ==
    LET a == runs[r].account
        cAddr == IF accounts[a].wallet = NoWallet THEN w ELSE accounts[a].wallet
    IN  /\ runner[r].at = "deploying"
        /\ deployedFor[w] = NoAccount
        /\ deployedFor' = [deployedFor EXCEPT ![w] = a]
        /\ accounts' = [accounts EXCEPT ![a].wallet = cAddr]
        /\ IF runs[r].done
           THEN RunnerThrows(r) /\ EndRunner(r)
           ELSE /\ runner' = [runner EXCEPT ![r].at = "pipeline", ![r].cAddr = cAddr]
                /\ UNCHANGED registryVars
        /\ UNCHANGED <<requests, inFlight, recorded>>

\* The deployment went through but createWallet throws (its ownership check or a
\* poll failed): the address is not stored and a later run deploys another one.
WalletOrphaned(r, w) ==
    /\ runner[r].at = "deploying"
    /\ deployedFor[w] = NoAccount
    /\ deployedFor' = [deployedFor EXCEPT ![w] = runs[r].account]
    /\ RunnerThrows(r)
    /\ EndRunner(r)
    /\ UNCHANGED <<accounts, requests, inFlight, recorded>>

\* The approved path up to sendTransaction(attest_bbs).
AttestSent(r) ==
    /\ runner[r].at = "pipeline"
    /\ runner[r].scenario = "approved"
    /\ runner' = [runner EXCEPT ![r].at = "submitted"]
    /\ inFlight' = inFlight \cup {r}
    /\ UNCHANGED <<registryVars, accounts, requests, deployedFor, recorded>>

\* The transaction lands, also when nobody polls for it any more.
AttestLands(r) ==
    /\ r \in inFlight
    /\ inFlight' = inFlight \ {r}
    /\ recorded' = recorded \cup {runner[r].cAddr}
    /\ UNCHANGED <<registryVars, accounts, requests, runner, deployedFor>>

\* It is refused, or never included.
AttestLost(r) ==
    /\ r \in inFlight
    /\ inFlight' = inFlight \ {r}
    /\ \/ runner[r].at = "submitted" /\ RunnerThrows(r) /\ EndRunner(r)
       \/ runner[r].at # "submitted" /\ UNCHANGED <<registryVars, runner>>
    /\ UNCHANGED <<accounts, requests, deployedFor, recorded>>

\* onComplete with a result: a late one is kept unless the account is verified.
WriteVerdict(r, kyc) ==
    LET a == runs[r].account
        late == runs[r].done
    IN  accounts' = IF late /\ accounts[a].kyc.status = "approved" THEN accounts
                    ELSE [accounts EXCEPT ![a].kyc = kyc]

\* Mutant: the verdict is written when the transaction is sent, not confirmed.
RunApprovesUnconfirmed(r) ==
    /\ runner[r].at = "submitted"
    /\ RunnerReturns(r)
    /\ WriteVerdict(r, [status |-> "approved", txHash |-> r])
    /\ EndRunner(r)
    /\ UNCHANGED <<requests, deployedFor, inFlight, recorded>>

\* The poll saw the transaction and the reads after it agreed.
RunApproves(r) ==
    /\ runner[r].at = "submitted"
    /\ r \notin inFlight
    /\ RunnerReturns(r)
    /\ WriteVerdict(r, [status |-> "approved", txHash |-> r])
    /\ EndRunner(r)
    /\ UNCHANGED <<requests, deployedFor, inFlight, recorded>>

\* The rejected path submits nothing and returns without a transaction hash.
RunRejects(r) ==
    /\ runner[r].at = "pipeline"
    /\ runner[r].scenario = "rejected"
    /\ RunnerReturns(r)
    /\ WriteVerdict(r, [status |-> "rejected", txHash |-> NoTx])
    /\ EndRunner(r)
    /\ UNCHANGED <<requests, deployedFor, inFlight, recorded>>

RunTimesOut(r) == TimesOut(r) /\ UNCHANGED portalVars

RunEvicted(r) == Evict(r) /\ UNCHANGED portalVars

\* The server process dies and starts again: runs, requests and runners are
\* gone, the account file and the chain are not.
Restart ==
    /\ runs' = [r \in RunId |-> IF Started(r)
                                THEN [runs[r] EXCEPT !.done = TRUE, !.kept = FALSE,
                                                     !.settled = TRUE]
                                ELSE runs[r]]
    /\ requests' = [q \in Request |-> IF requests[q].at = "reading"
                                      THEN Forgotten
                                      ELSE requests[q]]
    /\ runner' = [r \in RunId |-> IF runner[r].at = "idle" THEN runner[r]
                                  ELSE [runner[r] EXCEPT !.at = "ended"]]
    /\ UNCHANGED <<completions, streamVars, accounts, deployedFor, inFlight, recorded>>

RunStep(r) ==
    \/ RunFails(r)
    \/ \E w \in Wallet : WalletDeployed(r, w) \/ WalletOrphaned(r, w)
    \/ AttestSent(r)
    \/ AttestLands(r)
    \/ AttestLost(r)
    \/ RunApproves(r)
    \/ RunRejects(r)
    \/ RunTimesOut(r)
    \/ RunEvicted(r)

Next ==
    \/ \E a \in Account : KycStart(a)
    \/ \E q \in Request :
         \/ \E a \in Account : SubmitArrives(q, a)
         \/ SubmitRefused(q)
         \/ \E r \in RunId, s \in {"approved", "rejected"} : SubmitStarts(q, r, s)
    \/ \E r \in RunId : RunStep(r)
    \/ Restart

Spec == Init /\ [][Next]_vars

-----------------------------------------------------------------------------
\* The wallet of an account, once stored, never changes: runs that overlap after
\* a timeout agree on one subject (kyc/submit re-reads after the deploy).
WalletFixed ==
    [][\A a \in Account :
         accounts[a].wallet # NoWallet => accounts'[a].wallet = accounts[a].wallet]_vars

\* An account shown as verified has a claim record on chain for its own wallet,
\* written by the transaction whose hash it shows.
ApprovedIsRecorded ==
    \A a \in Account :
        accounts[a].kyc.status = "approved" =>
            /\ accounts[a].kyc.txHash # NoTx
            /\ accounts[a].wallet \in recorded
            /\ runner[accounts[a].kyc.txHash].cAddr = accounts[a].wallet
            /\ deployedFor[accounts[a].wallet] = a

\* The account file is well formed and shows what the chain holds.
AccountsSound == TypeOK /\ ApprovedIsRecorded

\* Every record the portal causes is for a wallet the account keeps, so no claim
\* is attested for a wallet that nothing points at.
RecordsForKeptWallets ==
    \A w \in recorded : deployedFor[w] # NoAccount /\ accounts[deployedFor[w]].wallet = w

\* One open run for an account and at most maxActiveRuns in all, although the
\* check and the start are reached after an await (kyc/submit).
RunsBounded ==
    /\ \A a \in Account : Cardinality(ActiveRuns(a)) <= 1
    /\ ActiveCount <= MaxActiveRuns

-----------------------------------------------------------------------------
(* What the repository says and the code does not meet: README, section 6. *)

\* createWallet is "called at most ONCE per account" (portal-api.ts).
WalletDeployedOnce ==
    \A a \in Account : Cardinality({w \in Wallet : deployedFor[w] = a}) <= 1

\* "rejected - the provider refused, so nothing was ever issued or written"
\* (accounts.ts, KycStatus).
RejectedWroteNothing ==
    \A a \in Account : accounts[a].kyc.status = "rejected" => accounts[a].wallet \notin recorded
=============================================================================

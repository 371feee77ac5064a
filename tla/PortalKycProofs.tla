--------------------------- MODULE PortalKycProofs ---------------------------
(***************************************************************************)
(* Proofs about the portal's KYC routes, for every number of accounts,     *)
(* wallets, requests and runs and every number of restarts: an account     *)
(* shown as verified has its record on chain, no record is written for a   *)
(* wallet nothing points at, a stored wallet never changes, and the runs   *)
(* stay within their bounds.                                               *)
(***************************************************************************)
EXTENDS PortalKyc, RunRegistryProofs, FiniteSetTheorems

\* Only a started run has a runner or a transaction on its way.
RunnersStarted == \A r \in RunId : ~Started(r) => runner[r].at = "idle" /\ r \notin inFlight

\* A handler that waits for its body knows its account.
ReadingOwned == \A q \in Request : requests[q].at = "reading" => requests[q].account \in Account

\* A wallet an account keeps was deployed for it.
WalletsOwned ==
    \A a \in Account : accounts[a].wallet # NoWallet => deployedFor[accounts[a].wallet] = a

\* Past the deployment a run works for the wallet its account keeps, also when the
\* account got that wallet from another run, and also after a restart.
SubjectsKept ==
    \A r \in RunId :
        runner[r].at \in {"pipeline", "submitted"} \/ r \in inFlight =>
            runner[r].cAddr # NoWallet /\ accounts[runs[r].account].wallet = runner[r].cAddr

\* A runner that still polls for a transaction that is not on its way any more has
\* its record.
SubmittedLanded ==
    \A r \in RunId :
        runner[r].at = "submitted" /\ r \notin inFlight => runner[r].cAddr \in recorded

\* The run an approval names is over, so its locals stay what they were.
ApprovedEnded ==
    \A a \in Account :
        accounts[a].kyc.status = "approved" =>
            accounts[a].kyc.txHash \in RunId /\ runner[accounts[a].kyc.txHash].at = "ended"

Linked == UnstartedClean /\ RunnersStarted /\ ReadingOwned /\ WalletsOwned /\ SubjectsKept
          /\ SubmittedLanded

Shown == ApprovedEnded /\ ApprovedIsRecorded /\ RecordsForKeptWallets

PortalInv == TypeOK /\ Linked /\ Shown

\* The active runs are finitely many, within the bound, and no two of one account.
Running == {r \in RunId : Active(r)}

ActiveInv ==
    /\ IsFiniteSet(Running)
    /\ Cardinality(Running) <= MaxActiveRuns
    /\ \A r, s \in Running : runs[r].account = runs[s].account => r = s

-----------------------------------------------------------------------------
(* The routes.                                                             *)

\* Nothing is stored, started or recorded before the first request.
LEMMA InitPortal == Init => PortalInv /\ ActiveInv
<1> SUFFICES ASSUME Init PROVE PortalInv /\ ActiveInv
  OBVIOUS
<1>1. RegistryTypeOK /\ UnstartedClean /\ \A r \in RunId : runs[r] = Unstarted
  BY InitOutcome DEF Init, RegistryInit, OutcomeInv, OneOutcome
<1>2. TypeOK
  BY <1>1 DEF Init, TypeOK, AccountRecord, Kyc, NoKyc, RunnerState, RequestState
<1>3. Linked /\ Shown
  BY <1>1 DEF Init, Linked, Shown, RunnersStarted, ReadingOwned, WalletsOwned, SubjectsKept,
              SubmittedLanded, ApprovedEnded, ApprovedIsRecorded, RecordsForKeptWallets, NoKyc
<1>4. Running = {}
  BY <1>1 DEF Running, Active, Unstarted
<1>5. ActiveInv
  BY <1>4, FS_EmptySet, PortalAssumption DEF ActiveInv
<1>6. QED
  BY <1>2, <1>3, <1>5 DEF PortalInv

\* kyc/start only turns a status that is not approved to pending.
LEMMA KycStartPortal ==
    ASSUME PortalInv, NEW a \in Account, KycStart(a)
    PROVE  PortalInv'
<1> USE DEF PortalInv
<1>1. /\ UNCHANGED <<registryVars, requests, runner, deployedFor, inFlight, recorded>>
      /\ accounts' = [accounts EXCEPT ![a] = [accounts[a] EXCEPT !.kyc =
                        [accounts[a].kyc EXCEPT !.status = "pending"]]]
  BY DEF KycStart, TypeOK, AccountRecord
<1>2. accounts[a] \in AccountRecord
  BY DEF TypeOK
<1>3. accounts' \in [Account -> AccountRecord]
  BY <1>1, <1>2 DEF TypeOK, AccountRecord, Kyc
<1>4. \A b \in Account : /\ accounts'[b].wallet = accounts[b].wallet
                         /\ accounts'[b].kyc.status = "approved" => accounts'[b] = accounts[b]
  BY <1>1, <1>2 DEF TypeOK, AccountRecord, Kyc
<1>5. TypeOK'
  BY <1>1, <1>3 DEF TypeOK, registryVars, streamVars, RegistryTypeOK
<1>6. Linked'
  <2>1. \A r \in RunId : runner[r].at \in {"pipeline", "submitted"} \/ r \in inFlight =>
          runs[r].account \in Account
    BY <1>1 DEF Linked, RunnersStarted, Started, TypeOK, RegistryTypeOK, RunState
  <2>2. QED
    BY <1>1, <1>4, <2>1
       DEF Linked, UnstartedClean, RunnersStarted, ReadingOwned, WalletsOwned, SubjectsKept,
           SubmittedLanded, Started, registryVars
<1>7. Shown'
  BY <1>1, <1>4 DEF Shown, ApprovedEnded, ApprovedIsRecorded, RecordsForKeptWallets, TypeOK
<1>8. QED
  BY <1>5, <1>6, <1>7

\* kyc/submit up to its await, and its refusals, touch the request only.
LEMMA RequestPortal ==
    ASSUME PortalInv, NEW q \in Request,
           (\E a \in Account : SubmitArrives(q, a)) \/ SubmitRefused(q)
    PROVE  PortalInv'
<1> USE DEF PortalInv
<1>1. UNCHANGED <<registryVars, accounts, runner, deployedFor, inFlight, recorded>>
  BY DEF SubmitArrives, SubmitRefused
<1>2. requests' \in [Request -> RequestState]
  <2>1. NoKyc \in Kyc
    BY DEF NoKyc, Kyc
  <2>2. CASE SubmitRefused(q)
    BY <2>1, <2>2 DEF SubmitRefused, Answered, Forgotten, TypeOK, RequestState
  <2>3. CASE \E a \in Account : SubmitArrives(q, a)
    BY <2>3 DEF SubmitArrives, TypeOK, RequestState, AccountRecord
  <2>4. QED
    BY <2>2, <2>3
<1>3. ReadingOwned'
  <2>1. \A p \in Request \ {q} : requests'[p] = requests[p]
    BY DEF SubmitArrives, SubmitRefused, Answered, TypeOK
  <2>2. requests'[q].at = "reading" => requests'[q].account \in Account
    BY DEF SubmitArrives, SubmitRefused, Answered, Forgotten, TypeOK
  <2>3. QED
    BY <2>1, <2>2 DEF Linked, ReadingOwned
<1>4. TypeOK'
  BY <1>1, <1>2 DEF TypeOK, registryVars, streamVars, RegistryTypeOK
<1>5. Linked' /\ Shown'
  BY <1>1, <1>3
     DEF Linked, UnstartedClean, RunnersStarted, WalletsOwned, SubjectsKept, SubmittedLanded,
         Started, registryVars, Shown, ApprovedEnded, ApprovedIsRecorded, RecordsForKeptWallets
<1>6. QED
  BY <1>4, <1>5

\* The rest of kyc/submit writes the snapshot as pending and starts an unused run.
LEMMA SubmitStartsPortal ==
    ASSUME PortalInv, NEW q \in Request, NEW r \in RunId,
           NEW scenario \in {"approved", "rejected"}, SubmitStarts(q, r, scenario)
    PROVE  PortalInv'
<1> USE DEF PortalInv
<1> DEFINE a == requests[q].account
<1>1. a \in Account /\ requests[q] \in RequestState /\ accounts[a] \in AccountRecord
  BY DEF Linked, ReadingOwned, SubmitStarts, TypeOK
<1>2. /\ accounts' = [accounts EXCEPT ![a] = [accounts[a] EXCEPT !.kyc =
                        [requests[q].kyc EXCEPT !.status = "pending"]]]
      /\ StartRun(r, a)
      /\ runner' = [runner EXCEPT ![r] =
                      [at |-> IF accounts[a].wallet = NoWallet THEN "deploying" ELSE "pipeline",
                       scenario |-> scenario, cAddr |-> accounts[a].wallet]]
      /\ requests' = [requests EXCEPT ![q] = Forgotten]
      /\ UNCHANGED <<deployedFor, inFlight, recorded>>
  BY <1>1 DEF SubmitStarts, Answered, TypeOK, AccountRecord
<1> HIDE DEF a
<1>3. /\ RegistryTypeOK' /\ UnstartedClean'
      /\ \A s \in RunId \ {r} : runs'[s] = runs[s]
      /\ runs'[r].account = a
  BY <1>1, <1>2, StartEffect DEF TypeOK, Linked
<1>4. runner[r].at = "idle" /\ r \notin inFlight /\ ~Started(r) /\ a # NoAccount
  BY <1>1, <1>2, RegistryAssumption DEF Linked, RunnersStarted, StartRun
<1>5. /\ accounts' \in [Account -> AccountRecord]
      /\ \A b \in Account : /\ accounts'[b].wallet = accounts[b].wallet
                            /\ accounts'[b].kyc.status = "approved" => accounts'[b] = accounts[b]
  BY <1>1, <1>2 DEF TypeOK, AccountRecord, Kyc, RequestState
<1>6. runner' \in [RunId -> RunnerState]
  BY <1>1, <1>2 DEF TypeOK, RunnerState, AccountRecord
<1>7. requests' \in [Request -> RequestState]
  BY <1>2 DEF TypeOK, RequestState, Forgotten, NoKyc, Kyc
<1>8. TypeOK'
  BY <1>2, <1>3, <1>5, <1>6, <1>7 DEF TypeOK
<1>9. /\ \A s \in RunId \ {r} : runner'[s] = runner[s]
      /\ runner'[r].at \in {"deploying", "pipeline"}
      /\ runner'[r].cAddr = accounts[a].wallet
      /\ runner'[r].at = "pipeline" => accounts[a].wallet # NoWallet
  BY <1>2 DEF TypeOK
<1>10. Linked'
  <2>1. RunnersStarted'
    BY <1>2, <1>3, <1>4, <1>9 DEF Linked, RunnersStarted, Started
  <2>2. ReadingOwned'
    BY <1>2 DEF Linked, ReadingOwned, Forgotten, TypeOK
  <2>3. WalletsOwned'
    BY <1>2, <1>5 DEF Linked, WalletsOwned
  <2>4. SubjectsKept'
    <3>1. \A s \in RunId : runner[s].at \in {"pipeline", "submitted"} \/ s \in inFlight =>
            runs[s].account \in Account
      BY DEF Linked, RunnersStarted, Started, TypeOK, RegistryTypeOK, RunState
    <3>2. QED
      BY <1>1, <1>2, <1>3, <1>4, <1>5, <1>9, <3>1 DEF Linked, SubjectsKept
  <2>5. SubmittedLanded'
    BY <1>2, <1>9 DEF Linked, SubmittedLanded
  <2>6. QED
    BY <1>3, <2>1, <2>2, <2>3, <2>4, <2>5 DEF Linked
<1>11. Shown'
  <2>1. \A b \in Account : accounts[b].kyc.status = "approved" =>
          accounts[b].kyc.txHash \in RunId \ {r}
    BY <1>4 DEF Shown, ApprovedEnded
  <2>2. QED
    BY <1>2, <1>5, <1>9, <2>1
       DEF Shown, ApprovedEnded, ApprovedIsRecorded, RecordsForKeptWallets, TypeOK
<1>12. QED
  BY <1>8, <1>10, <1>11

\* What the steps of one run have in common: its runner's locals stay, its runner
\* ends or stays, and nothing but the runs and the runner moves.
LEMMA RunnerMoves ==
    ASSUME PortalInv, NEW r \in RunId,
           RegistryTypeOK', UnstartedClean', RunsGoOn,
           UNCHANGED <<accounts, requests, deployedFor, inFlight, recorded>>,
           runner' = runner \/ EndRunner(r),
           Started(r)
    PROVE  PortalInv'
<1> USE DEF PortalInv
<1>1. /\ runner' \in [RunId -> RunnerState]
      /\ \A s \in RunId : /\ runner'[s].cAddr = runner[s].cAddr
                          /\ runner'[s].at = runner[s].at \/ (s = r /\ runner'[s].at = "ended")
  <2>1. runner \in [RunId -> RunnerState]
    BY DEF TypeOK
  <2>2. CASE runner' = runner
    BY <2>1, <2>2
  <2>3. CASE EndRunner(r)
    <3>1. runner' = [runner EXCEPT ![r] = [runner[r] EXCEPT !.at = "ended"]]
      BY <2>3 DEF EndRunner
    <3>2. [runner[r] EXCEPT !.at = "ended"] \in RunnerState
      BY <2>1 DEF RunnerState
    <3>3. [runner[r] EXCEPT !.at = "ended"].cAddr = runner[r].cAddr
          /\ [runner[r] EXCEPT !.at = "ended"].at = "ended"
      BY <2>1 DEF RunnerState
    <3>4. QED
      BY <2>1, <3>1, <3>2, <3>3
  <2>4. QED
    BY <2>2, <2>3
<1>2. TypeOK'
  BY <1>1 DEF TypeOK
<1>3. Linked'
  BY <1>1 DEF Linked, RunnersStarted, ReadingOwned, WalletsOwned, SubjectsKept, SubmittedLanded,
              RunsGoOn, Started
<1>4. Shown'
  BY <1>1 DEF Shown, ApprovedEnded, ApprovedIsRecorded, RecordsForKeptWallets
<1>5. QED
  BY <1>2, <1>3, <1>4

-----------------------------------------------------------------------------
(* The runner.                                                             *)

\* A run that deploys, or is past it, was started, for an account of the portal.
LEMMA AtWork ==
    ASSUME PortalInv, NEW r \in RunId, runner[r].at # "idle" \/ r \in inFlight
    PROVE  Started(r) /\ runs[r].account \in Account
BY DEF PortalInv, Linked, RunnersStarted, Started, TypeOK, RegistryTypeOK, RunState

\* createWallet answers, or throws after it deployed: the wallet is nobody's yet,
\* and the account keeps the one it has, if it has one.
LEMMA DeployPortal ==
    ASSUME PortalInv, NEW r \in RunId, NEW w \in Wallet,
           WalletDeployed(r, w) \/ WalletOrphaned(r, w)
    PROVE  PortalInv'
<1> USE DEF PortalInv
<1> DEFINE a == runs[r].account
           cAddr == IF accounts[a].wallet = NoWallet THEN w ELSE accounts[a].wallet
<1>1. Started(r) /\ a \in Account /\ runner[r].at = "deploying" /\ deployedFor[w] = NoAccount
  <2>1. runner[r].at = "deploying" /\ deployedFor[w] = NoAccount
    BY DEF WalletDeployed, WalletOrphaned
  <2>2. QED
    BY <2>1, AtWork
<1>2. /\ deployedFor' = [deployedFor EXCEPT ![w] = a]
      /\ accounts' = accounts \/ accounts' = [accounts EXCEPT ![a] =
                                                [accounts[a] EXCEPT !.wallet = cAddr]]
      /\ UNCHANGED <<requests, inFlight, recorded>>
  BY <1>1 DEF WalletDeployed, WalletOrphaned, TypeOK, AccountRecord
<1>3. \/ runner' = [runner EXCEPT ![r] = [runner[r] EXCEPT !.at = "ended"]]
      \/ /\ runner' = [runner EXCEPT ![r] = [runner[r] EXCEPT !.at = "pipeline", !.cAddr = cAddr]]
         /\ accounts' = [accounts EXCEPT ![a] = [accounts[a] EXCEPT !.wallet = cAddr]]
  BY <1>1 DEF WalletDeployed, WalletOrphaned, EndRunner, TypeOK, RunnerState, AccountRecord
<1>4. RunnerThrows(r) \/ UNCHANGED registryVars
  BY DEF WalletDeployed, WalletOrphaned
<1>5. RegistryTypeOK' /\ UnstartedClean' /\ RunsGoOn
  BY <1>4, RegistryFrame DEF TypeOK, Linked
<1>6. accounts[a] \in AccountRecord /\ runner[r] \in RunnerState
      /\ cAddr \in Wallet /\ cAddr # NoWallet
  BY <1>1, PortalAssumption DEF TypeOK, AccountRecord
<1> HIDE DEF a, cAddr
<1>7. /\ accounts' \in [Account -> AccountRecord]
      /\ \A b \in Account : /\ accounts'[b].kyc = accounts[b].kyc
                            /\ b # a => accounts'[b] = accounts[b]
      /\ accounts'[a].wallet \in {accounts[a].wallet, cAddr}
  BY <1>1, <1>2, <1>6 DEF TypeOK, AccountRecord
<1>8. accounts[a].wallet # NoWallet => cAddr = accounts[a].wallet
  BY DEF cAddr
<1>9. accounts[a].wallet = NoWallet => cAddr = w
  BY DEF cAddr
<1>10. /\ runner' \in [RunId -> RunnerState]
       /\ \A s \in RunId \ {r} : runner'[s] = runner[s]
       /\ \/ runner'[r].at = "ended"
          \/ runner'[r].at = "pipeline" /\ runner'[r].cAddr = cAddr /\ accounts'[a].wallet = cAddr
  <2>1. runner \in [RunId -> RunnerState] /\ accounts \in [Account -> AccountRecord]
    BY DEF TypeOK
  <2>2. CASE runner' = [runner EXCEPT ![r] = [runner[r] EXCEPT !.at = "ended"]]
    BY <1>6, <2>1, <2>2 DEF RunnerState
  <2>3. CASE /\ runner' = [runner EXCEPT ![r] = [runner[r] EXCEPT !.at = "pipeline",
                                                                 !.cAddr = cAddr]]
             /\ accounts' = [accounts EXCEPT ![a] = [accounts[a] EXCEPT !.wallet = cAddr]]
    <3>1. [runner[r] EXCEPT !.at = "pipeline", !.cAddr = cAddr] \in RunnerState
      BY <1>6 DEF RunnerState
    <3>2. /\ runner' \in [RunId -> RunnerState]
          /\ \A s \in RunId \ {r} : runner'[s] = runner[s]
          /\ runner'[r].at = "pipeline" /\ runner'[r].cAddr = cAddr
      BY <1>6, <2>1, <2>3, <3>1 DEF RunnerState
    <3>3. accounts'[a].wallet = cAddr
      BY <1>1, <1>6, <2>1, <2>3 DEF AccountRecord
    <3>4. QED
      BY <3>2, <3>3
  <2>4. QED
    BY <1>3, <2>2, <2>3
<1>11. TypeOK'
  BY <1>1, <1>2, <1>5, <1>7, <1>10 DEF TypeOK
<1>12. \A s \in RunId : runner[s].at \in {"pipeline", "submitted"} \/ s \in inFlight =>
          /\ Started(s) /\ runs[s].account \in Account
          /\ runner[s].cAddr # NoWallet /\ accounts[runs[s].account].wallet = runner[s].cAddr
  BY AtWork DEF Linked, SubjectsKept
<1>13. Linked'
  <2>1. RunnersStarted'
    BY <1>1, <1>2, <1>5, <1>10 DEF Linked, RunnersStarted, RunsGoOn, Started
  <2>2. ReadingOwned' /\ SubmittedLanded'
    BY <1>1, <1>2, <1>10 DEF Linked, ReadingOwned, SubmittedLanded
  <2>3. WalletsOwned'
    <3>1. \A b \in Account : accounts[b].wallet # NoWallet => accounts[b].wallet # w
      BY <1>1, RegistryAssumption DEF Linked, WalletsOwned
    <3>2. ASSUME NEW b \in Account, accounts'[b].wallet # NoWallet
          PROVE  deployedFor'[accounts'[b].wallet] = b
      <4>1. CASE accounts'[b].wallet = accounts[b].wallet
        BY <1>2, <3>1, <3>2, <4>1 DEF Linked, WalletsOwned, TypeOK, AccountRecord
      <4>2. CASE accounts'[b].wallet # accounts[b].wallet
        <5>1. b = a /\ accounts'[b].wallet = w
          BY <1>7, <1>8, <1>9, <4>2
        <5>2. QED
          BY <1>2, <5>1 DEF TypeOK
      <4>3. QED
        BY <4>1, <4>2
    <3>3. QED
      BY <3>2 DEF WalletsOwned
  <2>4. SubjectsKept'
    <3>1. ASSUME NEW s \in RunId, runner'[s].at \in {"pipeline", "submitted"} \/ s \in inFlight
          PROVE  runner'[s].cAddr # NoWallet
                 /\ accounts'[runs[s].account].wallet = runner'[s].cAddr
      <4>1. CASE s = r /\ runner'[r].at = "pipeline" /\ runner'[r].cAddr = cAddr
                 /\ accounts'[a].wallet = cAddr
        BY <1>6, <4>1 DEF a
      <4>2. CASE runner'[s].cAddr = runner[s].cAddr
                 /\ (runner[s].at \in {"pipeline", "submitted"} \/ s \in inFlight)
        BY <1>7, <1>8, <1>12, <4>2
      <4>3. CASE s = r /\ runner'[r].at = "ended"
        <5>1. runner'[r].cAddr = runner[r].cAddr
          BY <1>3, <1>6, <4>3 DEF TypeOK, RunnerState
        <5>2. QED
          BY <3>1, <4>2, <4>3, <5>1
      <4>4. QED
        BY <1>10, <3>1, <4>1, <4>2, <4>3
    <3>2. QED
      BY <1>2, <1>5, <3>1 DEF SubjectsKept, RunsGoOn
  <2>5. QED
    BY <1>5, <2>1, <2>2, <2>3, <2>4 DEF Linked
<1>14. Shown'
  <2>1. w \notin recorded
    BY <1>1 DEF Shown, RecordsForKeptWallets
  <2>2. \A v \in recorded : /\ deployedFor'[v] = deployedFor[v] /\ deployedFor[v] \in Account
                            /\ accounts[deployedFor[v]].wallet = v
    BY <1>2, <2>1 DEF Shown, RecordsForKeptWallets, TypeOK
  <2>3. NoWallet \notin recorded
    BY PortalAssumption DEF TypeOK
  <2>4. \A b \in Account : accounts[b].wallet # NoWallet =>
          accounts'[b].wallet = accounts[b].wallet
    BY <1>7, <1>8
  <2>5. RecordsForKeptWallets'
    BY <1>2, <2>2, <2>3, <2>4 DEF Shown, RecordsForKeptWallets
  <2>6. ASSUME NEW b \in Account, accounts[b].kyc.status = "approved"
        PROVE  /\ accounts[b].kyc.txHash # NoTx /\ accounts[b].kyc.txHash \in RunId \ {r}
               /\ runner[accounts[b].kyc.txHash].at = "ended"
               /\ accounts[b].wallet \in recorded /\ accounts'[b].wallet = accounts[b].wallet
               /\ runner[accounts[b].kyc.txHash].cAddr = accounts[b].wallet
               /\ deployedFor[accounts[b].wallet] = b
    BY <1>1, <2>3, <2>4, <2>6 DEF Shown, ApprovedEnded, ApprovedIsRecorded
  <2>7. ApprovedEnded' /\ ApprovedIsRecorded'
    BY <1>2, <1>7, <1>10, <2>2, <2>6 DEF ApprovedEnded, ApprovedIsRecorded
  <2>8. QED
    BY <2>5, <2>7 DEF Shown
<1>15. QED
  BY <1>11, <1>13, <1>14

\* The approved path sends attest_bbs: from here on it is on its way.
LEMMA AttestSentPortal ==
    ASSUME PortalInv, NEW r \in RunId, AttestSent(r)
    PROVE  PortalInv'
<1> USE DEF PortalInv
<1>1. /\ runner' = [runner EXCEPT ![r] = [runner[r] EXCEPT !.at = "submitted"]]
      /\ inFlight' = inFlight \cup {r} /\ runner[r].at = "pipeline"
      /\ UNCHANGED <<registryVars, accounts, requests, deployedFor, recorded>>
  BY DEF AttestSent
<1>2. /\ runner' \in [RunId -> RunnerState]
      /\ \A s \in RunId : /\ runner'[s].cAddr = runner[s].cAddr
                          /\ s # r => runner'[s] = runner[s]
      /\ runner'[r].at = "submitted"
  BY <1>1 DEF TypeOK, RunnerState
<1>3. TypeOK'
  BY <1>1, <1>2 DEF TypeOK, registryVars, streamVars, RegistryTypeOK
<1>4. Linked'
  BY <1>1, <1>2
     DEF Linked, UnstartedClean, RunnersStarted, ReadingOwned, WalletsOwned, SubjectsKept,
         SubmittedLanded, Started, registryVars
<1>5. Shown'
  BY <1>1, <1>2 DEF Shown, ApprovedEnded, ApprovedIsRecorded, RecordsForKeptWallets
<1>6. QED
  BY <1>3, <1>4, <1>5

\* It lands, for the wallet its run works for, which the account still keeps.
LEMMA AttestLandsPortal ==
    ASSUME PortalInv, NEW r \in RunId, AttestLands(r)
    PROVE  PortalInv'
<1> USE DEF PortalInv
<1>1. /\ r \in inFlight /\ inFlight' = inFlight \ {r}
      /\ recorded' = recorded \cup {runner[r].cAddr}
      /\ UNCHANGED <<registryVars, accounts, requests, runner, deployedFor>>
  BY DEF AttestLands
<1>2. /\ runs[r].account \in Account /\ runner[r].cAddr \in Wallet
      /\ accounts[runs[r].account].wallet = runner[r].cAddr
  BY <1>1, AtWork DEF Linked, SubjectsKept, TypeOK, RunnerState
<1>3. deployedFor[runner[r].cAddr] = runs[r].account
  BY <1>2, PortalAssumption DEF Linked, WalletsOwned
<1>4. TypeOK'
  BY <1>1, <1>2 DEF TypeOK, registryVars, streamVars, RegistryTypeOK
<1>5. Linked'
  BY <1>1
     DEF Linked, UnstartedClean, RunnersStarted, ReadingOwned, WalletsOwned, SubjectsKept,
         SubmittedLanded, Started, registryVars
<1>6. Shown'
  BY <1>1, <1>2, <1>3, RegistryAssumption
     DEF Shown, ApprovedEnded, ApprovedIsRecorded, RecordsForKeptWallets
<1>7. QED
  BY <1>4, <1>5, <1>6

\* It is refused or never included: a runner that still polls for it throws.
LEMMA AttestLostPortal ==
    ASSUME PortalInv, NEW r \in RunId, AttestLost(r)
    PROVE  PortalInv'
<1> USE DEF PortalInv
<1>1. /\ r \in inFlight /\ inFlight' = inFlight \ {r}
      /\ \/ runner[r].at = "submitted" /\ RunnerThrows(r) /\ EndRunner(r)
         \/ runner[r].at # "submitted" /\ UNCHANGED <<registryVars, runner>>
      /\ UNCHANGED <<accounts, requests, deployedFor, recorded>>
  BY DEF AttestLost
<1>2. RegistryTypeOK' /\ UnstartedClean' /\ RunsGoOn
  BY <1>1, RegistryFrame DEF TypeOK, Linked
<1>3. /\ runner' \in [RunId -> RunnerState]
      /\ \A s \in RunId : /\ runner'[s].cAddr = runner[s].cAddr
                          /\ runner'[s].at = runner[s].at \/ (s = r /\ runner'[s].at = "ended")
      /\ runner'[r].at # "submitted"
  <2>1. CASE runner[r].at # "submitted" /\ UNCHANGED <<registryVars, runner>>
    BY <2>1 DEF TypeOK
  <2>2. CASE EndRunner(r)
    BY <2>2 DEF EndRunner, TypeOK, RunnerState
  <2>3. QED
    BY <1>1, <2>1, <2>2
<1>4. Started(r)
  BY <1>1, AtWork
<1>5. TypeOK'
  BY <1>1, <1>2, <1>3 DEF TypeOK
<1>6. Linked'
  BY <1>1, <1>2, <1>3, <1>4
     DEF Linked, RunnersStarted, ReadingOwned, WalletsOwned, SubjectsKept, SubmittedLanded,
         RunsGoOn, Started
<1>7. Shown'
  BY <1>1, <1>3 DEF Shown, ApprovedEnded, ApprovedIsRecorded, RecordsForKeptWallets
<1>8. QED
  BY <1>5, <1>6, <1>7

\* onComplete writes the verdict of a run, in time or late.
LEMMA VerdictPortal ==
    ASSUME PortalInv, NEW r \in RunId, RunApproves(r) \/ RunRejects(r)
    PROVE  PortalInv'
<1> USE DEF PortalInv
<1>1. runner[r].at \in {"pipeline", "submitted"} /\ RunnerReturns(r) /\ EndRunner(r)
      /\ UNCHANGED <<requests, deployedFor, inFlight, recorded>>
  BY DEF RunApproves, RunRejects
<1> DEFINE a == runs[r].account
<1>2. /\ Started(r) /\ a \in Account /\ accounts[a].wallet = runner[r].cAddr
      /\ accounts[a].wallet # NoWallet
  BY <1>1, AtWork DEF Linked, SubjectsKept
<1>3. PICK kyc \in Kyc :
          /\ accounts' = accounts \/ accounts' = [accounts EXCEPT ![a] =
                                                    [accounts[a] EXCEPT !.kyc = kyc]]
          /\ kyc.status = "approved" => kyc.txHash = r /\ runner[r].cAddr \in recorded
  <2>1. CASE RunApproves(r)
    <3>1. [status |-> "approved", txHash |-> r] \in Kyc
      BY DEF Kyc
    <3>2. runner[r].cAddr \in recorded
      BY <2>1 DEF RunApproves, Linked, SubmittedLanded
    <3>3. accounts' = accounts \/ accounts' = [accounts EXCEPT ![a] =
             [accounts[a] EXCEPT !.kyc = [status |-> "approved", txHash |-> r]]]
      BY <1>2, <2>1 DEF RunApproves, WriteVerdict, TypeOK
    <3>4. QED
      BY <3>1, <3>2, <3>3
  <2>2. CASE RunRejects(r)
    <3>1. [status |-> "rejected", txHash |-> NoTx] \in Kyc
      BY DEF Kyc
    <3>2. accounts' = accounts \/ accounts' = [accounts EXCEPT ![a] =
             [accounts[a] EXCEPT !.kyc = [status |-> "rejected", txHash |-> NoTx]]]
      BY <1>2, <2>2 DEF RunRejects, WriteVerdict, TypeOK
    <3>3. QED
      BY <3>1, <3>2
  <2>3. QED
    BY <2>1, <2>2
<1>4. RegistryTypeOK' /\ UnstartedClean' /\ RunsGoOn
  BY <1>1, RegistryFrame DEF TypeOK, Linked
<1> HIDE DEF a
<1>5. /\ runner' \in [RunId -> RunnerState]
      /\ \A s \in RunId : /\ runner'[s].cAddr = runner[s].cAddr
                          /\ s # r => runner'[s] = runner[s]
      /\ runner'[r].at = "ended"
  BY <1>1 DEF EndRunner, TypeOK, RunnerState
<1>6. /\ accounts' \in [Account -> AccountRecord]
      /\ \A b \in Account : /\ accounts'[b].wallet = accounts[b].wallet
                            /\ accounts'[b].kyc = accounts[b].kyc
                                 \/ (b = a /\ accounts'[b].kyc = kyc)
  <2>1. accounts \in [Account -> AccountRecord]
    BY DEF TypeOK
  <2>2. CASE accounts' = accounts
    BY <2>1, <2>2
  <2>3. CASE accounts' = [accounts EXCEPT ![a] = [accounts[a] EXCEPT !.kyc = kyc]]
    BY <1>2, <1>3, <2>1, <2>3 DEF AccountRecord
  <2>4. QED
    BY <1>3, <2>2, <2>3
<1>7. TypeOK'
  BY <1>1, <1>4, <1>5, <1>6 DEF TypeOK
<1>8. Linked'
  <2>1. RunnersStarted' /\ ReadingOwned' /\ WalletsOwned' /\ SubmittedLanded'
    BY <1>1, <1>2, <1>4, <1>5, <1>6
       DEF Linked, RunnersStarted, ReadingOwned, WalletsOwned, SubmittedLanded, RunsGoOn, Started
  <2>2. SubjectsKept'
    <3>1. \A s \in RunId : runner[s].at \in {"pipeline", "submitted"} \/ s \in inFlight =>
            runs[s].account \in Account
      BY AtWork
    <3>2. \A s \in RunId : runner'[s].at \in {"pipeline", "submitted"} \/ s \in inFlight' =>
            runner[s].at \in {"pipeline", "submitted"} \/ s \in inFlight
      BY <1>1, <1>5
    <3>3. QED
      BY <1>4, <1>5, <1>6, <3>1, <3>2 DEF Linked, SubjectsKept, RunsGoOn
  <2>3. QED
    BY <1>4, <2>1, <2>2 DEF Linked
<1>9. Shown'
  <2>1. ASSUME NEW b \in Account, accounts'[b].kyc.status = "approved"
        PROVE  /\ accounts'[b].kyc.txHash # NoTx /\ accounts'[b].kyc.txHash \in RunId
               /\ runner'[accounts'[b].kyc.txHash].at = "ended"
               /\ accounts[b].wallet \in recorded
               /\ runner[accounts'[b].kyc.txHash].cAddr = accounts[b].wallet
               /\ deployedFor[accounts[b].wallet] = b
    <3>1. CASE accounts'[b].kyc = accounts[b].kyc
      BY <1>5, <2>1, <3>1 DEF Shown, ApprovedEnded, ApprovedIsRecorded
    <3>2. CASE b = a /\ accounts'[b].kyc = kyc
      BY <1>2, <1>3, <1>5, <2>1, <3>2, PortalAssumption DEF Linked, WalletsOwned
    <3>3. QED
      BY <1>6, <3>1, <3>2
  <2>2. \A v \in recorded : deployedFor[v] \in Account
    BY DEF Shown, RecordsForKeptWallets, TypeOK
  <2>3. QED
    BY <1>1, <1>5, <1>6, <2>1, <2>2
       DEF Shown, ApprovedEnded, ApprovedIsRecorded, RecordsForKeptWallets
<1>10. QED
  BY <1>7, <1>8, <1>9

\* The process dies: the file and the chain keep what they hold.
LEMMA RestartPortal ==
    ASSUME PortalInv, Restart
    PROVE  PortalInv'
<1> USE DEF PortalInv
<1>1. RegistryTypeOK' /\ UnstartedClean' /\ RunsGoOn
  BY RestartFrame DEF TypeOK, Linked, Restart
<1>2. /\ requests' = [q \in Request |-> IF requests[q].at = "reading" THEN Forgotten
                                        ELSE requests[q]]
      /\ runner' = [r \in RunId |-> IF runner[r].at = "idle" THEN runner[r]
                                    ELSE [runner[r] EXCEPT !.at = "ended"]]
      /\ UNCHANGED <<accounts, deployedFor, inFlight, recorded>>
  BY DEF Restart
<1>3. /\ runner' \in [RunId -> RunnerState]
      /\ \A s \in RunId : /\ runner'[s].cAddr = runner[s].cAddr
                          /\ runner'[s].at \in {"idle", "ended"}
                          /\ runner'[s].at = "idle" <=> runner[s].at = "idle"
  BY <1>2 DEF TypeOK, RunnerState
<1>4. requests' \in [Request -> RequestState] /\ ReadingOwned'
  BY <1>2 DEF TypeOK, RequestState, Forgotten, NoKyc, Kyc, ReadingOwned
<1>5. TypeOK'
  BY <1>1, <1>2, <1>3, <1>4 DEF TypeOK
<1>6. Linked'
  BY <1>1, <1>2, <1>3, <1>4
     DEF Linked, RunnersStarted, WalletsOwned, SubjectsKept, SubmittedLanded, RunsGoOn, Started
<1>7. Shown'
  BY <1>2, <1>3 DEF Shown, ApprovedEnded, ApprovedIsRecorded, RecordsForKeptWallets
<1>8. QED
  BY <1>5, <1>6, <1>7

\* A throw, the timer and the eviction move nothing but the run and its runner.
LEMMA RunEndsPortal ==
    ASSUME PortalInv, NEW r \in RunId, RunFails(r) \/ RunTimesOut(r) \/ RunEvicted(r)
    PROVE  PortalInv'
<1>1. RegistryTypeOK' /\ UnstartedClean' /\ RunsGoOn
  BY RegistryFrame DEF PortalInv, TypeOK, Linked, RunFails, RunTimesOut, RunEvicted
<1>2. Started(r)
  <2>1. CASE RunFails(r)
    BY <2>1 DEF RunFails, RunnerThrows
  <2>2. CASE RunTimesOut(r)
    BY <2>2 DEF RunTimesOut, TimesOut
  <2>3. CASE RunEvicted(r)
    BY <2>3 DEF RunEvicted, Evict, PortalInv, Linked, UnstartedClean, Unstarted
  <2>4. QED
    BY <2>1, <2>2, <2>3
<1>3. QED
  BY <1>1, <1>2, RunnerMoves DEF RunFails, RunTimesOut, RunEvicted, portalVars

\* Every callback of the portal keeps the accounts, the runners and the chain linked.
LEMMA StepPortal == PortalInv /\ [Next]_vars => PortalInv'
<1> SUFFICES ASSUME PortalInv, [Next]_vars PROVE PortalInv'
  OBVIOUS
<1>1. ASSUME NEW a \in Account, KycStart(a) PROVE PortalInv'
  BY <1>1, KycStartPortal
<1>2. ASSUME NEW q \in Request, (\E a \in Account : SubmitArrives(q, a)) \/ SubmitRefused(q)
      PROVE  PortalInv'
  BY <1>2, RequestPortal
<1>3. ASSUME NEW q \in Request, NEW r \in RunId, NEW s \in {"approved", "rejected"},
             SubmitStarts(q, r, s)
      PROVE  PortalInv'
  BY <1>3, SubmitStartsPortal
<1>4. ASSUME NEW r \in RunId, RunStep(r) PROVE PortalInv'
  BY <1>4, RunEndsPortal, DeployPortal, AttestSentPortal, AttestLandsPortal, AttestLostPortal,
     VerdictPortal DEF RunStep
<1>5. CASE Restart
  BY <1>5, RestartPortal
<1>6. CASE UNCHANGED vars
  BY <1>6
     DEF vars, portalVars, registryVars, streamVars, PortalInv, TypeOK, RegistryTypeOK, Linked,
         UnstartedClean, RunnersStarted, ReadingOwned, WalletsOwned, SubjectsKept,
         SubmittedLanded, Started, Shown, ApprovedEnded, ApprovedIsRecorded, RecordsForKeptWallets
<1>7. QED
  BY <1>1, <1>2, <1>3, <1>4, <1>5, <1>6 DEF Next

\* The invariant behind the account file and the chain holds in every state.
LEMMA PortalInvariant == Spec => []PortalInv
BY InitPortal, StepPortal, PTL DEF Spec

\* An account shown as verified (portal-api.ts, onComplete) has a claim record on
\* chain for its own wallet, written by the transaction it shows, although a run may
\* answer after its timeout, overlap with another one or lose its process.
THEOREM VerifiedAccountsAreRecorded == Spec => []AccountsSound
<1>1. PortalInv => AccountsSound
  BY DEF PortalInv, Shown, AccountsSound
<1>2. QED
  BY <1>1, PortalInvariant, PTL

\* No claim is attested for a wallet nothing points at: the run re-reads its account
\* after the deployment and adopts the wallet it finds.
THEOREM RecordsOnlyForKeptWallets == Spec => []RecordsForKeptWallets
<1>1. PortalInv => RecordsForKeptWallets
  BY DEF PortalInv, Shown
<1>2. QED
  BY <1>1, PortalInvariant, PTL

-----------------------------------------------------------------------------
(* The stored wallet and the bounds on runs.                               *)

\* A step replaces no stored wallet.
LEMMA StepKeepsWallets ==
    ASSUME PortalInv, [Next]_vars, NEW b \in Account, accounts[b].wallet # NoWallet
    PROVE  accounts'[b].wallet = accounts[b].wallet
<1>1. accounts \in [Account -> AccountRecord] /\ \A r \in RunId : runs[r] \in RunState
  BY DEF PortalInv, TypeOK, RegistryTypeOK
<1>2. ASSUME NEW a \in Account, KycStart(a) PROVE accounts'[b].wallet = accounts[b].wallet
  BY <1>1, <1>2 DEF KycStart, AccountRecord
<1>3. ASSUME NEW q \in Request, NEW r \in RunId, NEW s \in {"approved", "rejected"},
             SubmitStarts(q, r, s)
      PROVE  accounts'[b].wallet = accounts[b].wallet
  BY <1>1, <1>3 DEF SubmitStarts, AccountRecord
<1>4. ASSUME NEW r \in RunId, NEW w \in Wallet, WalletDeployed(r, w)
      PROVE  accounts'[b].wallet = accounts[b].wallet
  BY <1>1, <1>4 DEF WalletDeployed, AccountRecord
<1>5. ASSUME NEW r \in RunId, RunApproves(r) \/ RunRejects(r)
      PROVE  accounts'[b].wallet = accounts[b].wallet
  <2>1. PICK kyc : WriteVerdict(r, kyc)
    BY <1>5 DEF RunApproves, RunRejects
  <2>2. accounts' = accounts \/ accounts' = [accounts EXCEPT ![runs[r].account] =
          [accounts[runs[r].account] EXCEPT !.kyc = kyc]]
    BY <2>1 DEF WriteVerdict
  <2>3. QED
    BY <1>1, <2>2 DEF AccountRecord
<1>6. CASE UNCHANGED accounts
  BY <1>6
<1>7. QED
  BY <1>2, <1>3, <1>4, <1>5, <1>6
     DEF Next, RunStep, SubmitArrives, SubmitRefused, RunFails, WalletOrphaned, AttestSent,
         AttestLands, AttestLost, RunTimesOut, RunEvicted, Restart, vars, portalVars

\* The wallet an account stored never changes (kyc/submit, the read after the
\* deployment), whatever runs overlap.
THEOREM StoredWalletsStay == Spec => WalletFixed
<1>1. PortalInv /\ [Next]_vars =>
        [\A a \in Account :
           accounts[a].wallet # NoWallet => accounts'[a].wallet = accounts[a].wallet]_vars
  BY StepKeepsWallets
<1>2. QED
  BY <1>1, PortalInvariant, PTL DEF Spec, WalletFixed

\* kyc/submit: the checks and the start in one callback let one run in.
LEMMA StartBounded ==
    ASSUME PortalInv, ActiveInv, NEW q \in Request, NEW r \in RunId,
           NEW s \in {"approved", "rejected"}, SubmitStarts(q, r, s)
    PROVE  ActiveInv'
<1> DEFINE a == requests[q].account
<1>1. /\ a \in Account /\ StartRun(r, a) /\ ActiveRuns(a) = {}
      /\ Cardinality(Running) < MaxActiveRuns
  BY DEF SubmitStarts, ActiveCount, Running, PortalInv, Linked, ReadingOwned
<1>2. /\ \A t \in RunId \ {r} : runs'[t] = runs[t]
      /\ runs'[r].account = a /\ runs'[r].kept /\ ~runs'[r].done
  BY <1>1, StartEffect DEF PortalInv, TypeOK, Linked
<1>3. r \notin Running
  BY <1>1 DEF StartRun, PortalInv, Linked, UnstartedClean, Unstarted, Running, Active
<1>4. Running' = Running \cup {r}
  BY <1>2 DEF Running, Active
<1>5. IsFiniteSet(Running') /\ Cardinality(Running') = Cardinality(Running) + 1
  BY <1>3, <1>4, FS_AddElement DEF ActiveInv
<1>6. Cardinality(Running) \in Nat
  BY FS_CardinalityType DEF ActiveInv
<1>7. \A t, u \in Running' : runs'[t].account = runs'[u].account => t = u
  <2>1. \A t \in Running : runs[t].account # a
    BY <1>1 DEF Running, ActiveRuns
  <2>2. \A t \in Running : runs'[t] = runs[t]
    BY <1>2, <1>3 DEF Running
  <2>3. QED
    BY <1>2, <1>4, <2>1, <2>2 DEF ActiveInv
<1>8. QED
  BY <1>1, <1>5, <1>6, <1>7, PortalAssumption DEF ActiveInv

\* Nothing else makes a run active.
LEMMA OthersBounded ==
    ASSUME ActiveInv, RunsGoOn
    PROVE  ActiveInv'
<1>1. Running' \subseteq Running
  BY DEF Running, RunsGoOn, Active
<1>2. IsFiniteSet(Running') /\ Cardinality(Running') <= Cardinality(Running)
  BY <1>1, FS_Subset DEF ActiveInv
<1>3. Cardinality(Running) \in Nat /\ Cardinality(Running') \in Nat
  BY <1>2, FS_CardinalityType DEF ActiveInv
<1>4. \A t, u \in Running' : runs'[t].account = runs'[u].account => t = u
  BY <1>1 DEF ActiveInv, RunsGoOn, Running
<1>5. QED
  BY <1>2, <1>3, <1>4, PortalAssumption DEF ActiveInv

\* Every callback keeps the active runs within their bounds.
LEMMA StepBounded == PortalInv /\ ActiveInv /\ [Next]_vars => ActiveInv'
<1> SUFFICES ASSUME PortalInv, ActiveInv, [Next]_vars PROVE ActiveInv'
  OBVIOUS
<1>1. ASSUME NEW q \in Request, NEW r \in RunId, NEW s \in {"approved", "rejected"},
             SubmitStarts(q, r, s)
      PROVE  ActiveInv'
  BY <1>1, StartBounded
<1>2. ASSUME NEW r \in RunId, RunStep(r) PROVE ActiveInv'
  <2>1. RunnerReturns(r) \/ RunnerThrows(r) \/ TimesOut(r) \/ Evict(r) \/ UNCHANGED registryVars
    BY <1>2 DEF RunStep, RunFails, WalletDeployed, WalletOrphaned, AttestSent, AttestLands,
                AttestLost, RunApproves, RunRejects, RunTimesOut, RunEvicted
  <2>2. RunsGoOn
    BY <2>1, RegistryFrame DEF PortalInv, TypeOK, Linked
  <2>3. QED
    BY <2>2, OthersBounded
<1>3. CASE Restart
  BY <1>3, RestartFrame, OthersBounded DEF PortalInv, TypeOK, Linked, Restart
<1>4. CASE UNCHANGED registryVars
  BY <1>4, OthersBounded DEF registryVars, RunsGoOn, Active
<1>5. QED
  BY <1>1, <1>2, <1>3, <1>4 DEF Next, KycStart, SubmitArrives, SubmitRefused, vars

\* What the invariant says of the counts the routes make.
LEMMA BoundsFollow == PortalInv /\ ActiveInv => RunsBounded
<1> SUFFICES ASSUME PortalInv, ActiveInv PROVE RunsBounded
  OBVIOUS
<1>1. ActiveCount <= MaxActiveRuns
  BY DEF ActiveInv, Running, ActiveCount
<1>2. ASSUME NEW a \in Account PROVE Cardinality(ActiveRuns(a)) <= 1
  <2>1. CASE ActiveRuns(a) = {}
    BY <2>1, FS_EmptySet
  <2>2. CASE ActiveRuns(a) # {}
    <3>1. PICK r : r \in ActiveRuns(a)
      BY <2>2
    <3>2. ActiveRuns(a) = {r}
      BY <3>1 DEF ActiveRuns, ActiveInv, Running
    <3>3. Cardinality({r}) = 1
      BY FS_Singleton
    <3>4. QED
      BY <3>2, <3>3
  <2>3. QED
    BY <2>1, <2>2
<1>3. QED
  BY <1>1, <1>2 DEF RunsBounded

\* One open run for an account and at most maxActiveRuns in all (kyc/submit's 409
\* and 503), although both are decided after the handler's await.
THEOREM ActiveRunsAreBounded == Spec => []RunsBounded
<1>1. Init => ActiveInv
  BY InitPortal
<1>2. Init /\ []PortalInv /\ [][Next]_vars => []ActiveInv
  BY <1>1, StepBounded, PTL
<1>3. QED
  BY <1>2, BoundsFollow, PortalInvariant, PTL DEF Spec
=============================================================================

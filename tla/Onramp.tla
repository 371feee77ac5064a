------------------------------- MODULE Onramp -------------------------------
(***************************************************************************)
(* The on-ramp purchase over the run registry: onramp/start, the runner    *)
(* (gate check, funding key and account, the anchor's SEP-10, 12, 38 and 6 *)
(* steps, the bank transfer, the wait for the payout), its completion, and *)
(* the funding key file, across timeouts, failed calls and restarts.       *)
(*                                                                         *)
(* The chain is what kyc-gate.check reads and which funding accounts exist;*)
(* the anchor is the state of the deposit each run opened.  Amounts, rates *)
(* and the texts of the steps are left out.  Any await may throw.          *)
(***************************************************************************)
EXTENDS RunRegistry, FiniteSets

CONSTANTS
    Key,                \* funding keypairs, each drawn once by Keypair.random
    NoKey,
    Request,            \* onramp/start requests, each handled once
    WriteFaults         \* whether writing funding-keys.json may throw

ASSUME OnrampAssumption ==
    /\ NoKey \notin Key
    /\ WriteFaults \in BOOLEAN

VARIABLES
    approved,           \* accounts the portal holds as verified, with a wallet
    gate,               \* accounts for whose wallet check(OVER_18) reads true
    requests,           \* start requests waiting for their body
    keys,               \* JsonFileFundingKeyStore.#keys
    keysFile,           \* funding-keys.json
    ledger,             \* what the chain has of each funding account
    runner,             \* where each run's runner stands
    deposits,           \* the anchor's deposits, named by the run that opened them
    records,            \* fundingAccount and onramp of each account record
    allowed,            \* history: runs during which the gate read true
    unsaved             \* history: keys whose write failed

anchorVars == <<ledger, deposits>>
history == <<allowed, unsaved>>
onrampVars == <<approved, gate, requests, keys, keysFile, anchorVars, runner, records, allowed,
                unsaved>>
vars == <<registryVars, onrampVars>>

Stages == {"idle", "gate", "funding", "anchor", "deposit", "bank", "waiting", "balance", "ended"}

RunnerState == [at : Stages, key : Key \cup {NoKey}, paid : BOOLEAN]

Deposit == [key : Key \cup {NoKey},
            status : {"none", "open", "received", "completed", "refunded"}]

Purchase == [fundingAccount : Key \cup {NoKey}, onramp : RunId \cup {NoRun}]

RequestState == [at : {"new", "reading", "answered"}, account : Account \cup {NoAccount},
                 approved : BOOLEAN]

TypeOK ==
    /\ RegistryTypeOK
    /\ approved \subseteq Account
    /\ gate \subseteq Account
    /\ requests \in [Request -> RequestState]
    /\ keys \in [Account -> Key \cup {NoKey}]
    /\ keysFile \in [Account -> Key \cup {NoKey}]
    /\ ledger \in [Key -> {"absent", "created", "trusted"}]
    /\ runner \in [RunId -> RunnerState]
    /\ deposits \in [RunId -> Deposit]
    /\ records \in [Account -> Purchase]
    /\ allowed \subseteq RunId
    /\ unsaved \subseteq Key

Idle == [at |-> "idle", key |-> NoKey, paid |-> FALSE]
Ended == [Idle EXCEPT !.at = "ended"]

Init ==
    /\ RegistryInit
    /\ approved = {}
    /\ gate = {}
    /\ requests = [q \in Request |-> [at |-> "new", account |-> NoAccount, approved |-> FALSE]]
    /\ keys = [a \in Account |-> NoKey]
    /\ keysFile = [a \in Account |-> NoKey]
    /\ ledger = [k \in Key |-> "absent"]
    /\ runner = [r \in RunId |-> Idle]
    /\ deposits = [r \in RunId |-> [key |-> NoKey, status |-> "none"]]
    /\ records = [a \in Account |-> [fundingAccount |-> NoKey, onramp |-> NoRun]]
    /\ allowed = {}
    /\ unsaved = {}

-----------------------------------------------------------------------------
Toggled(S, a) == IF a \in S THEN S \ {a} ELSE S \cup {a}

\* The KYC routes change what the account record says (PortalKyc).
KycVerdict(a) ==
    /\ approved' = Toggled(approved, a)
    /\ UNCHANGED <<registryVars, gate, requests, keys, keysFile, anchorVars, runner, records,
                   history>>

\* A claim record is written, revoked or expires (KycChain).
GateChanges(a) ==
    /\ gate' = Toggled(gate, a)
    /\ allowed' = IF a \in gate THEN allowed
                  ELSE allowed \cup {r \in RunId : runs[r].account = a /\ ~runs[r].settled}
    /\ UNCHANGED <<registryVars, approved, requests, keys, keysFile, anchorVars, runner,
                   records, unsaved>>

\* POST onramp/start up to its await: the account is read before the body is.
StartArrives(q, a) ==
    /\ requests[q].at = "new"
    /\ requests' = [requests EXCEPT ![q] = [at |-> "reading", account |-> a,
                                            approved |-> a \in approved]]
    /\ UNCHANGED <<registryVars, approved, gate, keys, keysFile, anchorVars, runner, records,
                   history>>

Answer(q) == requests' = [requests EXCEPT ![q] = [at |-> "answered", account |-> NoAccount,
                                                  approved |-> FALSE]]

\* 400 for the amount, 503, 409 not_verified or 409 run_in_progress.
StartRefused(q) ==
    /\ requests[q].at = "reading"
    /\ Answer(q)
    /\ UNCHANGED <<registryVars, approved, gate, keys, keysFile, anchorVars, runner, records,
                   history>>

\* The run starts for the account as it was read before the await.
StartPurchase(q, r) ==
    LET a == requests[q].account
    IN  /\ requests[q].at = "reading"
        /\ requests[q].approved
        /\ ActiveRuns(a) = {}
        /\ StartRun(r, a)
        /\ runner' = [runner EXCEPT ![r].at = "gate"]
        /\ allowed' = IF a \in gate THEN allowed \cup {r} ELSE allowed
        /\ Answer(q)
        /\ UNCHANGED <<approved, gate, keys, keysFile, anchorVars, records, unsaved>>

-----------------------------------------------------------------------------
At(r, stage) == runner[r].at = stage /\ ~runs[r].settled
Moves(r, stage) == runner' = [runner EXCEPT ![r].at = stage]
Owner(r) == runs[r].account

UnusedKeys == {k \in Key : /\ \A a \in Account : keys[a] # k /\ keysFile[a] # k
                           /\ ledger[k] = "absent"
                           /\ \A r \in RunId : runner[r].key # k}

\* Mutant: a key drawn in an earlier life of the server is not looked for.
GetOrCreateAnew(a, k) ==
    /\ k \in UnusedKeys
    /\ keys' = [keys EXCEPT ![a] = k]
    /\ keysFile' = keys'

\* getOrCreate(a) returns k: the one in memory, or a new one, written.
GetOrCreate(a, k) ==
    \/ /\ k = keys[a]
       /\ UNCHANGED <<keys, keysFile>>
    \/ /\ keys[a] = NoKey
       /\ k \in UnusedKeys
       /\ keys' = [keys EXCEPT ![a] = k]
       /\ keysFile' = keys'

\* Mutant: the portal's own verdict is taken for the gate's.
GateAllowsUnread(r, k) ==
    /\ At(r, "gate")
    /\ k # NoKey
    /\ GetOrCreate(Owner(r), k)
    /\ runner' = [runner EXCEPT ![r] = [@ EXCEPT !.at = "funding", !.key = k]]
    /\ UNCHANGED <<registryVars, approved, gate, requests, anchorVars, records, history>>

\* Step 1 and the start of step 2: the gate reads true, the key is there.
GateAllows(r, k) ==
    /\ At(r, "gate")
    /\ Owner(r) \in gate
    /\ k # NoKey
    /\ GetOrCreate(Owner(r), k)
    /\ runner' = [runner EXCEPT ![r] = [@ EXCEPT !.at = "funding", !.key = k]]
    /\ UNCHANGED <<registryVars, approved, gate, requests, anchorVars, records, history>>

\* getOrCreate throws at its write: the key is in memory and nowhere else.
KeyWriteFails(r, k) ==
    /\ WriteFaults
    /\ At(r, "gate")
    /\ Owner(r) \in gate
    /\ keys[Owner(r)] = NoKey
    /\ k \in UnusedKeys
    /\ keys' = [keys EXCEPT ![Owner(r)] = k]
    /\ unsaved' = unsaved \cup {k}
    /\ RunnerThrows(r)
    /\ runner' = [runner EXCEPT ![r] = Ended]
    /\ UNCHANGED <<approved, gate, requests, keysFile, anchorVars, records, allowed>>

\* ensureFundingAccount: friendbot, then the trustline, each only when missing.  A
\* call of either may take effect and still throw (PurchaseThrows).
EnsureFundingAccount(r) ==
    LET k == runner[r].key
    IN  /\ At(r, "funding")
        /\ \/ ledger[k] = "absent"  /\ ledger' = [ledger EXCEPT ![k] = "created"]
                                    /\ UNCHANGED runner
           \/ ledger[k] = "created" /\ ledger' = [ledger EXCEPT ![k] = "trusted"]
                                    /\ UNCHANGED runner
           \/ ledger[k] = "trusted" /\ UNCHANGED ledger /\ Moves(r, "anchor")
        /\ UNCHANGED <<registryVars, approved, gate, requests, keys, keysFile, deposits,
                       records, history>>

\* Steps 3 to 5: the challenge must be the anchor's and for this account, the customer
\* is registered, the quote parsed.
AnchorSession(r, challenged) ==
    /\ At(r, "anchor")
    /\ challenged = runner[r].key
    /\ Moves(r, "deposit")
    /\ UNCHANGED <<registryVars, approved, gate, requests, keys, keysFile, anchorVars, records,
                   history>>

\* Step 6 reaches the anchor; its answer may still be lost.
OpenDeposit(r) ==
    /\ At(r, "deposit")
    /\ deposits' = [deposits EXCEPT ![r] = [key |-> runner[r].key, status |-> "open"]]
    /\ Moves(r, "bank")
    /\ UNCHANGED <<registryVars, approved, gate, requests, keys, keysFile, ledger, records,
                   history>>

\* Step 7.
BankTransfer(r) ==
    /\ At(r, "bank")
    /\ deposits' = [deposits EXCEPT ![r].status = "received"]
    /\ Moves(r, "waiting")
    /\ UNCHANGED <<registryVars, approved, gate, requests, keys, keysFile, ledger, records,
                   history>>

\* The anchor pays out, or gives the money back.
AnchorSettles(r, status) ==
    /\ deposits[r].status = "received"
    /\ deposits' = [deposits EXCEPT ![r].status = status]
    /\ UNCHANGED <<registryVars, approved, gate, requests, keys, keysFile, ledger, runner,
                   records, history>>

\* Mutant: what is returned at the deadline names a payment.
WaitForDepositHopeful(r) ==
    /\ At(r, "waiting")
    /\ deposits[r].status # "refunded"
    /\ runner' = [runner EXCEPT ![r] = [@ EXCEPT !.at = "balance", !.paid = TRUE]]
    /\ UNCHANGED <<registryVars, approved, gate, requests, keys, keysFile, anchorVars, records,
                   history>>

\* waitForDeposit returns: a poll saw the payout, or the deadline passed after polls
\* that did not.  The hash is read from the last poll either way; the anchor is taken
\* to name one only when it has paid.
WaitForDeposit(r) ==
    /\ At(r, "waiting")
    /\ \E paid \in BOOLEAN :
         /\ paid => deposits[r].status = "completed"
         /\ runner' = [runner EXCEPT ![r] = [@ EXCEPT !.at = "balance", !.paid = paid]]
    /\ UNCHANGED <<registryVars, approved, gate, requests, keys, keysFile, anchorVars, records,
                   history>>

\* onComplete with a result, in time or late.
Recorded(a, r) ==
    records' = [records EXCEPT ![a] =
                  [fundingAccount |-> runner[r].key,
                   onramp |-> IF runner[r].paid THEN r ELSE records[a].onramp]]

\* The balance is read and the runner returns.
PurchaseReturns(r) ==
    /\ At(r, "balance")
    /\ RunnerReturns(r)
    /\ Recorded(Owner(r), r)
    /\ runner' = [runner EXCEPT ![r] = Ended]
    /\ UNCHANGED <<approved, gate, requests, keys, keysFile, anchorVars, history>>

\* The gate refuses, a call of the anchor, friendbot or Horizon fails or times out, a
\* response lacks a field, the deposit ended refunded, or the balance cannot be read.
PurchaseThrows(r) ==
    /\ runner[r].at \notin {"idle", "ended"}
    /\ RunnerThrows(r)
    /\ runner' = [runner EXCEPT ![r] = Ended]
    /\ UNCHANGED <<approved, gate, requests, keys, keysFile, anchorVars, records, history>>

\* The registry gives the run up while its runner goes on, and forgets it later.
PurchaseTimesOut(r) ==
    /\ TimesOut(r) \/ Evict(r)
    /\ UNCHANGED onrampVars

\* The server restarts: its runs and requests are gone, the key file is read again.
Restart ==
    /\ runs' = [r \in RunId |-> IF Started(r)
                                THEN [runs[r] EXCEPT !.done = TRUE, !.kept = FALSE, !.settled = TRUE]
                                ELSE runs[r]]
    /\ runner' = [r \in RunId |-> IF Started(r) THEN Ended ELSE runner[r]]
    /\ requests' = [q \in Request |-> IF requests[q].at = "reading"
                                      THEN [at |-> "answered", account |-> NoAccount,
                                            approved |-> FALSE]
                                      ELSE requests[q]]
    /\ keys' = keysFile
    /\ UNCHANGED <<completions, streamVars, approved, gate, keysFile, anchorVars, records,
                   history>>

Next ==
    \/ \E a \in Account : KycVerdict(a) \/ GateChanges(a)
    \/ \E q \in Request :
         \/ \E a \in Account : StartArrives(q, a)
         \/ StartRefused(q)
         \/ \E r \in RunId : StartPurchase(q, r)
    \/ \E r \in RunId :
         \/ \E k \in Key : GateAllows(r, k) \/ KeyWriteFails(r, k) \/ AnchorSession(r, k)
         \/ EnsureFundingAccount(r)
         \/ OpenDeposit(r)
         \/ BankTransfer(r)
         \/ \E status \in {"completed", "refunded"} : AnchorSettles(r, status)
         \/ WaitForDeposit(r)
         \/ PurchaseReturns(r)
         \/ PurchaseThrows(r)
         \/ PurchaseTimesOut(r)
    \/ Restart

Spec == Init /\ [][Next]_vars

-----------------------------------------------------------------------------
\* "A purchase is recorded only once the anchor's payment is on chain": whatever run
\* ended late, pending or beside another, a recorded purchase is a deposit that was
\* paid, and to the funding account recorded with it unless that key was lost.
RecordedIsPaid ==
    \A a \in Account : records[a].onramp # NoRun =>
        LET paid == deposits[records[a].onramp]
        IN  /\ paid.status = "completed"
            /\ paid.key = records[a].fundingAccount \/ paid.key \in unsaved

\* The account file is well formed and shows purchases that were paid.
PurchasesSound == TypeOK /\ RecordedIsPaid

\* The secret of every funding account a deposit was opened for is on disk, under the
\* account that bought, whatever restarts came between (getOrCreate "generates and
\* persists one"); only a key whose own write failed can be missing.
KeyOfFundsKept ==
    \A r \in RunId : deposits[r].status # "none" =>
        keysFile[Owner(r)] = deposits[r].key \/ deposits[r].key \in unsaved

\* The approval read before the body is only a first check: no deposit is opened in a
\* run during which the gate never read true.
DepositsGated == \A r \in RunId : deposits[r].status # "none" => r \in allowed

-----------------------------------------------------------------------------
(* What the repository says and the code does not meet: README, section 6. *)

\* "Returns the existing keypair, or generates and persists one" (onramp.ts): the key
\* money goes to is on disk, failed writes or not.
KeyAlwaysPersisted ==
    \A r \in RunId : deposits[r].status # "none" => keysFile[Owner(r)] = deposits[r].key
=============================================================================

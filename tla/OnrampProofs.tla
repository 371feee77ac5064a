---------------------------- MODULE OnrampProofs ----------------------------
(***************************************************************************)
(* Proofs about the on-ramp purchase, for every number of accounts, runs,  *)
(* requests and keypairs, every order of the gate's changes, timeouts,     *)
(* failed calls, failed writes of the key file and restarts: a recorded    *)
(* purchase was paid, no deposit is opened past a gate that never read     *)
(* true, and the key of every deposit is on disk unless its write failed.  *)
(***************************************************************************)
EXTENDS Onramp, RunRegistryProofs

\* Where a runner is once step 1 is behind it, and once the anchor holds a deposit.
PastGate == {"funding", "anchor", "deposit", "bank", "waiting", "balance"}
PastDeposit == {"bank", "waiting", "balance"}

\* Only a started run has a runner or a deposit.
RunnersStarted ==
    \A r \in RunId : ~Started(r) => runner[r].at = "idle" /\ deposits[r].status = "none"

\* A handler that waits for its body knows its account.
ReadingOwned == \A q \in Request : requests[q].at = "reading" => requests[q].account \in Account

\* Memory and the key file hold the same key of an account, or memory holds one
\* whose write failed and the file holds none.
KeysAgree ==
    \A a \in Account : keys[a] # keysFile[a] => keysFile[a] = NoKey /\ keys[a] \in unsaved

\* Past the gate a run was allowed, and works with the key its account has in memory.
RunnerKeyed ==
    \A r \in RunId : runner[r].at \in PastGate =>
        r \in allowed /\ runner[r].key # NoKey /\ runner[r].key = keys[Owner(r)]

\* Past step 6 there is a deposit, for the runner's own key; what the runner takes for
\* paid is paid, and stays so.
RunnerDeposit ==
    \A r \in RunId :
        /\ runner[r].at \in PastDeposit =>
             deposits[r].status # "none" /\ deposits[r].key = runner[r].key
        /\ runner[r].paid => runner[r].at = "balance" /\ deposits[r].status = "completed"

\* An open run of an account the gate reads true for counts as allowed, whenever the
\* claim came.
GateSeen ==
    \A r \in RunId : Started(r) /\ ~runs[r].settled /\ Owner(r) \in gate => r \in allowed

\* A deposit is for a keypair; the run a record names belongs to the account and is over.
DepositsKeyed == \A r \in RunId : deposits[r].status # "none" => deposits[r].key # NoKey

RecordedEnded ==
    \A a \in Account : records[a].onramp # NoRun =>
        Owner(records[a].onramp) = a /\ runner[records[a].onramp].at = "ended"

Working == UnstartedClean /\ RunnersStarted /\ ReadingOwned /\ KeysAgree /\ RunnerKeyed
           /\ RunnerDeposit /\ GateSeen

Held == DepositsKeyed /\ RecordedEnded /\ RecordedIsPaid /\ DepositsGated /\ KeyOfFundsKept

OnrampInv == TypeOK /\ Working /\ Held

-----------------------------------------------------------------------------
(* What a step of one run leaves alone.                                    *)

\* A run whose runner is at work, or that has a deposit, belongs to an account.
LEMMA WorkingOwned ==
    ASSUME TypeOK, RunnersStarted, NEW r \in RunId,
           runner[r].at # "idle" \/ deposits[r].status # "none" \/ Started(r)
    PROVE  Started(r) /\ Owner(r) \in Account
BY DEF RunnersStarted, Started, Owner, TypeOK, RegistryTypeOK, RunState

\* The registry moves on by itself: what is held of every purchase is held still.
LEMMA RegistryOnramp ==
    ASSUME OnrampInv, RegistryTypeOK', UnstartedClean', RunsGoOn,
           UNCHANGED onrampVars
    PROVE  OnrampInv'
<1> USE DEF OnrampInv
<1>1. \A r \in RunId : /\ Owner(r)' = Owner(r)
                       /\ Started(r)' = Started(r)
                       /\ ~runs'[r].settled => ~runs[r].settled
  BY DEF RunsGoOn, Owner, Started
<1>2. UNCHANGED <<approved, gate, requests, keys, keysFile, ledger, deposits, runner, records,
                  allowed, unsaved>>
  BY DEF onrampVars, anchorVars
<1>3. TypeOK'
  BY <1>2 DEF TypeOK
<1>4. RunnersStarted' /\ RunnerKeyed' /\ GateSeen'
  BY <1>1, <1>2 DEF Working, RunnersStarted, RunnerKeyed, GateSeen
<1>5. ReadingOwned' /\ KeysAgree' /\ RunnerDeposit'
  BY <1>2 DEF Working, ReadingOwned, KeysAgree, RunnerDeposit
<1>6. RecordedEnded'
  <2>1. \A a \in Account : records[a].onramp # NoRun => records[a].onramp \in RunId
    BY DEF TypeOK, Purchase
  <2>2. QED
    BY <1>1, <1>2, <2>1 DEF Held, RecordedEnded
<1>7. DepositsKeyed' /\ RecordedIsPaid' /\ DepositsGated' /\ KeyOfFundsKept'
  BY <1>1, <1>2 DEF Held, DepositsKeyed, RecordedIsPaid, DepositsGated, KeyOfFundsKept
<1>8. QED
  BY <1>3, <1>4, <1>5, <1>6, <1>7 DEF Working, Held

\* A runner that ends takes nothing with it.
LEMMA EndedOnramp ==
    ASSUME OnrampInv, RegistryTypeOK', UnstartedClean', RunsGoOn, NEW r \in RunId, Started(r),
           runner' = [runner EXCEPT ![r] = Ended],
           UNCHANGED <<approved, gate, requests, keys, keysFile, anchorVars, records, history>>
    PROVE  OnrampInv'
<1> USE DEF OnrampInv
<1>1. \A s \in RunId : /\ Owner(s)' = Owner(s)
                       /\ Started(s)' = Started(s)
                       /\ ~runs'[s].settled => ~runs[s].settled
  BY DEF RunsGoOn, Owner, Started
<1>2. UNCHANGED <<approved, gate, requests, keys, keysFile, ledger, deposits, records,
                  allowed, unsaved>>
  BY DEF anchorVars, history
<1>3. /\ runner' \in [RunId -> RunnerState]
      /\ \A s \in RunId \ {r} : runner'[s] = runner[s]
      /\ runner'[r].at = "ended" /\ ~runner'[r].paid
  BY DEF TypeOK, RunnerState, Ended, Idle, Stages
<1>4. TypeOK'
  BY <1>2, <1>3 DEF TypeOK
<1>5. RunnersStarted' /\ RunnerKeyed' /\ GateSeen' /\ RunnerDeposit'
  BY <1>1, <1>2, <1>3
     DEF Working, RunnersStarted, RunnerKeyed, GateSeen, RunnerDeposit, PastGate, PastDeposit
<1>6. ReadingOwned' /\ KeysAgree'
  BY <1>2 DEF Working, ReadingOwned, KeysAgree
<1>7. RecordedEnded'
  <2>1. \A a \in Account : records[a].onramp # NoRun => records[a].onramp \in RunId
    BY DEF TypeOK, Purchase
  <2>2. QED
    BY <1>1, <1>2, <1>3, <2>1 DEF Held, RecordedEnded
<1>8. DepositsKeyed' /\ RecordedIsPaid' /\ DepositsGated' /\ KeyOfFundsKept'
  BY <1>1, <1>2 DEF Held, DepositsKeyed, RecordedIsPaid, DepositsGated, KeyOfFundsKept
<1>9. QED
  BY <1>4, <1>5, <1>6, <1>7, <1>8 DEF Working, Held

\* A runner past the gate goes from one step to the next without touching a deposit,
\* a record or a key; one that goes past step 6 has its deposit already.
LEMMA MovesOnramp ==
    ASSUME OnrampInv, NEW r \in RunId, NEW at \in Stages, NEW paid \in BOOLEAN,
           runner[r].at \in PastGate, at \in PastGate,
           at \in PastDeposit => runner[r].at \in PastDeposit,
           paid => at = "balance" /\ deposits[r].status = "completed",
           runner' = [runner EXCEPT ![r] = [runner[r] EXCEPT !.at = at, !.paid = paid]],
           ledger' \in [Key -> {"absent", "created", "trusted"}],
           UNCHANGED <<registryVars, approved, gate, requests, keys, keysFile, deposits,
                       records, history>>
    PROVE  OnrampInv'
<1> USE DEF OnrampInv
<1>1. UNCHANGED <<runs, completions, following, attached, received, allowed, unsaved>>
  BY DEF registryVars, streamVars, history
<1>2. /\ runner' \in [RunId -> RunnerState]
      /\ \A s \in RunId \ {r} : runner'[s] = runner[s]
      /\ runner'[r].at = at /\ runner'[r].paid = paid /\ runner'[r].key = runner[r].key
  BY DEF TypeOK, RunnerState
<1>3. TypeOK'
  BY <1>1, <1>2 DEF TypeOK, RegistryTypeOK
<1>4. RunnersStarted' /\ RunnerKeyed' /\ GateSeen'
  BY <1>1, <1>2 DEF Working, RunnersStarted, RunnerKeyed, GateSeen, PastGate, Started, Owner
<1>5. RunnerDeposit'
  BY <1>1, <1>2 DEF Working, RunnerDeposit
<1>6. ReadingOwned' /\ KeysAgree' /\ UnstartedClean'
  BY <1>1 DEF Working, ReadingOwned, KeysAgree, UnstartedClean, Started
<1>7. RecordedEnded'
  BY <1>1, <1>2 DEF Held, RecordedEnded, PastGate, Owner, TypeOK, Purchase
<1>8. DepositsKeyed' /\ RecordedIsPaid' /\ DepositsGated' /\ KeyOfFundsKept'
  BY <1>1 DEF Held, DepositsKeyed, RecordedIsPaid, DepositsGated, KeyOfFundsKept, Owner
<1>9. QED
  BY <1>3, <1>4, <1>5, <1>6, <1>7, <1>8 DEF Working, Held

-----------------------------------------------------------------------------
(* The routes, the gate and the key file.                                  *)

\* Nothing is bought, started or stored before the first request.
LEMMA InitOnramp == Init => OnrampInv
<1> SUFFICES ASSUME Init PROVE OnrampInv
  OBVIOUS
<1>1. RegistryTypeOK /\ UnstartedClean /\ \A r \in RunId : runs[r] = Unstarted
  BY InitOutcome DEF Init, RegistryInit, OutcomeInv, OneOutcome
<1>2. TypeOK
  BY <1>1, OnrampAssumption
     DEF Init, TypeOK, RunnerState, Stages, Idle, RequestState, Deposit, Purchase
<1>3. Working
  BY <1>1 DEF Init, Working, RunnersStarted, ReadingOwned, KeysAgree, RunnerKeyed, RunnerDeposit,
              GateSeen, Idle, PastGate, PastDeposit, Started, Unstarted
<1>4. Held
  BY DEF Init, Held, DepositsKeyed, RecordedEnded, RecordedIsPaid, DepositsGated, KeyOfFundsKept
<1>5. QED
  BY <1>2, <1>3, <1>4 DEF OnrampInv

\* The portal's verdict and a request that only arrives or is refused start nothing.
LEMMA RequestOnramp ==
    ASSUME OnrampInv,
           \/ \E a \in Account : KycVerdict(a)
           \/ \E q \in Request, a \in Account : StartArrives(q, a)
           \/ \E q \in Request : StartRefused(q)
    PROVE  OnrampInv'
<1> USE DEF OnrampInv
<1>1. UNCHANGED <<runs, completions, following, attached, received, gate, keys, keysFile, ledger,
                  deposits, runner, records, allowed, unsaved>>
  BY DEF KycVerdict, StartArrives, StartRefused, registryVars, streamVars, anchorVars, history
<1>2. approved' \subseteq Account /\ requests' \in [Request -> RequestState] /\ ReadingOwned'
  <2>1. CASE \E a \in Account : KycVerdict(a)
    BY <2>1 DEF KycVerdict, Toggled, TypeOK, Working, ReadingOwned
  <2>2. CASE \E q \in Request, a \in Account : StartArrives(q, a)
    BY <2>2 DEF StartArrives, TypeOK, Working, ReadingOwned, RequestState
  <2>3. CASE \E q \in Request : StartRefused(q)
    BY <2>3 DEF StartRefused, Answer, TypeOK, Working, ReadingOwned, RequestState
  <2>4. QED
    BY <2>1, <2>2, <2>3
<1>3. TypeOK'
  BY <1>1, <1>2 DEF TypeOK, RegistryTypeOK
<1>4. Working'
  BY <1>1, <1>2 DEF Working, UnstartedClean, RunnersStarted, KeysAgree, RunnerKeyed,
                    RunnerDeposit, GateSeen, Started, Owner
<1>5. Held'
  BY <1>1 DEF Held, DepositsKeyed, RecordedEnded, RecordedIsPaid, DepositsGated, KeyOfFundsKept,
              Owner
<1>6. QED
  BY <1>3, <1>4, <1>5

\* A claim that comes while a run is open counts for the run; one that goes takes
\* nothing back.
LEMMA GateOnramp ==
    ASSUME OnrampInv, NEW a \in Account, GateChanges(a)
    PROVE  OnrampInv'
<1> USE DEF OnrampInv
<1>1. UNCHANGED <<runs, completions, following, attached, received, approved, requests, keys,
                  keysFile, ledger, deposits, runner, records, unsaved>>
  BY DEF GateChanges, registryVars, streamVars, anchorVars
<1>2. gate' \subseteq Account /\ allowed' \subseteq RunId /\ allowed \subseteq allowed'
  BY DEF GateChanges, Toggled, TypeOK
<1>3. GateSeen'
  BY <1>1 DEF GateChanges, Toggled, Working, GateSeen, Owner, Started
<1>4. TypeOK'
  BY <1>1, <1>2 DEF TypeOK, RegistryTypeOK
<1>5. Working'
  BY <1>1, <1>2, <1>3 DEF Working, UnstartedClean, RunnersStarted, ReadingOwned, KeysAgree,
                          RunnerKeyed, RunnerDeposit, Started, Owner
<1>6. Held'
  BY <1>1, <1>2 DEF Held, DepositsKeyed, RecordedEnded, RecordedIsPaid, DepositsGated,
                    KeyOfFundsKept, Owner
<1>7. QED
  BY <1>4, <1>5, <1>6

\* onramp/start puts an unused run before the gate.
LEMMA StartOnramp ==
    ASSUME OnrampInv, NEW q \in Request, NEW r \in RunId, StartPurchase(q, r)
    PROVE  OnrampInv'
<1> USE DEF OnrampInv
<1> DEFINE a == requests[q].account
<1>1. a \in Account /\ StartRun(r, a) /\ a # NoAccount
  BY RegistryAssumption DEF Working, ReadingOwned, StartPurchase
<1>2. /\ runner' = [runner EXCEPT ![r].at = "gate"]
      /\ allowed' = IF a \in gate THEN allowed \cup {r} ELSE allowed
      /\ UNCHANGED <<approved, gate, keys, keysFile, records, unsaved, ledger, deposits>>
  BY DEF StartPurchase, anchorVars
<1>3. requests' \in [Request -> RequestState] /\ ReadingOwned'
  BY DEF StartPurchase, Answer, TypeOK, Working, ReadingOwned, RequestState
<1> HIDE DEF a
<1>4. /\ RegistryTypeOK' /\ UnstartedClean'
      /\ \A s \in RunId \ {r} : runs'[s] = runs[s]
      /\ runs'[r].account = a
  BY <1>1, StartEffect DEF TypeOK, Working
<1>5. runner[r].at = "idle" /\ deposits[r].status = "none" /\ ~Started(r)
  BY <1>1 DEF Working, RunnersStarted, StartRun
<1>6. /\ runner' \in [RunId -> RunnerState]
      /\ \A s \in RunId \ {r} : runner'[s] = runner[s]
      /\ runner'[r].at = "gate" /\ runner'[r].paid = runner[r].paid
  BY <1>2 DEF TypeOK, RunnerState, Stages
<1>7. TypeOK'
  BY <1>2, <1>3, <1>4, <1>6 DEF TypeOK
<1>8. Working'
  <2>1. RunnersStarted' /\ GateSeen'
    BY <1>1, <1>2, <1>4, <1>6 DEF Working, RunnersStarted, GateSeen, Started, Owner
  <2>2. RunnerKeyed'
    BY <1>2, <1>4, <1>6 DEF Working, RunnerKeyed, Owner, PastGate
  <2>3. RunnerDeposit'
    BY <1>2, <1>5, <1>6 DEF Working, RunnerDeposit, PastDeposit
  <2>4. KeysAgree'
    BY <1>2 DEF Working, KeysAgree
  <2>5. QED
    BY <1>3, <1>4, <2>1, <2>2, <2>3, <2>4 DEF Working
<1>9. Held'
  <2>1. RecordedEnded'
    BY <1>2, <1>4, <1>5, <1>6 DEF Held, RecordedEnded, Owner, TypeOK, Purchase
  <2>2. KeyOfFundsKept' /\ DepositsGated'
    BY <1>2, <1>4, <1>5 DEF Held, KeyOfFundsKept, DepositsGated, Owner
  <2>3. DepositsKeyed' /\ RecordedIsPaid'
    BY <1>2 DEF Held, DepositsKeyed, RecordedIsPaid
  <2>4. QED
    BY <2>1, <2>2, <2>3 DEF Held
<1>10. QED
  BY <1>7, <1>8, <1>9

\* getOrCreate: what the file holds of an account it goes on holding, what a runner
\* took from memory is in memory still, and the key it returns is on disk unless an
\* earlier write of it failed.
LEMMA GetOrCreateKeeps ==
    ASSUME TypeOK, KeysAgree, NEW a \in Account, NEW k \in Key, k # NoKey, GetOrCreate(a, k)
    PROVE  /\ keys' \in [Account -> Key \cup {NoKey}]
           /\ keysFile' \in [Account -> Key \cup {NoKey}]
           /\ keys'[a] = k
           /\ \A b \in Account : /\ keys[b] # NoKey => keys'[b] = keys[b]
                                 /\ keysFile[b] # NoKey => keysFile'[b] = keysFile[b]
                                 /\ keys'[b] # keysFile'[b] =>
                                      keysFile'[b] = NoKey /\ keys'[b] \in unsaved
<1>1. CASE k = keys[a] /\ UNCHANGED <<keys, keysFile>>
  BY <1>1 DEF TypeOK, KeysAgree
<1>2. CASE keys[a] = NoKey /\ keys' = [keys EXCEPT ![a] = k] /\ keysFile' = keys'
  <2>1. \A b \in Account : keysFile[b] # NoKey => keys[b] = keysFile[b]
    BY DEF KeysAgree
  <2>2. QED
    BY <1>2, <2>1 DEF TypeOK
<1>3. QED
  BY <1>1, <1>2 DEF GetOrCreate

\* The gate reads true and the account's key is found or made: the run was allowed
\* already, since its account's claim is on chain while it is open.
LEMMA GateAllowsOnramp ==
    ASSUME OnrampInv, NEW r \in RunId, NEW k \in Key, GateAllows(r, k)
    PROVE  OnrampInv'
<1> USE DEF OnrampInv
<1> DEFINE a == Owner(r)
<1>1. /\ runner[r].at = "gate" /\ ~runs[r].settled /\ a \in gate /\ k # NoKey
      /\ GetOrCreate(a, k)
      /\ runner' = [runner EXCEPT ![r] = [runner[r] EXCEPT !.at = "funding", !.key = k]]
  BY DEF GateAllows, At
<1>2. UNCHANGED <<runs, completions, following, attached, received, approved, gate, requests,
                  ledger, deposits, records, allowed, unsaved>>
  BY DEF GateAllows, registryVars, streamVars, anchorVars, history
<1>3. Started(r) /\ a \in Account /\ r \in allowed
  BY <1>1, WorkingOwned DEF Working, GateSeen
<1>4. /\ keys' \in [Account -> Key \cup {NoKey}]
      /\ keysFile' \in [Account -> Key \cup {NoKey}]
      /\ keys'[a] = k
      /\ \A b \in Account : /\ keys[b] # NoKey => keys'[b] = keys[b]
                            /\ keysFile[b] # NoKey => keysFile'[b] = keysFile[b]
                            /\ keys'[b] # keysFile'[b] =>
                                 keysFile'[b] = NoKey /\ keys'[b] \in unsaved
  BY <1>1, <1>3, GetOrCreateKeeps DEF Working
<1>5. /\ runner' \in [RunId -> RunnerState]
      /\ \A s \in RunId \ {r} : runner'[s] = runner[s]
      /\ runner'[r].at = "funding" /\ runner'[r].key = k /\ ~runner'[r].paid
  BY <1>1 DEF TypeOK, RunnerState, Stages, Working, RunnerDeposit
<1>6. TypeOK'
  BY <1>2, <1>4, <1>5 DEF TypeOK, RegistryTypeOK
<1>7. Working'
  <2>1. RunnerKeyed'
    <3>1. \A s \in RunId : runner[s].at \in PastGate => Owner(s) \in Account
      BY WorkingOwned DEF Working, PastGate
    <3>2. QED
      BY <1>1, <1>2, <1>3, <1>4, <1>5, <3>1 DEF Working, RunnerKeyed, Owner
  <2>2. RunnerDeposit' /\ RunnersStarted' /\ GateSeen'
    BY <1>2, <1>3, <1>5 DEF Working, RunnerDeposit, RunnersStarted, GateSeen, Started, Owner,
                            PastDeposit
  <2>3. KeysAgree'
    BY <1>2, <1>4 DEF KeysAgree
  <2>4. UnstartedClean' /\ ReadingOwned'
    BY <1>2 DEF Working, UnstartedClean, Started, ReadingOwned
  <2>5. QED
    BY <2>1, <2>2, <2>3, <2>4 DEF Working
<1>8. Held'
  <2>1. KeyOfFundsKept'
    <3>1. \A s \in RunId : deposits[s].status # "none" =>
            Owner(s) \in Account /\ deposits[s].key # NoKey
      BY WorkingOwned DEF Working, Held, DepositsKeyed
    <3>2. QED
      BY <1>2, <1>4, <3>1 DEF Held, KeyOfFundsKept, Owner
  <2>2. RecordedEnded'
    BY <1>1, <1>2, <1>5 DEF Held, RecordedEnded, Owner, TypeOK, Purchase
  <2>3. DepositsKeyed' /\ RecordedIsPaid' /\ DepositsGated'
    BY <1>2 DEF Held, DepositsKeyed, RecordedIsPaid, DepositsGated
  <2>4. QED
    BY <2>1, <2>2, <2>3 DEF Held
<1>9. QED
  BY <1>6, <1>7, <1>8

\* The write fails: the key stays in memory, counts as unsaved, and the run ends.
LEMMA KeyWriteFailsOnramp ==
    ASSUME OnrampInv, NEW r \in RunId, NEW k \in Key, KeyWriteFails(r, k)
    PROVE  OnrampInv'
<1> USE DEF OnrampInv
<1> DEFINE a == Owner(r)
<1>1. /\ runner[r].at = "gate" /\ keys[a] = NoKey
      /\ keys' = [keys EXCEPT ![a] = k] /\ unsaved' = unsaved \cup {k}
      /\ RunnerThrows(r)
      /\ runner' = [runner EXCEPT ![r] = Ended]
      /\ UNCHANGED <<approved, gate, requests, keysFile, ledger, deposits, records, allowed>>
  BY DEF KeyWriteFails, At, anchorVars
<1>2. a \in Account /\ Started(r)
  BY <1>1, WorkingOwned DEF Working
<1>3. RegistryTypeOK' /\ UnstartedClean' /\ RunsGoOn
  BY <1>1, RegistryFrame DEF TypeOK, Working
<1>4. \A s \in RunId : /\ Owner(s)' = Owner(s)
                       /\ Started(s)' = Started(s)
                       /\ ~runs'[s].settled => ~runs[s].settled
  BY <1>3 DEF RunsGoOn, Owner, Started
<1>5. /\ runner' \in [RunId -> RunnerState]
      /\ \A s \in RunId \ {r} : runner'[s] = runner[s]
      /\ runner'[r].at = "ended" /\ ~runner'[r].paid
  BY <1>1 DEF TypeOK, RunnerState, Ended, Idle, Stages
<1>6. /\ keys' \in [Account -> Key \cup {NoKey}]
      /\ unsaved' \subseteq Key /\ unsaved \subseteq unsaved'
      /\ \A b \in Account : keys[b] # NoKey => keys'[b] = keys[b]
  BY <1>1, <1>2 DEF TypeOK
<1>7. KeysAgree'
  <2>1. keysFile[a] = NoKey
    BY <1>1, <1>2 DEF Working, KeysAgree
  <2>2. QED
    BY <1>1, <1>2, <1>6, <2>1 DEF Working, KeysAgree, TypeOK
<1>8. TypeOK'
  BY <1>1, <1>3, <1>5, <1>6 DEF TypeOK
<1>9. Working'
  <2>1. RunnerKeyed'
    <3>1. \A s \in RunId : runner[s].at \in PastGate => Owner(s) \in Account
      BY WorkingOwned DEF Working, PastGate
    <3>2. QED
      BY <1>1, <1>4, <1>5, <1>6, <3>1 DEF Working, RunnerKeyed, PastGate
  <2>2. RunnerDeposit' /\ RunnersStarted' /\ GateSeen' /\ ReadingOwned'
    BY <1>1, <1>2, <1>4, <1>5 DEF Working, RunnerDeposit, RunnersStarted, GateSeen, PastDeposit,
                                  ReadingOwned
  <2>3. QED
    BY <1>3, <1>7, <2>1, <2>2 DEF Working
<1>10. Held'
  <2>1. RecordedEnded'
    <3>1. \A b \in Account : records[b].onramp # NoRun => records[b].onramp \in RunId
      BY DEF TypeOK, Purchase
    <3>2. QED
      BY <1>1, <1>4, <1>5, <3>1 DEF Held, RecordedEnded
  <2>2. DepositsKeyed' /\ RecordedIsPaid' /\ DepositsGated' /\ KeyOfFundsKept'
    BY <1>1, <1>4, <1>6 DEF Held, DepositsKeyed, RecordedIsPaid, DepositsGated, KeyOfFundsKept
  <2>3. QED
    BY <2>1, <2>2 DEF Held
<1>11. QED
  BY <1>8, <1>9, <1>10

-----------------------------------------------------------------------------
(* The anchor's steps, and how a run ends.                                 *)

\* Friendbot, the trustline, the anchor's session and the wait move the runner only.
LEMMA StepsOnramp ==
    ASSUME OnrampInv, NEW r \in RunId,
           EnsureFundingAccount(r) \/ (\E k \in Key : AnchorSession(r, k)) \/ WaitForDeposit(r)
    PROVE  OnrampInv'
<1> USE DEF OnrampInv
<1>1. runner[r] \in RunnerState /\ runner \in [RunId -> RunnerState]
  BY DEF TypeOK
<1>2. CASE EnsureFundingAccount(r)
  <2>1. ledger' \in [Key -> {"absent", "created", "trusted"}]
    BY <1>2 DEF EnsureFundingAccount, TypeOK
  <2>2. ~runner[r].paid /\ runner[r].at = "funding"
    BY <1>2 DEF EnsureFundingAccount, At, Working, RunnerDeposit
  <2>3. PICK at \in {"funding", "anchor"} :
           runner' = [runner EXCEPT ![r] = [runner[r] EXCEPT !.at = at, !.paid = FALSE]]
    <3>1. CASE UNCHANGED runner
      BY <1>1, <2>2, <3>1 DEF RunnerState
    <3>2. CASE Moves(r, "anchor")
      BY <1>1, <2>2, <3>2 DEF Moves, RunnerState
    <3>3. QED
      BY <1>2, <3>1, <3>2 DEF EnsureFundingAccount
  <2>4. UNCHANGED <<registryVars, approved, gate, requests, keys, keysFile, deposits,
                    records, history>>
    BY <1>2 DEF EnsureFundingAccount
  <2>5. QED
    BY <2>1, <2>2, <2>3, <2>4, MovesOnramp DEF PastGate, PastDeposit, Stages
<1>3. CASE \E k \in Key : AnchorSession(r, k)
  <2>1. ~runner[r].paid /\ runner[r].at = "anchor"
    BY <1>3 DEF AnchorSession, At, Working, RunnerDeposit
  <2>2. runner' = [runner EXCEPT ![r] = [runner[r] EXCEPT !.at = "deposit", !.paid = FALSE]]
    BY <1>1, <1>3, <2>1 DEF AnchorSession, Moves, RunnerState
  <2>3. /\ ledger' \in [Key -> {"absent", "created", "trusted"}]
        /\ UNCHANGED <<registryVars, approved, gate, requests, keys, keysFile, deposits,
                       records, history>>
    BY <1>3 DEF AnchorSession, anchorVars, TypeOK
  <2>4. QED
    BY <2>1, <2>2, <2>3, MovesOnramp DEF PastGate, PastDeposit, Stages
<1>4. CASE WaitForDeposit(r)
  <2>1. PICK paid \in BOOLEAN :
          /\ paid => deposits[r].status = "completed"
          /\ runner' = [runner EXCEPT ![r] = [runner[r] EXCEPT !.at = "balance", !.paid = paid]]
    BY <1>4 DEF WaitForDeposit
  <2>2. /\ ledger' \in [Key -> {"absent", "created", "trusted"}]
        /\ runner[r].at = "waiting"
        /\ UNCHANGED <<registryVars, approved, gate, requests, keys, keysFile, deposits,
                       records, history>>
    BY <1>4 DEF WaitForDeposit, At, anchorVars, TypeOK
  <2>3. QED
    BY <2>1, <2>2, MovesOnramp DEF PastGate, PastDeposit, Stages
<1>5. QED
  BY <1>2, <1>3, <1>4

\* Step 6 opens a deposit for the runner's key: the account's, on disk unless its
\* write failed, in a run the gate let through.
LEMMA OpenDepositOnramp ==
    ASSUME OnrampInv, NEW r \in RunId, OpenDeposit(r)
    PROVE  OnrampInv'
<1> USE DEF OnrampInv
<1> DEFINE k == runner[r].key
<1>1. /\ runner[r].at = "deposit"
      /\ deposits' = [deposits EXCEPT ![r] = [key |-> k, status |-> "open"]]
      /\ runner' = [runner EXCEPT ![r].at = "bank"]
  BY DEF OpenDeposit, At, Moves
<1>2. UNCHANGED <<runs, completions, following, attached, received, approved, gate, requests,
                  keys, keysFile, ledger, records, allowed, unsaved>>
  BY DEF OpenDeposit, registryVars, streamVars, history
<1>3. /\ r \in allowed /\ k # NoKey /\ k = keys[Owner(r)] /\ k \in Key \cup {NoKey}
      /\ Started(r) /\ Owner(r) \in Account
  BY <1>1, WorkingOwned DEF Working, RunnerKeyed, PastGate, TypeOK, RunnerState
<1>4. keysFile[Owner(r)] = k \/ k \in unsaved
  BY <1>3 DEF Working, KeysAgree
<1> HIDE DEF k
<1>5. /\ runner' \in [RunId -> RunnerState]
      /\ \A s \in RunId \ {r} : runner'[s] = runner[s]
      /\ runner'[r].at = "bank" /\ runner'[r].key = k /\ ~runner'[r].paid
  BY <1>1 DEF TypeOK, RunnerState, Stages, Working, RunnerDeposit, k
<1>6. /\ deposits' \in [RunId -> Deposit]
      /\ \A s \in RunId \ {r} : deposits'[s] = deposits[s]
      /\ deposits'[r].key = k /\ deposits'[r].status = "open"
  BY <1>1, <1>3 DEF TypeOK, Deposit
<1>7. TypeOK'
  BY <1>2, <1>5, <1>6 DEF TypeOK, RegistryTypeOK
<1>8. Working'
  <2>1. RunnerKeyed' /\ RunnerDeposit'
    BY <1>2, <1>3, <1>5, <1>6 DEF Working, RunnerKeyed, RunnerDeposit, Owner
  <2>2. RunnersStarted' /\ GateSeen'
    BY <1>2, <1>3, <1>5, <1>6 DEF Working, RunnersStarted, GateSeen, Started, Owner
  <2>3. UnstartedClean' /\ ReadingOwned' /\ KeysAgree'
    BY <1>2 DEF Working, UnstartedClean, Started, ReadingOwned, KeysAgree
  <2>4. QED
    BY <2>1, <2>2, <2>3 DEF Working
<1>9. Held'
  <2>1. \A a \in Account : records[a].onramp # NoRun => records[a].onramp \in RunId \ {r}
    BY <1>1 DEF Held, RecordedEnded, TypeOK, Purchase
  <2>2. RecordedEnded' /\ RecordedIsPaid'
    BY <1>2, <1>5, <1>6, <2>1 DEF Held, RecordedEnded, RecordedIsPaid, Owner
  <2>3. DepositsKeyed' /\ DepositsGated' /\ KeyOfFundsKept'
    BY <1>2, <1>3, <1>4, <1>6 DEF Held, DepositsKeyed, DepositsGated, KeyOfFundsKept, Owner
  <2>4. QED
    BY <2>2, <2>3 DEF Held
<1>10. QED
  BY <1>7, <1>8, <1>9

\* The bank transfer and the anchor change where the deposit stands: no deposit goes
\* back, and one that is paid stays paid.
LEMMA DepositOnramp ==
    ASSUME OnrampInv, NEW r \in RunId,
           BankTransfer(r) \/ \E status \in {"completed", "refunded"} : AnchorSettles(r, status)
    PROVE  OnrampInv'
<1> USE DEF OnrampInv
<1>1. UNCHANGED <<runs, completions, following, attached, received, approved, gate, requests,
                  keys, keysFile, ledger, records, allowed, unsaved>>
  BY DEF BankTransfer, AnchorSettles, registryVars, streamVars, history
<1>2. PICK status \in {"received", "completed", "refunded"} :
        deposits' = [deposits EXCEPT ![r].status = status]
  BY DEF BankTransfer, AnchorSettles
<1>3. /\ deposits' \in [RunId -> Deposit]
      /\ \A s \in RunId \ {r} : deposits'[s] = deposits[s]
      /\ deposits'[r].key = deposits[r].key /\ deposits'[r].status # "none"
  BY <1>2 DEF TypeOK, Deposit
<1>4. /\ deposits[r].status # "none"
      /\ runner[r].at = "ended" => deposits[r].status # "completed"
      /\ ~runner[r].paid
  BY DEF BankTransfer, AnchorSettles, At, Working, RunnerDeposit, PastDeposit
<1>5. /\ runner' \in [RunId -> RunnerState]
      /\ \A s \in RunId \ {r} : runner'[s] = runner[s]
      /\ runner'[r].key = runner[r].key /\ runner'[r].paid = runner[r].paid
      /\ \/ runner'[r].at = runner[r].at
         \/ runner[r].at = "bank" /\ runner'[r].at = "waiting"
  BY DEF BankTransfer, AnchorSettles, At, Moves, TypeOK, RunnerState, Stages
<1>6. TypeOK'
  BY <1>1, <1>3, <1>5 DEF TypeOK, RegistryTypeOK
<1>7. Working'
  <2>1. RunnerKeyed' /\ RunnerDeposit'
    BY <1>1, <1>3, <1>4, <1>5
       DEF Working, RunnerKeyed, RunnerDeposit, Owner, PastGate, PastDeposit
  <2>2. Started(r)
    BY <1>4, WorkingOwned DEF Working
  <2>3. RunnersStarted' /\ GateSeen'
    BY <1>1, <1>3, <1>5, <2>2 DEF Working, RunnersStarted, GateSeen, Started, Owner
  <2>4. UnstartedClean' /\ ReadingOwned' /\ KeysAgree'
    BY <1>1 DEF Working, UnstartedClean, Started, ReadingOwned, KeysAgree
  <2>5. QED
    BY <2>1, <2>3, <2>4 DEF Working
<1>8. Held'
  <2>1. \A a \in Account : records[a].onramp # NoRun => records[a].onramp \in RunId \ {r}
    BY <1>4 DEF Held, RecordedEnded, RecordedIsPaid, TypeOK, Purchase
  <2>2. RecordedEnded' /\ RecordedIsPaid'
    BY <1>1, <1>3, <1>5, <2>1 DEF Held, RecordedEnded, RecordedIsPaid, Owner
  <2>3. DepositsKeyed' /\ DepositsGated' /\ KeyOfFundsKept'
    BY <1>1, <1>3, <1>4 DEF Held, DepositsKeyed, DepositsGated, KeyOfFundsKept, Owner
  <2>4. QED
    BY <2>2, <2>3 DEF Held
<1>9. QED
  BY <1>6, <1>7, <1>8

\* The runner returns, in time or after its run was given up.  A payment it saw is
\* recorded as its own, with the key it was made to; without one the earlier purchase
\* stays beside the key of this run, which is the same unless one of them was lost.
LEMMA ReturnsOnramp ==
    ASSUME OnrampInv, NEW r \in RunId, PurchaseReturns(r)
    PROVE  OnrampInv'
<1> USE DEF OnrampInv
<1> DEFINE a == Owner(r)
<1> DEFINE onramp == IF runner[r].paid THEN r ELSE records[a].onramp
<1>1. /\ runner[r].at = "balance" /\ RunnerReturns(r)
      /\ records' = [records EXCEPT ![a] = [fundingAccount |-> runner[r].key,
                                            onramp |-> onramp]]
      /\ runner' = [runner EXCEPT ![r] = Ended]
      /\ UNCHANGED <<approved, gate, requests, keys, keysFile, ledger, deposits, allowed,
                     unsaved>>
  BY DEF PurchaseReturns, At, Recorded, anchorVars, history
<1>2. /\ a \in Account /\ Started(r) /\ runner[r].key # NoKey /\ runner[r].key = keys[a]
      /\ deposits[r].key = runner[r].key
      /\ runner[r].paid => deposits[r].status = "completed"
  BY <1>1, WorkingOwned DEF Working, RunnerKeyed, RunnerDeposit, PastGate, PastDeposit
<1>3. RegistryTypeOK' /\ UnstartedClean' /\ RunsGoOn
  BY <1>1, RegistryFrame DEF TypeOK, Working
<1>4. \A s \in RunId : /\ Owner(s)' = Owner(s)
                       /\ Started(s)' = Started(s)
                       /\ ~runs'[s].settled => ~runs[s].settled
  BY <1>3 DEF RunsGoOn, Owner, Started
<1>5. /\ runner' \in [RunId -> RunnerState]
      /\ \A s \in RunId \ {r} : runner'[s] = runner[s]
      /\ runner'[r].at = "ended" /\ ~runner'[r].paid
  BY <1>1 DEF TypeOK, RunnerState, Ended, Idle, Stages
<1>6. onramp \in RunId \cup {NoRun} /\ runner[r].key \in Key \cup {NoKey}
  BY <1>2 DEF TypeOK, Purchase, RunnerState
<1>7. /\ records' \in [Account -> Purchase]
      /\ \A b \in Account \ {a} : records'[b] = records[b]
      /\ records'[a].onramp = onramp /\ records'[a].fundingAccount = runner[r].key
  BY <1>1, <1>2, <1>6 DEF TypeOK, Purchase
<1>8. TypeOK'
  BY <1>1, <1>3, <1>5, <1>7 DEF TypeOK
<1>9. Working'
  BY <1>1, <1>2, <1>3, <1>4, <1>5
     DEF Working, RunnersStarted, ReadingOwned, KeysAgree, RunnerKeyed, RunnerDeposit, GateSeen,
         PastGate, PastDeposit
<1>10. Held'
  <2>1. \A b \in Account : records[b].onramp # NoRun => records[b].onramp \in RunId
    BY DEF TypeOK, Purchase
  <2>2. onramp # NoRun => /\ onramp \in RunId /\ Owner(onramp) = a
                          /\ onramp = r \/ runner[onramp].at = "ended"
                          /\ deposits[onramp].status = "completed"
    BY <1>2, <2>1 DEF Held, RecordedEnded, RecordedIsPaid
  <2>3. onramp # NoRun =>
          deposits[onramp].key = runner[r].key \/ deposits[onramp].key \in unsaved
    <3>1. ASSUME onramp # NoRun, deposits[onramp].key \notin unsaved
          PROVE  deposits[onramp].key = runner[r].key
      <4>1. keysFile[a] = deposits[onramp].key /\ deposits[onramp].key # NoKey
        BY <2>2, <3>1 DEF Held, KeyOfFundsKept, DepositsKeyed
      <4>2. keys[a] = keysFile[a]
        BY <1>2, <4>1 DEF Working, KeysAgree
      <4>3. QED
        BY <1>2, <4>1, <4>2
    <3>2. QED
      BY <3>1
  <2> HIDE DEF onramp
  <2>4. RecordedEnded'
    BY <1>2, <1>4, <1>5, <1>7, <2>1, <2>2 DEF Held, RecordedEnded
  <2>5. RecordedIsPaid'
    BY <1>1, <1>2, <1>7, <2>2, <2>3 DEF Held, RecordedIsPaid
  <2>6. DepositsKeyed' /\ DepositsGated' /\ KeyOfFundsKept'
    BY <1>1, <1>4 DEF Held, DepositsKeyed, DepositsGated, KeyOfFundsKept
  <2>7. QED
    BY <2>4, <2>5, <2>6 DEF Held
<1>11. QED
  BY <1>8, <1>9, <1>10

\* A restart ends every run and reads the key file again: what was only in memory is
\* gone, and it counts as unsaved.
LEMMA RestartOnramp ==
    ASSUME OnrampInv, Restart
    PROVE  OnrampInv'
<1> USE DEF OnrampInv
<1>1. RegistryTypeOK' /\ UnstartedClean' /\ RunsGoOn
  BY RestartFrame DEF TypeOK, Working, Restart
<1>2. \A s \in RunId : /\ Owner(s)' = Owner(s)
                       /\ Started(s)' = Started(s)
                       /\ ~runs'[s].settled => ~runs[s].settled
  BY <1>1 DEF RunsGoOn, Owner, Started
<1>3. /\ keys' = keysFile
      /\ UNCHANGED <<approved, gate, keysFile, ledger, deposits, records, allowed, unsaved>>
  BY DEF Restart, anchorVars, history
<1>4. requests' \in [Request -> RequestState] /\ ReadingOwned'
  BY DEF Restart, TypeOK, RequestState, ReadingOwned
<1>5. /\ runner' \in [RunId -> RunnerState]
      /\ \A s \in RunId : /\ Started(s) => runner'[s] = Ended
                          /\ ~Started(s) => runner'[s] = runner[s]
                          /\ runner'[s].at \in {"idle", "ended"} /\ ~runner'[s].paid
  BY DEF Restart, TypeOK, RunnerState, Ended, Idle, Stages, Working, RunnersStarted, RunnerDeposit
<1>6. TypeOK'
  BY <1>1, <1>3, <1>4, <1>5 DEF TypeOK
<1>7. Working'
  BY <1>1, <1>2, <1>3, <1>4, <1>5
     DEF Working, RunnersStarted, KeysAgree, RunnerKeyed, RunnerDeposit, GateSeen, PastGate,
         PastDeposit
<1>8. Held'
  <2>1. \A a \in Account : records[a].onramp # NoRun =>
          records[a].onramp \in RunId /\ Started(records[a].onramp)
    BY DEF TypeOK, Purchase, Held, RecordedEnded, Working, RunnersStarted
  <2>2. RecordedEnded'
    BY <1>2, <1>3, <1>5, <2>1 DEF Held, RecordedEnded, Ended, Idle
  <2>3. DepositsKeyed' /\ RecordedIsPaid' /\ DepositsGated' /\ KeyOfFundsKept'
    BY <1>2, <1>3 DEF Held, DepositsKeyed, RecordedIsPaid, DepositsGated, KeyOfFundsKept
  <2>4. QED
    BY <2>2, <2>3 DEF Held
<1>9. QED
  BY <1>6, <1>7, <1>8

-----------------------------------------------------------------------------
(* The theorems.                                                           *)

\* Every step of the routes, the runners, the gate, the anchor and the server keeps it.
LEMMA StepOnramp == OnrampInv /\ [Next]_vars => OnrampInv'
<1> SUFFICES ASSUME OnrampInv, [Next]_vars PROVE OnrampInv'
  OBVIOUS
<1>1. ASSUME NEW a \in Account, KycVerdict(a) \/ GateChanges(a) PROVE OnrampInv'
  BY <1>1, RequestOnramp, GateOnramp
<1>2. ASSUME NEW q \in Request, (\E a \in Account : StartArrives(q, a)) \/ StartRefused(q)
      PROVE  OnrampInv'
  BY <1>2, RequestOnramp
<1>3. ASSUME NEW q \in Request, NEW r \in RunId, StartPurchase(q, r) PROVE OnrampInv'
  BY <1>3, StartOnramp
<1>4. ASSUME NEW r \in RunId, NEW k \in Key, GateAllows(r, k) \/ KeyWriteFails(r, k)
      PROVE  OnrampInv'
  BY <1>4, GateAllowsOnramp, KeyWriteFailsOnramp
<1>5. ASSUME NEW r \in RunId,
             EnsureFundingAccount(r) \/ (\E k \in Key : AnchorSession(r, k)) \/ WaitForDeposit(r)
      PROVE  OnrampInv'
  BY <1>5, StepsOnramp
<1>6. ASSUME NEW r \in RunId, OpenDeposit(r) PROVE OnrampInv'
  BY <1>6, OpenDepositOnramp
<1>7. ASSUME NEW r \in RunId,
             BankTransfer(r) \/ \E status \in {"completed", "refunded"} : AnchorSettles(r, status)
      PROVE  OnrampInv'
  BY <1>7, DepositOnramp
<1>8. ASSUME NEW r \in RunId, PurchaseReturns(r) PROVE OnrampInv'
  BY <1>8, ReturnsOnramp
<1>9. ASSUME NEW r \in RunId, PurchaseThrows(r) PROVE OnrampInv'
  <2>1. RegistryTypeOK' /\ UnstartedClean' /\ RunsGoOn /\ Started(r)
    BY <1>9, RegistryFrame DEF PurchaseThrows, RunnerThrows, OnrampInv, TypeOK, Working
  <2>2. QED
    BY <1>9, <2>1, EndedOnramp DEF PurchaseThrows
<1>10. ASSUME NEW r \in RunId, PurchaseTimesOut(r) PROVE OnrampInv'
  <2>1. RegistryTypeOK' /\ UnstartedClean' /\ RunsGoOn
    BY <1>10, RegistryFrame DEF PurchaseTimesOut, OnrampInv, TypeOK, Working
  <2>2. QED
    BY <1>10, <2>1, RegistryOnramp DEF PurchaseTimesOut
<1>11. CASE Restart
  BY <1>11, RestartOnramp
<1>12. CASE UNCHANGED vars
  <2>1. UNCHANGED registryVars /\ UNCHANGED onrampVars
    BY <1>12 DEF vars
  <2>2. RegistryTypeOK' /\ UnstartedClean' /\ RunsGoOn
    BY <2>1 DEF OnrampInv, TypeOK, Working, registryVars, streamVars, RegistryTypeOK,
                UnstartedClean, Started, RunsGoOn, Active
  <2>3. QED
    BY <2>1, <2>2, RegistryOnramp
<1>13. QED
  BY <1>1, <1>2, <1>3, <1>4, <1>5, <1>6, <1>7, <1>8, <1>9, <1>10, <1>11, <1>12 DEF Next

\* The invariant holds in every state.
LEMMA OnrampInvariant == Spec => []OnrampInv
BY InitOnramp, StepOnramp, PTL DEF Spec

\* "A purchase is recorded only once the anchor's payment is on chain", whatever run
\* ended late, pending or beside another, and to the funding account it is recorded
\* with unless the key of one was never written (waitForDeposit, onComplete).
THEOREM RecordedPurchasesWerePaid == Spec => []PurchasesSound
<1>1. OnrampInv => PurchasesSound
  BY DEF OnrampInv, Held, PurchasesSound
<1>2. QED
  BY <1>1, OnrampInvariant, PTL

\* No deposit is opened in a run during which the gate never read true: the approval
\* read before the body is only a first check (runOnramp, step 1).
THEOREM DepositsPassTheGate == Spec => []DepositsGated
<1>1. OnrampInv => DepositsGated
  BY DEF OnrampInv, Held
<1>2. QED
  BY <1>1, OnrampInvariant, PTL

\* The key every deposit was opened for stays in the key file, under the account that
\* bought, over any restarts, unless its own write failed (getOrCreate).
THEOREM KeysOfDepositsAreKept == Spec => []KeyOfFundsKept
<1>1. OnrampInv => KeyOfFundsKept
  BY DEF OnrampInv, Held
<1>2. QED
  BY <1>1, OnrampInvariant, PTL
=============================================================================

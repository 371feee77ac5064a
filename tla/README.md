# Verification of the onramp

TLA+ models of the KYC on-ramp in this repository: the two Soroban contracts that
record what a wallet has proved, the gateway that issues the credentials behind those
proofs, and the portal that runs the onboarding for a web page. Each module is
translated from the source; `PROJECT.json` maps every definition to its lines. TLC
checks small instances, and TLAPS proves the safety properties of every modelled
component but the status list's codec for every instance that meets the named assumptions.

## 1. The system

A person opens an account at the **portal**. The portal deploys a smart wallet for the
account, opens a session at the **gateway**, and a KYC provider approves or rejects. For
an approved session the gateway issues a BBS+ **credential** with a revocation index.
The holder derives a **presentation** from it, disclosing a few claims, and submits it to
the **kyc-gate** contract, which looks the issuer's key up in **kyc-registry**, verifies
the presentation and writes a claim record for the wallet. Other contracts ask
`check(subject, bits)`. Revocation happens in two places: the gate's admin revokes a
subject on chain, and the issuer publishes a status list of revoked indexes.

| Component | State it keeps | Operations | Hard behaviour |
|---|---|---|---|
| kyc-gate (`contracts/kyc-gate/src/lib.rs`) | admin, claim record per subject, nonce tombstones, a TTL for each | `init`, `attest_bbs`, `revoke`, `set_admin`, `upgrade`, `check`, `claim_record` | three storage lifetimes against one deadline; anyone may submit any presentation, at any time, with arguments the proof does not bind |
| kyc-registry (`contracts/kyc-registry/src/lib.rs`) | admin, issuers, their ids in order | `init`, `register_issuer`, `revoke_issuer`, `active_key`, `is_trusted` | revoked or expired between preflight and call |
| BBS+ verifier (`kyc-gate/src/bbs.rs`) | none | `verify_bbs_proof` | arithmetic |
| T-REX adapter (`trex/trex-wrap`) | gate and target addresses | `verify_identity`, recovery | relies on `check` |
| Run registry (`scripts/onboard/kyc-run.ts`) | runs, their events, listeners, timers | `start`, `emit`, `finish`, `subscribe`, eviction | the runner outlives its timeout; streams open at any time |
| Portal KYC routes (`scripts/onboard/portal-api.ts`, `accounts.ts`) | account file | `kyc/start`, `kyc/submit`, `onComplete` | reads before an await and writes after it; retries that overlap the run they replace |
| Onboarding pipeline (`scripts/demo/demo-flow.ts`, `sdk/src/attest/submit.ts`, `onboard/wallet.ts`) | locals of one run | deploy, session, issue, derive, submit, poll | a step succeeds and its confirmation is lost |
| On-ramp purchase (`scripts/onboard/onramp.ts`) | funding keys, deposits at the anchor | `runOnramp`, `readOnrampState` | a deposit that is paid after the wait ended |
| Subject chain state and submission (`gateway/src/chain`, `sdk/src/attest`, `sdk/src/expiry.ts`) | none | read the epoch, choose expiries, prepare, send, poll | everything read is older when it is used; a lost answer says nothing about the transaction |
| Gateway (`apps/gateway-http`, `packages/gateway/src/kyc`) | sessions in memory, tokens signed with a key of the process | session, approve, issue | stream events after the answer; check, await, allocate, await, sign |
| Durable stores (`scripts/onboard/durable.ts`) | three JSON files and what memory holds of them | `allocate`, `revoke`, `clear`, `put` | memory changes before a write that may fail; restarts |
| Status lists (`packages/gateway/src/status`, `identity/src/status-list.ts`) | published list, resolver cache | publish, fetch, check | overlapping fetches, freshness |
| Accounts and cookie sessions (`accounts.ts`) | account and session files, rate limits | register, login, logout, reset | expiry, limits |
| Identity library (`identity/src`) | a replay guard shared by all verifications | derive, verify, predicates | two verifications of one challenge across two awaits |
| JWS (`gateway/src/auth/jws.ts`) | a replay store | `signJws`, `verifyJws` | overlapping verifications; two encodings of a signature |

The components interact through calls: the portal starts a run (callback `onComplete`),
the run calls the wallet deployer, the gateway over HTTP, the credential store and the
Soroban RPC; the gate calls the registry. Shared state is the account file (every route
and every run of an account), the in-memory run registry, the durable stores and the
ledger.

What makes each part correct:

- **Gate and registry**: a presentation is spent at most once; what a record grants was
  attested for that subject under the issuer's registered key; a record that holds is
  only replaced by a later one, and a revocation starts a new epoch for good.
- **Run registry**: exactly one terminal event, which every stream sees in order; every
  run ends and is forgotten, whatever its runner does.
- **Portal**: one wallet for an account; a verified account has the record it shows; the
  limits on runs hold although they are checked after an await.
- **On-ramp**: no deposit without the gate's word, a recorded purchase was paid out to
  the account's own key, and that key is not lost.
- **Accounts**: addresses are unique, an answered success is durable, and a session that
  ended (expiry, logout, reset) stays ended across restarts.
- **Gateway and stores**: revocation indexes are unique across crashes; a credential
  needs an approved session of the caller's own wallet and a token that was live when it
  was checked; an acknowledged revocation is never lost; one answer for each request.
- **Attestation**: what a run reports is what the chain holds; the epoch is read, never
  guessed.
- **Verification**: one acceptance per challenge, of what the issuer signed and the
  holder made for this challenge, in time, and not revoked longer than the freshness
  bound; a status list is only ever the issuer's own.

## 2. The modules

```
SorobanHost <- KycRegistry <- KycGate <- KycChain <- MCKycChain
                                          |  refines ClaimLedger
                                          +- KycChainProofs
RunRegistry <- MCRunRegistry                  RunRegistry <- RunRegistryProofs
RunRegistry <- PortalKyc <- MCPortalKyc       PortalKyc, RunRegistryProofs <- PortalKycProofs
RunRegistry <- Onramp <- MCOnramp             Onramp, RunRegistryProofs <- OnrampProofs
DurableStores <- Issuance <- MCIssuance
PortalAccounts <- MCPortalAccounts            PortalAccounts, RateLimiter <- PortalAccountsProofs
AttestFlow <- MCAttestFlow                    AttestFlow <- AttestFlowProofs
StatusResolver <- MCStatusResolver
StatusResolver, Predicates <- Verifier <- MCVerifier
                                              Verifier <- VerifierProofs
GatewayHttp <- MCGatewayHttp                  Issuance, GatewayHttp, Jws, DerSignature <- GatewayProofs
Jws, DerSignature, StatusList, RateLimiter <- MCUnits
```

`A <- B` says that B extends A. MC modules hold constants, symmetry and, in MCUnits, a
sum of four units that share no state: `unit` says which of them a behaviour is of.

**SorobanHost** (external: modelled from how the contracts use it). `seq` is the ledger
sequence. A storage entry is the last ledger it lives in: `ExtendTtl` bumps it only at or
below a threshold, a temporary entry is gone after that ledger, a persistent one is
archived and `Restored` by the transaction that touches it. A call that fails is rolled
back, so contract actions describe accepted calls; refusals are their negated guards.

**KycRegistry**, **KycGate**. One action per entry point, with `signers` standing for the
addresses that authorised the transaction. `attest_bbs` is split into one predicate per
group of refusals (`WellTimed`, `NonceUnused`, `DisclosureMatches`, `VerifyBbsProof`,
`EpochCurrent`, `Fresher`) and one operator per computed value (`NonceTtl`, `Tombstone`,
`StoreRecord`). A bitmap is a set of bits. A presentation is what it binds: credential,
disclosed claims, and the subject, nonce and deadline of its header; unforgeability is
the assumption that a proof verifies under a key and a header exactly when it was derived
from a credential of that key for that header.

**KycChain** puts both contracts on one ledger, with holders that derive presentations
(`Derive`) and callers that submit any of them with any value of the arguments the proof
leaves open (`CallsWith`). `accepted` and `revocations` are history.

**ClaimLedger** is the abstract promise to relying contracts: one grant for a subject,
its claims, its end and its generation, with `Give`, `Withdraw` and `Tick`. `Granted` in
KycChain is the refinement mapping.

**RunRegistry** is `InMemoryRunRegistry`. An action is one JavaScript callback together
with everything it calls synchronously: `Finish` includes the publication, the fan-out to
streams and `onComplete`. `done` is the `completed` flag of the closure, `settled` says
that the runner has returned or thrown, `kept` that the run is still in the map. A runner's
result may meet an `onComplete` that throws (`ReturnUnrecorded`).

**PortalKyc** extends RunRegistry with the account file, the submit requests between
their await and the rest of the handler, the runners and the chain reduced to deployed
wallets and recorded claims. `Restart` loses everything but the file and the chain.

**DurableStores** holds memory and file of the three stores; each operation comes in the
form that saves and the form whose write throws after memory has changed. **Issuance**
adds sessions, tokens, the issue handler from one await to the next, custody, revocation
and the served list, and `Restart`.

**Onramp** extends RunRegistry with `onramp/start` on both sides of its await, the runner
from the gate check to the end of the wait (`GateAllows`, `GetOrCreate`,
`OpenDeposit`, `WaitForDeposit`), the anchor reduced to one deposit for each run, the key file with
writes that fail, and `Restart`. A deposit goes on after its run has ended, so it is paid
late as often as the code permits. `allowed` and `unsaved` are history.

**PortalAccounts** holds memory and file of the account and session stores, one action for
each route, `Stop` and `Boot`, and the reset script as a second process from its read
(`ResetRead`) to its last write (`ResetFinish`). A password is its hash.

**AttestFlow** has a pipeline run from the scan of the proof to the last poll: every read
of the chain is an action of its own, so that ledgers close, revocations happen and other
runs land in between. A transaction is in the network until its time bound and may be
included at any ledger before it, whether or not anybody still polls.

**StatusResolver** is `HardenedStatusListResolver` against an issuer that signs lists and a
network that answers with any list it ever saw, forged ones, redirects and silence. An
action is the code between two awaits; `Answered` does everything after the last
response, including the write to the cache. **Verifier** extends it with
`verifyDetailed` and the shared `ReplayGuard`, **Predicates** with what a predicate
discloses and expects.

**GatewayHttp** follows a request from `Arrives` over each `data`, `end` and `error` event to
its one answer, with routing, authentication, the JSON body, the session and issue
handlers on both sides of their await, the error mapping, and the client's reading of an
answer. Every refusal is a reason, mapped to status and retriability by `Answers`.

**Jws** mints and verifies tokens: `Fault` gives the reason `verifyJws` would return, in the
code's order, and the replay store is asked last, across an await. **DerSignature**
transcribes `rawToDer` and `derToRaw` on byte strings at a reduced width, **StatusList**
the bit packing, base64url and the two directions of the codec, with gzip as a header
that tells checksum and length. **RateLimiter** is `FixedWindowLimiter`, with a history of
the attempts that were made and of those that passed.

## 3. The runs

| Run | Instance | What holds |
|---|---|---|
| `kyc_chain` | two subjects, two keys and a credential signed under the wrong one, two nonces, four ledgers | `PresentationSpentOnce`, `RecordWithinNonce`, `EpochCountsRevocations`, `TrustSound` (`RecordVouched`, `IssuerListExact`), `RecordMovesForward`, refinement of ClaimLedger |
| `run_registry` | two runs, two accounts, two streams | `OneOutcome` (`OneTerminalEvent`, `CompletionsOrdered`), `StreamFollowsRun`, `RunsEnd` |
| `portal_kyc` | three accounts and runs, a cap of two, timeouts and restarts | `AccountsSound` (`ApprovedIsRecorded`), `RecordsForKeptWallets`, `RunsBounded`, `WalletFixed` |
| `onramp` | three requests and runs of one account, two keys, failing writes, restarts | `PurchasesSound` (`RecordedIsPaid`), `DepositsGated`, `KeyOfFundsKept` |
| `issuance` | three requests, two wallets, two sessions, failing writes, restarts | `IndexesUnique`, `CredentialsEarned`, `RevocationSurvives`, `CustodyKept` |
| `portal_accounts` | two accounts, addresses, passwords and tokens, failing writes, crashes, a reset | `StoresSound` (`EmailsUnique`, `AnsweredIsDurable`), `SessionsSound` (`SignedInSound`, `SignedOutStaysOut`), `ResetTakesHold` |
| `attest_flow` | two runs of one subject, four ledgers, one revocation epoch | `ReportsSound` (`OutcomeSound`, `NeverTooFar`), `RecordOfOneRun`, `EpochNeverGuessed` |
| `status_resolver` | two issuers with their URLs, two callers, a redirect, two signed lists | `ServedSound` (`ServedOwnList`, `ServedUnexpired`), `FetchBounded`, `ResolutionEnds` |
| `verifier` | two overlapping verifications over the resolver, honest and altered presentations, a question with two country allowlists, a revocation | `GuardExact` (`AcceptedOnce`, `BurntByAcceptance`), `AcceptanceHolds` (`AcceptanceSound`, `AcceptedInTime`), `RevocationRespected` |
| `gateway_http` | three requests on every path and method, two wallets and sessions | `AnswersSound` (`AnsweredOnce`, `RetriableAgrees`), `IssuedForLiveToken`, `AnswersDiscreet` |
| `units` | tokens: two calls, three verifiers; signatures of two bytes a half with one edit; lists of up to 32 bits with one character damaged; two callers over five instants | `AcceptedSound` (`AcceptedIsAuthentic`, `AcceptedInScope`), `JtiAcceptedOnce`; `DerExact` (`RoundTrip`, `EveryByteAccounted`, `EncodesPositive`); `ListSound` (`ReadsBack`, `DamageIsRefused`); `LimiterPromise` (`BurstBounded`, `QuietCallerPasses`) |
| `kyc_revoked_proofs` | one subject, five ledgers, three revocations | violated: `ProofsDieWithTheirEpoch`, section 6 |

A property with names in brackets is the conjunction of these parts and of the module's
type invariant where it has one; the type invariants of the modules of section 4 are part
of what is proved there. Each property has a mutant in `PROJECT.json`: a plausible slip in
one definition under which the same run fails.

**Bounds.** Ledger lifetimes are scaled down with their order kept: the proof window is
at most `NONCE_MIN_TTL`, which is below the record horizon, which is below
`NONCE_MAX_TTL`, and `MaxLedger` lies past all of them, so every entry expires and every
boundary ledger is reached. Two nonces and two presentations allow a live record to be
replaced and a nonce to be used again after it expired; a second subject and a second
key are what it takes to attest for the wrong one. `MaxEpoch` is 1 and `MaxRevocations`
2, so the epoch saturates. Three runs are what it takes to overlap an abandoned run with
a retry and its retry; the cap of two needs three accounts. Three allocations with a
largest index of 1 reach the refusal of an index and two credentials with failed writes
between them. Two keys let a funding key be drawn anew after a restart. The clocks of
PortalAccounts, GatewayHttp, Jws and RateLimiter pass one session, token or window and
the instant after it; the resolver's horizon is past an age, a cache life and a fetch, in
the resolver's own run with skew and redirect, in the verifier's without them and with a
revocation. Bytes are scaled down in DerSignature (`HighBit` 16, two bytes a scalar) so
that every signature and every one-byte edit is tried. The `Max…` constants and the
resolver's `Horizon` are bounds of the exploration and stand in guards; nothing else
limits the models. Symmetry is used only for sets no definition tells apart, and only
where no liveness is checked.

**Deadlock** is not checked: every model may come to a legitimate end (the last ledger,
every run evicted, every request answered).

**Fairness.** RunRegistry assumes `WF(TimesOut)` and `WF(Evict)`, because Node fires a due
timer; nothing is assumed of a runner, which may hang on an RPC for ever, nor of a page.
`RunsEnd` follows from the timers alone; a run whose `onComplete` threw is done, but stays in
the registry (section 6). StatusResolver assumes that time passes
(`SF(Tick)`), that a due abort timer fires (`WF(AbortTimer)`) and that a caller takes the
answer it was given (`WF(Taken)`); the network may stay silent or redirect for ever, and
`ResolutionEnds` still holds. All other properties are safety.

## 4. What is proved

Every theorem holds for every value of the constants that meets the named assumption of
its module; the assumptions only give the constants their types, except `GateConstants`
(the const assertion of `lib.rs`: `PROOF_MAX_WINDOW <= NONCE_MIN_TTL <= NONCE_MAX_TTL`),
`DerAssumption` (lengths fit DER's short form, as those of P-256 do) and the one on a
verifier's questions, below. A theorem with a hypothesis says so. A module's theorems follow
from the inductive invariants named here, which TLC also finds to hold on the run's own
instance. Hardly any of the properties is inductive as it stands; what its invariant adds is
why the code is right.

**KycChainProofs.** `SpentOnce`, `NonceOutlivesRecord`: that a proof is not accepted again
follows from the nonce still being stored. `SpendInv` adds `AcceptedBound` (an accepted call
carries the nonce and deadline its proof binds) and that the nonce of every accepted call
lives at least until its deadline; at a second acceptance the proof is fresh
(`seq <= ledgerExpiry <= nonceLive`), so its nonce is refused. `TypeCorrect`, in particular
that the epoch stays within its width. `EpochsCount`, `RecordsMoveForward`,
`GateImplementsClaimLedger`: only `attest_bbs` and `revoke` write records (`RecordWriters`),
and what each leaves (`AttestWrites`, `RevokeWrites`) gives the epoch count, the order of
records, and the `Give` or `Withdraw` step of ClaimLedger. `RecordsAreVouchedFor`: a claim on
record goes back to an accepted call under a key that was registered, and the list of issuers
is exact.

**RunRegistryProofs.** `RunHasOneOutcome` (`OutcomeInv`): the timer, the runner, the catch
after an `onComplete` that threw and the eviction may all act on a run after its end, and each
finds `done` set with the terminal event. `StreamsFollowTheirRuns` (`StreamInv`): a listener is
attached only to a run that is not done and has then received everything. The module ends with
what the registry's callbacks leave alone (`RegistryFrame`, `StartEffect`, `FinishEffect`),
which the two modules over it cite.

**PortalKycProofs** (`PortalInv`, `ActiveInv`). `VerifiedAccountsAreRecorded`,
`RecordsOnlyForKeptWallets`, `StoredWalletsStay`: a runner's locals are tied to the account it
was started for and to what it put on the chain, so that a late `onComplete` of an overlapping
run writes facts and not guesses, and a wallet that is stored is never replaced.
`ActiveRunsAreBounded`: the counts are of finite sets, and start and check are one callback.

**OnrampProofs** (`OnrampInv` = `TypeOK`, `Working`, `Held`). `RecordedPurchasesWerePaid`,
`DepositsPassTheGate`, `KeysOfDepositsAreKept`. `Working` says what a runner knows at each
stage (its key, its deposit, that the gate read true); `Held` is what is still true when
everything but chain and files is forgotten. A key in memory is the one on disk or one whose
write failed (`KeysAgree`); without that part a restart would break `KeyOfFundsKept`.

**GatewayProofs**, the stores. `IndexesStayUnique` (`IndexInv`): the file is never ahead of
memory and above every index handed out (`BelowFile`), and indexes on their way into a
credential are told apart from each other and from the ones in credentials (`HandedOutOnce`). A
restart takes `next` back to the file, and not below it. `AlwaysEarned` from `PastGates`: a
request past the gates belongs to an approved session of its own wallet, and no step takes that
back. `CustodyStaysKept`, `RevocationsSurvive`, `TypeCorrect`.

**GatewayProofs**, the HTTP service (`HttpInv`). `AnswersAreSound`: an answer is written in the
step that ends a request, whichever of the body's events comes first (`OneAnswer`).
`TokensWereLive`: `SignedForOwner` has every signature stand on a token that was handed out,
live when it was verified, for the session's wallet; `TokensShort` is why its life is short,
and `StandsOnChecks` that a session has its wallet before its applicant is created and keeps
it. `AnswersTellNothing`, an action property: the body is parsed and the gates of `IssueFault`
are asked only after the token was verified (`IssueAnswers`), and the owner before the
approval.

**GatewayProofs**, tokens (`JwsInv`). `AcceptedTokensAreSound`: no fault means that every check
was passed (`NoFault`), the one of the signature over header, payload and claims as they are,
under the verifier's key, among them. `TokensAreUsedOnce`: a call between its checks and the
answer of the store has passed them (`ChecksPassed`); a call that was told first sight has its
slot in `seen` (also in `ChecksPassed`), so the next one of that slot is told otherwise, and
every slot in `seen` goes back to such a call (`SlotsTaken`).

**GatewayProofs**, signatures. `SignaturesAreExact` holds for every `Width` that a short-form
length can hold (`DerAssumption`; 32 in the code). The loop that drops leading zeros is a
search for the least index of a byte that is not zero, which exists because the order on the
naturals is well founded. From it come the shape of a stripped scalar, that aligning undoes
stripping, where each byte of an encoding lies and what is read back there. That nothing but
such a layout is read is proved for every byte string, so it covers any edit of a signature.

**PortalAccountsProofs** (`PortalInv` = types, `SessionInv`, `AccountInv`, `ServerInv`).
`CallersWereSignedIn` has no hypothesis: every session in memory, in the file or in the reset
script's copy is the one its token was handed out for. `AnsweredAccountsLast`,
`SignedOutForGood` and `ResetsTakeHold` hold when the server is stopped for a reset
(`ServerStopped`; the script's header: "stop it, run this, start it"), and TLC refutes them
without it (section 6). Their core is how far a file may be behind memory:
`DroppedStaysDropped` (the file keeps no session that memory dropped, other than expired
ones and the one whose removal could not be written) carries a logout over a restart, and
`ScriptAlone` (what the script read is what the files still hold) carries everything over a
reset. `CondemnedAreGone` and `PasswordWritten` follow the reset to the restart.

The module also has the limiter, `TheLimiterPromises` (`LimiterInv`). `WindowsCount` says what
a window proves about the past: with one open (`OpenWindow`), at most the limit passed since
it opened and at most the limit in a window's time before that; with none (`NoOpenWindow`), at
most the limit in the last window's time. Any stretch as long as a window that ends in the
open one is covered by these two parts, hence twice the limit. A window was opened by an
attempt, which `tried` remembers, so a caller that was quiet for as long finds none open.

**AttestFlowProofs** (`AttestInv`). `ReportsAreTrue`: `RunAccounted` ties a run's stage and
outcome to its transaction and its nonce, whoever still polls for it. `RecordsAreOneRuns`: a
run whose nonce is spent has passed `sendTransaction` and changes its arguments no more.
`EpochsAreRead`, an action property: the decoder names a code only when a failure carries
exactly one (`OnlyCodeDecoded`), and `NoClaimRecord` means epoch 0 because a record is never
removed (`MissingRecordIsNew`).

**VerifierProofs.** `ResolverInv` (a signed list names its signer, a cached copy is a list of
an issuer pinned at its URL, a fetch is bounded by its GETs) gives `FetchesAreBounded` and,
with `OwnUrl`, `ServedListsAreOwn`. `VerifierInv` adds what a verification has established
at each await and how late it may be when it comes back: `ChallengesAnsweredOnce`
(`GuardCounts`), `AcceptancesHold` (`ChecksHold`, `WaitsInTime`). `RevocationsReachTheVerifier`
needs `OwnUrl` (no two issuers share a URL; section 6 has what happens otherwise) and
`SingleDefault` (`defaultIssuerId` is for "a single-issuer deployment",
`status/resolver.ts:365`), so that the list asked for is the one of the issuer whose key
verified the proof. The questions a verifier may ask are an assumption of Verifier
(`AskedQuestion`); `BasicQuestions` and `ConjunctionAsked` show that the library's predicates
and every `allOf` of them meet it.

Only model-checked:

- Liveness, `RunsEnd` and `ResolutionEnds`: reasoning under fairness and `ENABLED` is out of
  the prover's reach.
- `ListSound`: bit packing, base64 and the checksum are folds over data, and induction over
  data cannot be done here.

## 5. Not modelled

- The BLS12-381 arithmetic, hash-to-curve and the transcript of the BBS+ verifier, the
  point and generator code of the identity library, and the script that writes its test
  vectors. A proof verifies exactly when it was made for the key and the header.
- The T-REX adapter: `verify_identity` forwards the stored mask to `check` and keeps no
  verdict, so it answers what KycChain shows of `check` (an empty mask, a missing, ended
  or revoked record is refused). Its setters are single owner-gated assignments.
- HTML pages, wire formats, event-stream framing, logging and the wording of errors; the
  read-only routes; deployment and demo wiring; what an upgraded contract does.
- What an `onComplete` that throws leaves in the account file: RunRegistry has the throw, and
  PortalAccounts the failing write of a record, but PortalKyc and Onramp take the write of a
  verdict to succeed.
- Scrypt, ES256, Ed25519 and gzip are assumed to be what they are.

`PROJECT.json` lists every component with its status.

## 6. Where code and text disagree

Each statement below is a definition of its module, in a section of its own, and TLC
refutes it. `kyc_revoked_proofs` is kept as a run; for the others the definition is put
in place of the properties of the named configuration, with the constants given.

| Statement | Module | Refuted under |
|---|---|---|
| `ProofsDieWithTheirEpoch` | KycChain | run `kyc_revoked_proofs` |
| `RecordWithinEntryTtl` | KycChain | `KycRevokedProofs.cfg` |
| `CompletesOnce`, `FinishedRunsLeave` | RunRegistry | `RunRegistry.cfg` |
| `WalletDeployedOnce`, `RejectedWroteNothing` | PortalKyc | `PortalKyc.cfg` |
| `ListAlwaysServed` | Issuance | `Issuance.cfg` |
| `KeyAlwaysPersisted` | Onramp | `Onramp.cfg` |
| `ResetTakesHold` | PortalAccounts | `PortalAccounts.cfg` with `ResetWhileUp = TRUE` |
| `ScanAcceptsDisclosures` | AttestFlow | `AttestFlow.cfg` |
| `ServedOwnList` | StatusResolver | `StatusResolver.cfg` with `UrlOf <- OneUrl` |
| `InvalidateDropsOlder` | StatusResolver | `StatusResolver.cfg` |
| `MintedIsVerifiable` | Jws | `Units.cfg` with `SignRequests <- EmptyJti` |
| `DecoderAcceptsEncoded` | StatusList | `Units.cfg` with `MAX_STATUS_LIST_BYTES = 3` |
| `PrunedOnEveryCheck` | RateLimiter | `Units.cfg` |

- *A presentation derived before a revocation* can be accepted after it: the epoch is an
  argument of `attest_bbs` and is not part of what the proof binds. The doc of `revoke`
  (`contracts/kyc-gate/src/lib.rs:555`) says every such proof is dead.
- *A record may outlive its entry's TTL* when it is rewritten while the entry has more
  than the threshold left, against the comment at `lib.rs:38`; the entry is archived and
  restored, not lost.
- *`onComplete` can fire twice*, the second time marked late; the doc of `start`
  (`kyc-run.ts:84`) says exactly once.
- *A finished run is kept for ever* when its `onComplete` throws, as it does when the account
  file cannot be written: the eviction timer is armed after the call (`kyc-run.ts:117`; its
  doc, line 68, says a finished run is evicted).
- *A wallet may be deployed twice for an account*, after a timeout or a failed check
  (`portal-api.ts:86` says at most once); the account still keeps one (`WalletFixed`).
- *A rejected account may have a record on chain* from an earlier or overlapping run;
  `accounts.ts:198` says nothing was ever written.
- *The status list is refused as a whole* once an index past the default entry count is
  revoked: the handler never names a larger one, which `revocation-index.ts:70` requires.
- *A funding key may be lost*: `getOrCreate` puts the new secret into memory before the
  write that may throw. The next purchase finds it there, does not write it, and has
  funds sent to it; a restart loses the only copy (`onramp.ts:88`: "generates and
  persists one"). `KeyOfFundsKept` shows that this is the only way to lose one.
- *A reset beside a running server does not hold*: the server's next mutation rewrites
  both files from memory, with the old hash and the old sessions
  (`reset-password.ts:10` says it drops the live sessions). With the server stopped it holds.
- *A disclosure without `over18`* is accepted by the portal and fails the scan, whose
  positive control is always `over18` (`README.md:154` says it is a value the proof does
  disclose).
- *Two issuers at one URL* share a cache slot, and one is served the other's list
  (`status/resolver.ts:379`, against the comment at 362); the constructor rejects a
  second issuer id, and not a second issuer at one URL.
- *`invalidate()` does not reach a fetch in flight*, which puts its older copy back into
  the cache (`resolver.ts:602`).
- *An empty `jti` is signed* and then refused by every verification; `jws.ts:407` says a
  token that would be refused should not exist.
- *The encoder has no ceiling* where the decoder has one; `status-list.ts:604` names that
  disagreement as the one to prevent.
- *Expired windows stay in the limiter's map* until it holds more than its threshold;
  `portal-api.ts:294` says they are pruned on every check.

## 7. Plan

Done: the contracts and their promise; the run registry with the portal's KYC routes and
the on-ramp over it; accounts and sessions; issuance over the durable stores; the HTTP
service; the attestation flow; the status list from codec to resolver; off-chain
verification; tokens; the rate limiter; and the proofs of section 4. Left, in this order:

1. The failing writes of the account file under PortalKyc and Onramp.
2. Claim derivation from a provider's answer (`kyc/claims.ts`, `kyc/age.ts`,
   `kyc/record.ts`) as operators against a reference.

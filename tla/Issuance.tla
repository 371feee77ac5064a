----------------------------- MODULE Issuance -----------------------------
(***************************************************************************)
(* The gateway's credential issuance over the durable stores: a session is *)
(* opened for a wallet, approved when the provider says so, and traded for *)
(* a credential that carries a revocation index of its own; the holder     *)
(* keeps the credential, the issuer may revoke its index and publishes the *)
(* list of revoked ones.  The process may die between any two callbacks.   *)
(***************************************************************************)
EXTENDS DurableStores, FiniteSets

CONSTANTS
    NoWallet,           \* the wallet of a session that was not opened
    Session,            \* the uuids create() hands out, each at most once
    Request,            \* POST /v1/credentials/issue, each handled once
    NoSession,
    MAX_REVOCATION_INDEX,
    LIST_ENTRIES        \* MINIMUM_STATUS_LIST_ENTRIES, the entries of a list

VARIABLES
    sessions,           \* the session store; kept is FALSE once its process died
    tokens,             \* wallets whose owner holds a session JWT that verifies
    requests,           \* where each issue request stands
    listAnswer          \* the last answer of GET /v1/status-list/{issuer_id}

\* History, read by the properties only.
VARIABLES
    credentials,        \* every credential ever signed
    custodied,          \* wallets for which a put() has returned
    acked               \* indexes whose revoke() returned, and not cleared since

gatewayVars == <<sessions, tokens, requests, listAnswer>>
historyVars == <<credentials, custodied, acked>>
vars == <<storeVars, gatewayVars, historyVars>>

ASSUME IssuanceAssumption ==
    /\ NoWallet \notin Wallet
    /\ NoSession \notin Session
    /\ MAX_REVOCATION_INDEX \in Nat
    /\ LIST_ENTRIES \in Nat

SessionRecord ==
    [wallet : Wallet \cup {NoWallet}, status : {"pending", "approved"}, kept : BOOLEAN]

RequestState ==
    [at : {"new", "allocating", "signing", "delivered", "answered"},
     session : Session \cup {NoSession}, subject : Wallet \cup {NoWallet}, index : Index]

CredentialRecord ==
    [wallet : Wallet, session : Session, subject : Wallet, index : Index]

TypeOK ==
    /\ next \in Index /\ nextFile \in Index
    /\ revoked \subseteq Index /\ revokedFile \subseteq Index
    /\ custody \in [Wallet -> CredentialRecord \cup {NoCredential}]
    /\ custodyFile \in [Wallet -> CredentialRecord \cup {NoCredential}]
    /\ sessions \in [Session -> SessionRecord]
    /\ tokens \subseteq Wallet
    /\ requests \in [Request -> RequestState]
    /\ listAnswer \in {"none", "served", "refused"}
    /\ credentials \subseteq CredentialRecord
    /\ custodied \subseteq Wallet
    /\ acked \subseteq Index

Idle == [at |-> "new", session |-> NoSession, subject |-> NoWallet, index |-> 0]

Init ==
    /\ StoresInit
    /\ sessions = [s \in Session |-> [wallet |-> NoWallet, status |-> "pending",
                                      kept |-> FALSE]]
    /\ tokens = {}
    /\ requests = [q \in Request |-> Idle]
    /\ listAnswer = "none"
    /\ credentials = {}
    /\ custodied = {}
    /\ acked = {}

-----------------------------------------------------------------------------
(* Sessions.                                                               *)

\* POST /v1/session.  A handler that fails after create() leaves a session whose
\* id nobody learns.
OpenSession(s, w) ==
    /\ sessions[s].wallet = NoWallet
    /\ sessions' = [sessions EXCEPT ![s] = [wallet |-> w, status |-> "pending",
                                            kept |-> TRUE]]
    /\ tokens' = tokens \cup {w}
    /\ UNCHANGED <<storeVars, requests, listAnswer, historyVars>>

\* The provider reported an approval; setStatus refuses an unknown session.
ApproveSession(s) ==
    /\ sessions[s].kept
    /\ sessions' = [sessions EXCEPT ![s].status = "approved"]
    /\ UNCHANGED <<storeVars, tokens, requests, listAnswer, historyVars>>

\* The session JWT of a wallet runs out (15 minutes).
TokenExpires(w) ==
    /\ w \in tokens
    /\ tokens' = tokens \ {w}
    /\ UNCHANGED <<storeVars, sessions, requests, listAnswer, historyVars>>

-----------------------------------------------------------------------------
(* POST /v1/credentials/issue, from one await to the next.                 *)

\* enforceRouteAuth: the caller holds a token of this process that verifies.
Authenticated(subject) == subject \in tokens

\* Mutant: a verified token is enough.
AnySubject(s, subject) == TRUE

\* The token's subject is the wallet of the session the body names.
SessionSubjectBinding(s, subject) == sessions[s].wallet = subject

\* An unknown session is refused like one that is not approved.
Approved(s) == sessions[s].kept /\ sessions[s].status = "approved"

\* The gates before anything is spent.
IssueArrives(q, s, subject) ==
    /\ requests[q].at = "new"
    /\ Authenticated(subject)
    /\ SessionSubjectBinding(s, subject)
    /\ Approved(s)
    /\ requests' = [requests EXCEPT ![q] = [at |-> "allocating", session |-> s,
                                            subject |-> subject, index |-> 0]]
    /\ UNCHANGED <<storeVars, sessions, tokens, listAnswer, historyVars>>

Answered(q) == requests' = [requests EXCEPT ![q] = [Idle EXCEPT !.at = "answered"]]

\* The allocator answers; assertUsableRevocationIndex refuses an index that does
\* not fit the attestation's u32, and the index is burnt.
IndexAllocated(q) ==
    /\ requests[q].at = "allocating"
    /\ Allocate
    /\ IF next <= MAX_REVOCATION_INDEX
       THEN requests' = [requests EXCEPT ![q].at = "signing", ![q].index = next]
       ELSE Answered(q)
    /\ UNCHANGED <<sessions, tokens, listAnswer, historyVars>>

AllocationFails(q) ==
    /\ requests[q].at = "allocating"
    /\ AllocateUnsaved
    /\ Answered(q)
    /\ UNCHANGED <<sessions, tokens, listAnswer, historyVars>>

\* issue() signs for the wallet of the session; 201 carries the credential.
CredentialSigned(q) ==
    /\ requests[q].at = "signing"
    /\ credentials' = credentials \cup
         {[wallet |-> sessions[requests[q].session].wallet,
           session |-> requests[q].session, subject |-> requests[q].subject,
           index |-> requests[q].index]}
    /\ requests' = [requests EXCEPT ![q].at = "delivered"]
    /\ UNCHANGED <<storeVars, sessions, tokens, listAnswer, custodied, acked>>

\* issue() throws and the index is burnt.
SigningFails(q) ==
    /\ requests[q].at = "signing"
    /\ Answered(q)
    /\ UNCHANGED <<storeVars, sessions, tokens, listAnswer, historyVars>>

\* The credential of a delivered answer.
DeliveredTo(q, c) == c.session = requests[q].session /\ c.index = requests[q].index

\* The holder takes the answer into custody, keyed by its own wallet.
CredentialKept(q, c) ==
    /\ requests[q].at = "delivered"
    /\ DeliveredTo(q, c)
    /\ \/ /\ Put(requests[q].subject, c)
          /\ custodied' = custodied \cup {requests[q].subject}
       \/ /\ PutUnsaved(requests[q].subject, c)
          /\ UNCHANGED custodied
    /\ Answered(q)
    /\ UNCHANGED <<sessions, tokens, listAnswer, credentials, acked>>

-----------------------------------------------------------------------------
(* Revocation and the published list.                                      *)

RevokeIndex(index) ==
    /\ Revoke(index)
    /\ acked' = acked \cup {index}
    /\ UNCHANGED <<gatewayVars, credentials, custodied>>

RevokeThrows(index) ==
    /\ RevokeUnsaved(index)
    /\ UNCHANGED <<gatewayVars, historyVars>>

ClearIndex(index) ==
    /\ Clear(index) \/ ClearUnsaved(index)
    /\ acked' = acked \ {index}
    /\ UNCHANGED <<gatewayVars, credentials, custodied>>

\* encodeStatusList throws on an index it has no bit for.
Encodable(set, entries) == \A i \in set : i < entries

\* GET /v1/status-list: the handler names no entry count and gets the minimum.
ServeList ==
    /\ listAnswer' = IF Encodable(revoked, LIST_ENTRIES) THEN "served" ELSE "refused"
    /\ UNCHANGED <<storeVars, sessions, tokens, requests, historyVars>>

-----------------------------------------------------------------------------
\* The process dies and starts again: its sessions and requests are gone, and so
\* is the key that verified its tokens; the stores are read from their files.
Restart ==
    /\ Reload
    /\ sessions' = [s \in Session |-> [sessions[s] EXCEPT !.kept = FALSE]]
    /\ tokens' = {}
    /\ requests' = [q \in Request |-> IF requests[q].at = "new" THEN Idle
                                      ELSE [Idle EXCEPT !.at = "answered"]]
    /\ UNCHANGED <<listAnswer, historyVars>>

IssueStep(q) ==
    \/ \E s \in Session, w \in Wallet : IssueArrives(q, s, w)
    \/ IndexAllocated(q)
    \/ AllocationFails(q)
    \/ CredentialSigned(q)
    \/ SigningFails(q)
    \/ \E c \in credentials : CredentialKept(q, c)

\* Only an index that some credential carries is ever revoked or reinstated.
RevocationStep ==
    \E c \in credentials :
        \/ RevokeIndex(c.index)
        \/ RevokeThrows(c.index)
        \/ ClearIndex(c.index)

Next ==
    \/ \E s \in Session, w \in Wallet : OpenSession(s, w)
    \/ \E s \in Session : ApproveSession(s)
    \/ \E w \in Wallet : TokenExpires(w)
    \/ \E q \in Request : IssueStep(q)
    \/ RevocationStep
    \/ ServeList
    \/ Restart

Spec == Init /\ [][Next]_vars

-----------------------------------------------------------------------------
\* No two credentials share a revocation index, across failed writes, failed
\* signatures and restarts (durable.ts, "writes it BEFORE returning").
IndexesUnique ==
    \A c, d \in credentials : c.index = d.index => c = d

\* Every credential was issued for the wallet of an approved session, to a caller
\* whose token names that wallet (issue.ts, the two gates).
CredentialsEarned ==
    \A c \in credentials :
        /\ sessions[c.session].wallet = c.wallet
        /\ sessions[c.session].status = "approved"
        /\ c.subject = c.wallet

\* A revocation that was acknowledged is on the list and survives a restart,
\* also when an earlier attempt could not be saved (durable.ts, revoke).
RevocationSurvives == acked \subseteq revoked \cap revokedFile

\* A wallet whose credential was taken into custody has one to prove with after
\* any restart, and it is one signed for that wallet (durable.ts, put).
CustodyKept ==
    \A w \in custodied :
        \A c \in {custody[w], custodyFile[w]} : c \in credentials /\ c.wallet = w

-----------------------------------------------------------------------------
(* What the repository says and the code does not meet: README, section 6. *)

\* "Above this the publisher must be told a larger `entries` count, which it
\* supports" (revocation-index.ts, MINIMUM_LIST_CAPACITY).
ListAlwaysServed == listAnswer # "refused"
=============================================================================

--------------------------- MODULE GatewayProofs ---------------------------
(***************************************************************************)
(* Proofs about the gateway, in four parts.  Issuance over the durable     *)
(* stores, for every number of wallets, sessions, requests and restarts:   *)
(* revocation indexes are unique, every credential is earned, an           *)
(* acknowledged revocation survives, and what the holder took into custody *)
(* is its own.  The HTTP service: one answer for each request, tokens that *)
(* are live, answers that are discreet.  Tokens: what is accepted was      *)
(* signed, and once.  DER signatures: an exact translation, both ways.     *)
(***************************************************************************)
EXTENDS Issuance, GatewayHttp, Jws, DerSignature,
        FiniteSetTheorems, SequenceTheorems, WellFoundedInduction, TLAPS

-----------------------------------------------------------------------------
(* Issuance.                                                             *)

\* An index on its way into a credential.
Signing(q) == requests[q].at = "signing"

\* The file is never ahead of memory, and every index that was handed out lies
\* below what the file holds, so a restart cannot hand it out again.
BelowFile ==
    /\ nextFile <= next
    /\ \A q \in Request : Signing(q) => requests[q].index < nextFile
    /\ \A c \in credentials : c.index < nextFile

\* The indexes on their way into credentials are told apart from each other and
\* from the ones in credentials.
HandedOutOnce ==
    /\ \A p, q \in Request :
         Signing(p) /\ Signing(q) /\ requests[p].index = requests[q].index => p = q
    /\ \A q \in Request, c \in credentials :
         Signing(q) => requests[q].index # c.index

IndexInv == TypeOK /\ BelowFile /\ HandedOutOnce /\ IndexesUnique

\* A request past the gates belongs to an approved session of its own wallet.
PastGates ==
    \A q \in Request :
        requests[q].at \in {"allocating", "signing", "delivered"} =>
            /\ requests[q].session \in Session
            /\ requests[q].subject \in Wallet
            /\ sessions[requests[q].session].wallet = requests[q].subject
            /\ sessions[requests[q].session].status = "approved"

EarnedInv == TypeOK /\ PastGates /\ CredentialsEarned

-----------------------------------------------------------------------------
(* Type correctness.                                                       *)

\* The files do not exist and no process has done anything yet.
LEMMA InitType == Init => TypeOK
BY StoreAssumption DEF Init, StoresInit, TypeOK, Index, SessionRecord, RequestState, Idle

\* A request that is over holds nothing.
LEMMA AnsweredType ==
    ASSUME TypeOK, NEW q \in Request, Answered(q)
    PROVE  requests' \in [Request -> RequestState]
BY StoreAssumption DEF TypeOK, Answered, Idle, RequestState, Index

\* Every callback of an issue request keeps every type (issue.ts, kyc/issue.ts).
LEMMA IssueType ==
    ASSUME TypeOK, PastGates, NEW q \in Request, IssueStep(q)
    PROVE  TypeOK'
<1>1. ASSUME NEW s \in Session, NEW w \in Wallet, IssueArrives(q, s, w) PROVE TypeOK'
  <2>1. requests' \in [Request -> RequestState]
    BY <1>1, StoreAssumption DEF IssueArrives, TypeOK, RequestState, Index
  <2>2. QED
    BY <1>1, <2>1 DEF IssueArrives, TypeOK, storeVars, allocatorVars, statusVars, custodyVars,
                      historyVars
<1>2. ASSUME IndexAllocated(q) PROVE TypeOK'
  <2>1. next' \in Index /\ nextFile' \in Index
    BY <1>2, StoreAssumption DEF IndexAllocated, Allocate, TypeOK, Index
  <2>2. requests' \in [Request -> RequestState]
    <3>1. CASE next <= MAX_REVOCATION_INDEX
      BY <1>2, <3>1 DEF IndexAllocated, TypeOK, RequestState
    <3>2. CASE ~(next <= MAX_REVOCATION_INDEX)
      BY <1>2, <3>2, AnsweredType DEF IndexAllocated
    <3>3. QED
      BY <3>1, <3>2
  <2>3. QED
    BY <1>2, <2>1, <2>2 DEF IndexAllocated, Allocate, TypeOK, statusVars, custodyVars, historyVars
<1>3. ASSUME AllocationFails(q) PROVE TypeOK'
  <2>1. next' \in Index
    BY <1>3, StoreAssumption DEF AllocationFails, AllocateUnsaved, TypeOK, Index
  <2>2. QED
    BY <1>3, <2>1, AnsweredType
       DEF AllocationFails, AllocateUnsaved, TypeOK, statusVars, custodyVars, historyVars
<1>4. ASSUME CredentialSigned(q) PROVE TypeOK'
  <2>1. requests[q].session \in Session /\ requests[q].subject \in Wallet
        /\ sessions[requests[q].session].wallet = requests[q].subject
    BY <1>4 DEF PastGates, CredentialSigned
  <2>2. requests[q] \in RequestState
    BY DEF TypeOK
  <2>3. credentials' \subseteq CredentialRecord
    BY <1>4, <2>1, <2>2 DEF CredentialSigned, TypeOK, CredentialRecord, RequestState
  <2>4. requests' \in [Request -> RequestState]
    BY <1>4 DEF CredentialSigned, TypeOK, RequestState
  <2>5. QED
    BY <1>4, <2>3, <2>4
       DEF CredentialSigned, TypeOK, storeVars, allocatorVars, statusVars, custodyVars
<1>5. ASSUME SigningFails(q) PROVE TypeOK'
  BY <1>5, AnsweredType
     DEF SigningFails, TypeOK, storeVars, allocatorVars, statusVars, custodyVars, historyVars
<1>6. ASSUME NEW c \in credentials, CredentialKept(q, c) PROVE TypeOK'
  <2>1. requests[q].subject \in Wallet /\ c \in CredentialRecord
    BY <1>6 DEF CredentialKept, PastGates, TypeOK
  <2>2. /\ custody' \in [Wallet -> CredentialRecord \cup {NoCredential}]
        /\ custodyFile' \in [Wallet -> CredentialRecord \cup {NoCredential}]
        /\ custodied' \subseteq Wallet
        /\ UNCHANGED <<allocatorVars, statusVars>>
    BY <1>6, <2>1 DEF CredentialKept, Put, PutUnsaved, TypeOK
  <2>3. QED
    BY <1>6, <2>2, AnsweredType DEF CredentialKept, TypeOK, allocatorVars, statusVars
<1>7. QED
  BY <1>1, <1>2, <1>3, <1>4, <1>5, <1>6 DEF IssueStep

\* Every step keeps every type.
LEMMA StepType == TypeOK /\ PastGates /\ [Next]_vars => TypeOK'
<1> SUFFICES ASSUME TypeOK, PastGates, [Next]_vars PROVE TypeOK'
  OBVIOUS
<1> USE DEF storeVars, allocatorVars, statusVars, custodyVars, gatewayVars, historyVars
<1>1. CASE \E s \in Session, w \in Wallet : OpenSession(s, w)
  BY <1>1 DEF OpenSession, TypeOK, SessionRecord
<1>2. CASE \E s \in Session : ApproveSession(s)
  BY <1>2 DEF ApproveSession, TypeOK, SessionRecord
<1>3. CASE \E w \in Wallet : TokenExpires(w)
  BY <1>3 DEF TokenExpires, TypeOK
<1>4. CASE \E q \in Request : IssueStep(q)
  BY <1>4, IssueType
<1>5. CASE RevocationStep
  <2>1. PICK c \in credentials : \/ RevokeIndex(c.index) \/ RevokeThrows(c.index)
                                 \/ ClearIndex(c.index)
    BY <1>5 DEF RevocationStep
  <2>2. c.index \in Index
    BY DEF TypeOK, CredentialRecord
  <2>3. QED
    BY <2>1, <2>2 DEF RevokeIndex, RevokeThrows, ClearIndex, Revoke, RevokeUnsaved, Clear,
                      ClearUnsaved, TypeOK
<1>6. CASE ServeList
  BY <1>6 DEF ServeList, TypeOK
<1>7. CASE Restart
  <2>1. requests' \in [Request -> RequestState]
    BY <1>7, StoreAssumption DEF Restart, TypeOK, RequestState, Idle, Index
  <2>2. sessions' \in [Session -> SessionRecord]
    BY <1>7 DEF Restart, TypeOK, SessionRecord
  <2>3. QED
    BY <1>7, <2>1, <2>2 DEF Restart, Reload, TypeOK
<1>8. CASE UNCHANGED vars
  BY <1>8 DEF vars, TypeOK
<1>9. QED
  BY <1>1, <1>2, <1>3, <1>4, <1>5, <1>6, <1>7, <1>8 DEF Next

-----------------------------------------------------------------------------
(* Every credential is earned.                                             *)

\* No step takes a wallet or an approval away from a session that was opened: a
\* restart drops the session and issues nothing for it.
LEMMA SessionsStand ==
    ASSUME TypeOK, [Next]_vars, NEW s \in Session, sessions[s].wallet # NoWallet
    PROVE  /\ sessions'[s].wallet = sessions[s].wallet
           /\ sessions[s].status = "approved" => sessions'[s].status = "approved"
<1>1. CASE \E t \in Session, w \in Wallet : OpenSession(t, w)
  BY <1>1 DEF OpenSession, TypeOK
<1>2. CASE \E t \in Session : ApproveSession(t)
  BY <1>2 DEF ApproveSession, TypeOK, SessionRecord
<1>3. CASE Restart
  BY <1>3 DEF Restart, TypeOK, SessionRecord
<1>4. CASE UNCHANGED sessions
  BY <1>4
<1>5. QED
  BY <1>1, <1>2, <1>3, <1>4
     DEF Next, TokenExpires, IssueStep, IssueArrives, IndexAllocated, AllocationFails,
         CredentialSigned, SigningFails, CredentialKept, RevocationStep, RevokeIndex,
         RevokeThrows, ClearIndex, ServeList, vars, gatewayVars

\* A request is past the gates because it just passed them or was there before.
LEMMA GatesStand ==
    ASSUME TypeOK, [Next]_vars, NEW q \in Request,
           requests'[q].at \in {"allocating", "signing", "delivered"}
    PROVE  \/ \E s \in Session, w \in Wallet :
                /\ IssueArrives(q, s, w)
                /\ requests'[q].session = s /\ requests'[q].subject = w
           \/ /\ requests[q].at \in {"allocating", "signing", "delivered"}
              /\ requests'[q].session = requests[q].session
              /\ requests'[q].subject = requests[q].subject
<1>1. CASE \E p \in Request : IssueStep(p)
  <2>1. PICK p \in Request : IssueStep(p)
    BY <1>1
  <2>2. CASE \E s \in Session, w \in Wallet : IssueArrives(p, s, w)
    <3>1. PICK s \in Session, w \in Wallet : IssueArrives(p, s, w)
      BY <2>2
    <3>2. requests' = [requests EXCEPT ![p] = [at |-> "allocating", session |-> s,
                                               subject |-> w, index |-> 0]]
      BY <3>1 DEF IssueArrives
    <3>3. CASE p = q
      BY <3>1, <3>2, <3>3 DEF TypeOK
    <3>4. CASE p # q
      BY <3>2, <3>4 DEF TypeOK
    <3>5. QED
      BY <3>3, <3>4
  <2>3. CASE IndexAllocated(p) \/ AllocationFails(p) \/ CredentialSigned(p)
             \/ SigningFails(p) \/ \E c \in credentials : CredentialKept(p, c)
    BY <2>3 DEF IndexAllocated, AllocationFails, CredentialSigned, SigningFails, CredentialKept,
                Answered, Idle, TypeOK, RequestState
  <2>4. QED
    BY <2>1, <2>2, <2>3 DEF IssueStep
<1>2. CASE Restart
  BY <1>2 DEF Restart, Idle
<1>3. CASE UNCHANGED requests
  BY <1>3
<1>4. QED
  BY <1>1, <1>2, <1>3
     DEF Next, OpenSession, ApproveSession, TokenExpires, RevocationStep, RevokeIndex,
         RevokeThrows, ClearIndex, ServeList, vars, gatewayVars

\* The gates of an issue request hold until its answer.
LEMMA StepGates == TypeOK /\ PastGates /\ [Next]_vars => PastGates'
<1> SUFFICES ASSUME TypeOK, PastGates, [Next]_vars, NEW q \in Request,
                    requests'[q].at \in {"allocating", "signing", "delivered"}
             PROVE  /\ requests'[q].session \in Session
                    /\ requests'[q].subject \in Wallet
                    /\ sessions'[requests'[q].session].wallet = requests'[q].subject
                    /\ sessions'[requests'[q].session].status = "approved"
  BY DEF PastGates
<1>1. CASE \E s \in Session, w \in Wallet :
             /\ IssueArrives(q, s, w)
             /\ requests'[q].session = s /\ requests'[q].subject = w
  BY <1>1 DEF IssueArrives, SessionSubjectBinding, Approved
<1>2. CASE /\ requests[q].at \in {"allocating", "signing", "delivered"}
           /\ requests'[q].session = requests[q].session
           /\ requests'[q].subject = requests[q].subject
  <2>1. /\ requests[q].session \in Session
        /\ requests[q].subject \in Wallet
        /\ sessions[requests[q].session].wallet = requests[q].subject
        /\ sessions[requests[q].session].status = "approved"
    BY <1>2 DEF PastGates
  <2>2. requests[q].subject # NoWallet
    BY <2>1, IssuanceAssumption
  <2>3. QED
    BY <1>2, <2>1, <2>2, SessionsStand
<1>3. QED
  BY <1>1, <1>2, GatesStand

\* A credential is new because a request past the gates was signed.
LEMMA NewCredential ==
    ASSUME [Next]_vars, NEW c \in credentials', c \notin credentials
    PROVE  \E q \in Request :
             /\ CredentialSigned(q)
             /\ c = [wallet |-> sessions[requests[q].session].wallet,
                     session |-> requests[q].session, subject |-> requests[q].subject,
                     index |-> requests[q].index]
<1>1. \/ UNCHANGED credentials
      \/ \E q \in Request : CredentialSigned(q)
  BY DEF Next, OpenSession, ApproveSession, TokenExpires, IssueStep, IssueArrives,
         IndexAllocated, AllocationFails, SigningFails, CredentialKept, RevocationStep,
         RevokeIndex, RevokeThrows, ClearIndex, ServeList, Restart, vars, historyVars
<1>2. QED
  BY <1>1 DEF CredentialSigned

\* The invariant behind CredentialsEarned is inductive.
LEMMA StepEarned == EarnedInv /\ [Next]_vars => EarnedInv'
<1> SUFFICES ASSUME EarnedInv, [Next]_vars PROVE EarnedInv'
  OBVIOUS
<1>1. TypeOK' /\ PastGates'
  BY StepType, StepGates DEF EarnedInv
<1>2. ASSUME NEW c \in credentials'
      PROVE  /\ sessions'[c.session].wallet = c.wallet
             /\ sessions'[c.session].status = "approved"
             /\ c.subject = c.wallet
  <2>1. CASE c \in credentials
    <3>1. c.session \in Session /\ c.wallet \in Wallet
      BY <2>1 DEF EarnedInv, TypeOK, CredentialRecord
    <3>2. /\ sessions[c.session].wallet = c.wallet
          /\ sessions[c.session].status = "approved"
          /\ c.subject = c.wallet
      BY <2>1 DEF EarnedInv, CredentialsEarned
    <3>3. QED
      BY <3>1, <3>2, SessionsStand, IssuanceAssumption DEF EarnedInv
  <2>2. CASE c \notin credentials
    <3>1. PICK q \in Request :
            /\ CredentialSigned(q)
            /\ c = [wallet |-> sessions[requests[q].session].wallet,
                    session |-> requests[q].session, subject |-> requests[q].subject,
                    index |-> requests[q].index]
      BY <2>2, NewCredential
    <3>2. QED
      BY <3>1 DEF CredentialSigned, EarnedInv, PastGates
  <2>3. QED
    BY <2>1, <2>2
<1>3. QED
  BY <1>1, <1>2 DEF EarnedInv, CredentialsEarned

\* The invariant behind CredentialsEarned holds throughout.
LEMMA EarnedInvariant == Spec => []EarnedInv
<1>1. Init => EarnedInv
  BY InitType DEF Init, EarnedInv, PastGates, CredentialsEarned, Idle
<1>2. QED
  BY <1>1, StepEarned, PTL DEF Spec

\* Every reachable state of the gateway and its stores is well typed.
THEOREM TypeCorrect == Spec => []TypeOK
BY EarnedInvariant, PTL DEF EarnedInv

\* Every credential was issued for the wallet of an approved session, to a caller
\* whose token names that wallet (issue.ts, the two gates).
THEOREM AlwaysEarned == Spec => []CredentialsEarned
BY EarnedInvariant, PTL DEF EarnedInv

-----------------------------------------------------------------------------
(* Revocation indexes are unique.                                          *)

\* A request that signs was signing before, unless its index was just allocated.
LEMMA SigningStands ==
    ASSUME TypeOK, [Next]_vars, NEW q \in Request, Signing(q)'
    PROVE  \/ IndexAllocated(q) /\ requests'[q].index = next
           \/ Signing(q) /\ requests'[q].index = requests[q].index
<1>1. CASE \E p \in Request : IndexAllocated(p)
  <2>1. PICK p \in Request : IndexAllocated(p)
    BY <1>1
  <2>2. \/ requests' = [requests EXCEPT ![p].at = "signing", ![p].index = next]
        \/ requests' = [requests EXCEPT ![p] = [Idle EXCEPT !.at = "answered"]]
    BY <2>1 DEF IndexAllocated, Answered
  <2>3. CASE p = q
    BY <2>1, <2>2, <2>3 DEF TypeOK, RequestState, Signing, Idle
  <2>4. CASE p # q
    BY <2>2, <2>4 DEF TypeOK, Signing
  <2>5. QED
    BY <2>3, <2>4
<1>2. CASE \E p \in Request, s \in Session, w \in Wallet : IssueArrives(p, s, w)
  BY <1>2 DEF IssueArrives, TypeOK, Signing
<1>3. CASE \E p \in Request : AllocationFails(p) \/ SigningFails(p)
                              \/ \E c \in credentials : CredentialKept(p, c)
  BY <1>3 DEF AllocationFails, SigningFails, CredentialKept, Answered, Idle, TypeOK, Signing
<1>4. CASE \E p \in Request : CredentialSigned(p)
  BY <1>4 DEF CredentialSigned, TypeOK, RequestState, Signing
<1>5. CASE Restart
  BY <1>5 DEF Restart, Idle, Signing
<1>6. CASE UNCHANGED requests
  BY <1>6 DEF Signing
<1>7. QED
  BY <1>1, <1>2, <1>3, <1>4, <1>5, <1>6
     DEF Next, IssueStep, OpenSession, ApproveSession, TokenExpires, RevocationStep,
         RevokeIndex, RevokeThrows, ClearIndex, ServeList, vars, gatewayVars

\* The counter and its file: the file only grows, and what is handed out lies at
\* or above the file before the step and below it after the step.
LEMMA CounterSteps ==
    ASSUME TypeOK, nextFile <= next, [Next]_vars
    PROVE  /\ nextFile' >= nextFile
           /\ nextFile' <= next'
           /\ \A q \in Request : IndexAllocated(q) => next < nextFile'
<1>0. next \in Int /\ nextFile \in Int
  BY DEF TypeOK, Index
<1>1. CASE \E q \in Request : IndexAllocated(q)
  BY <1>0, <1>1 DEF IndexAllocated, Allocate
<1>2. CASE \E q \in Request : AllocationFails(q)
  BY <1>0, <1>2 DEF AllocationFails, AllocateUnsaved, IndexAllocated, Allocate
<1>3. CASE Restart
  BY <1>0, <1>3 DEF Restart, Reload, IndexAllocated, Allocate
<1>4. CASE UNCHANGED allocatorVars
  BY <1>0, <1>4 DEF allocatorVars, IndexAllocated, Allocate
<1>5. QED
  BY <1>1, <1>2, <1>3, <1>4
     DEF Next, IssueStep, OpenSession, ApproveSession, TokenExpires, RevocationStep,
         RevokeIndex, RevokeThrows, ClearIndex, ServeList, IssueArrives, CredentialSigned,
         SigningFails, CredentialKept, Put, PutUnsaved, Revoke, RevokeUnsaved, Clear,
         ClearUnsaved, vars, storeVars

\* At most one request is given an index in a step.
LEMMA OneAllocation ==
    ASSUME TypeOK, NEW p \in Request, NEW q \in Request, IndexAllocated(p),
           Signing(p)', Signing(q)', IndexAllocated(q)
    PROVE  p = q
<1> SUFFICES ASSUME p # q PROVE FALSE
  OBVIOUS
<1>1. \/ requests' = [requests EXCEPT ![p].at = "signing", ![p].index = next]
      \/ requests' = [requests EXCEPT ![p] = [Idle EXCEPT !.at = "answered"]]
  BY DEF IndexAllocated, Answered
<1>2. requests'[q].at = requests[q].at
  BY <1>1 DEF TypeOK
<1>3. QED
  BY <1>2 DEF IndexAllocated, Signing

\* The invariant behind IndexesUnique is inductive.
LEMMA StepIndex == PastGates /\ IndexInv /\ [Next]_vars => IndexInv'
<1> SUFFICES ASSUME PastGates, IndexInv, [Next]_vars PROVE IndexInv'
  OBVIOUS
<1>1. TypeOK /\ TypeOK'
  BY StepType DEF IndexInv
<1>2. /\ next \in Int /\ nextFile \in Int /\ next' \in Int /\ nextFile' \in Int
      /\ \A q \in Request : requests[q].index \in Int
      /\ \A c \in credentials' : c.index \in Int
  BY <1>1 DEF TypeOK, Index, RequestState, CredentialRecord
<1>3. /\ nextFile' >= nextFile /\ nextFile' <= next'
      /\ \A q \in Request : IndexAllocated(q) => next < nextFile'
  BY <1>1, CounterSteps DEF IndexInv, BelowFile
<1>4. ASSUME NEW q \in Request, Signing(q)'
      PROVE  \/ IndexAllocated(q) /\ requests'[q].index = next
             \/ Signing(q) /\ requests'[q].index = requests[q].index
  BY <1>1, <1>4, SigningStands
<1>5. ASSUME NEW c \in credentials', c \notin credentials
      PROVE  \E q \in Request : CredentialSigned(q) /\ Signing(q) /\ c.index = requests[q].index
                                /\ credentials' = credentials \cup {c}
  <2>1. PICK q \in Request : /\ CredentialSigned(q)
                             /\ c = [wallet |-> sessions[requests[q].session].wallet,
                                     session |-> requests[q].session,
                                     subject |-> requests[q].subject,
                                     index |-> requests[q].index]
    BY <1>5, NewCredential
  <2>2. QED
    BY <2>1 DEF CredentialSigned, Signing
<1>6. BelowFile'
  <2>1. ASSUME NEW q \in Request, Signing(q)' PROVE requests'[q].index < nextFile'
    BY <1>2, <1>3, <1>4, <2>1 DEF IndexInv, BelowFile
  <2>2. ASSUME NEW c \in credentials' PROVE c.index < nextFile'
    BY <1>2, <1>3, <1>5 DEF IndexInv, BelowFile
  <2>3. QED
    BY <1>3, <2>1, <2>2 DEF BelowFile
<1>7. HandedOutOnce'
  <2>1. ASSUME NEW p \in Request, NEW q \in Request, Signing(p)', Signing(q)',
               requests'[p].index = requests'[q].index
        PROVE  p = q
    <3>1. CASE IndexAllocated(p) /\ IndexAllocated(q)
      BY <1>1, <2>1, <3>1, OneAllocation
    <3>2. CASE Signing(p) /\ requests'[p].index = requests[p].index
               /\ Signing(q) /\ requests'[q].index = requests[q].index
      BY <2>1, <3>2 DEF IndexInv, HandedOutOnce
    <3>3. \A r \in Request : Signing(r) => requests[r].index < next
      BY <1>2 DEF IndexInv, BelowFile
    <3>4. QED
      BY <1>2, <1>4, <2>1, <3>1, <3>2, <3>3
  <2>2. ASSUME NEW q \in Request, NEW c \in credentials', Signing(q)'
        PROVE  requests'[q].index # c.index
    <3>1. CASE c \in credentials
      BY <1>2, <1>4, <2>2, <3>1 DEF IndexInv, BelowFile, HandedOutOnce
    <3>2. CASE c \notin credentials
      <4>1. PICK p \in Request : CredentialSigned(p) /\ Signing(p) /\ c.index = requests[p].index
        BY <1>5, <3>2
      <4>2. requests' = [requests EXCEPT ![p].at = "delivered"]
        BY <4>1 DEF CredentialSigned
      <4>3. p # q
        BY <1>1, <2>2, <4>2 DEF TypeOK, RequestState, Signing
      <4>4. requests'[q] = requests[q]
        BY <1>1, <4>2, <4>3 DEF TypeOK
      <4>5. QED
        BY <2>2, <4>1, <4>3, <4>4 DEF IndexInv, HandedOutOnce, Signing
    <3>3. QED
      BY <3>1, <3>2
  <2>3. QED
    BY <2>1, <2>2 DEF HandedOutOnce
<1>8. IndexesUnique'
  <2> SUFFICES ASSUME NEW c \in credentials', NEW d \in credentials', c.index = d.index
               PROVE  c = d
    BY DEF IndexesUnique
  <2>1. CASE c \in credentials /\ d \in credentials
    BY <2>1 DEF IndexInv, IndexesUnique
  <2>2. CASE c \notin credentials
    BY <1>5, <2>2 DEF IndexInv, HandedOutOnce
  <2>3. CASE d \notin credentials
    BY <1>5, <2>3 DEF IndexInv, HandedOutOnce
  <2>4. QED
    BY <2>1, <2>2, <2>3
<1>9. QED
  BY <1>1, <1>6, <1>7, <1>8 DEF IndexInv

\* No two credentials share a revocation index, whatever writes and signatures
\* fail and however often the process restarts (durable.ts, allocate).
THEOREM IndexesStayUnique == Spec => []IndexesUnique
<1>1. Init => IndexInv
  BY InitType, StoreAssumption
     DEF Init, StoresInit, IndexInv, BelowFile, HandedOutOnce, IndexesUnique, Signing, Idle
<1>2. Spec => []PastGates
  BY EarnedInvariant, PTL DEF EarnedInv
<1>3. IndexInv => IndexesUnique
  BY DEF IndexInv
<1>4. QED
  BY <1>1, <1>2, <1>3, StepIndex, PTL DEF Spec

-----------------------------------------------------------------------------
(* Acknowledged revocations survive.                                       *)

\* Only the status list's own operations touch it or what was acknowledged.
LEMMA StepRevocation == RevocationSurvives /\ [Next]_vars => RevocationSurvives'
<1> SUFFICES ASSUME RevocationSurvives, [Next]_vars PROVE RevocationSurvives'
  OBVIOUS
<1>1. CASE RevocationStep
  <2>1. PICK c \in credentials : \/ RevokeIndex(c.index) \/ RevokeThrows(c.index)
                                 \/ ClearIndex(c.index)
    BY <1>1 DEF RevocationStep
  <2>2. CASE RevokeIndex(c.index)
    BY <2>2 DEF RevokeIndex, Revoke, RevocationSurvives
  <2>3. CASE RevokeThrows(c.index)
    BY <2>3 DEF RevokeThrows, RevokeUnsaved, RevocationSurvives, historyVars
  <2>4. CASE ClearIndex(c.index)
    BY <2>4 DEF ClearIndex, Clear, ClearUnsaved, RevocationSurvives
  <2>5. QED
    BY <2>1, <2>2, <2>3, <2>4
<1>2. CASE Restart
  BY <1>2 DEF Restart, Reload, RevocationSurvives, historyVars
<1>3. CASE UNCHANGED <<statusVars, acked>>
  BY <1>3 DEF statusVars, RevocationSurvives
<1>4. QED
  BY <1>1, <1>2, <1>3
     DEF Next, IssueStep, OpenSession, ApproveSession, TokenExpires, ServeList, IssueArrives,
         IndexAllocated, Allocate, AllocationFails, AllocateUnsaved, CredentialSigned,
         SigningFails, CredentialKept, Put, PutUnsaved, vars, storeVars, historyVars

\* A revocation whose call returned stays on the list and in its file until it is
\* cleared, through failed writes and restarts (durable.ts, revoke).
THEOREM RevocationsSurvive == Spec => []RevocationSurvives
<1>1. Init => RevocationSurvives
  BY DEF Init, RevocationSurvives
<1>2. QED
  BY <1>1, StepRevocation, PTL DEF Spec

-----------------------------------------------------------------------------
(* Custody.                                                                *)

\* What a delivered answer carries was signed for the wallet it is kept under.
LEMMA KeptIsOwn ==
    ASSUME EarnedInv, NEW q \in Request, NEW c \in credentials, CredentialKept(q, c)
    PROVE  requests[q].subject \in Wallet /\ c.wallet = requests[q].subject
<1>1. requests[q].at = "delivered" /\ c.session = requests[q].session
  BY DEF CredentialKept, DeliveredTo
<1>2. /\ requests[q].subject \in Wallet
      /\ sessions[requests[q].session].wallet = requests[q].subject
  BY <1>1 DEF EarnedInv, PastGates
<1>3. sessions[c.session].wallet = c.wallet
  BY DEF EarnedInv, CredentialsEarned
<1>4. QED
  BY <1>1, <1>2, <1>3

\* A put writes the whole of memory, and a write that fails leaves the file with
\* what an earlier one wrote.
LEMMA StepCustody == EarnedInv /\ CustodyKept /\ [Next]_vars => CustodyKept'
<1> SUFFICES ASSUME EarnedInv, CustodyKept, [Next]_vars PROVE CustodyKept'
  OBVIOUS
<1>1. custodied \subseteq Wallet /\ DOMAIN custody = Wallet /\ DOMAIN custodyFile = Wallet
  BY DEF EarnedInv, TypeOK
<1>2. ASSUME NEW q \in Request, NEW c \in credentials, CredentialKept(q, c)
      PROVE  CustodyKept'
  <2>1. requests[q].subject \in Wallet /\ c.wallet = requests[q].subject
    BY <1>2, KeptIsOwn
  <2>2. /\ custody' = [custody EXCEPT ![requests[q].subject] = c]
        /\ credentials' = credentials
        /\ \/ custodyFile' = custody' /\ custodied' = custodied \cup {requests[q].subject}
           \/ custodyFile' = custodyFile /\ custodied' = custodied
    BY <1>2 DEF CredentialKept, Put, PutUnsaved
  <2>3. ASSUME NEW w \in custodied'
        PROVE  /\ custody'[w] \in credentials /\ custody'[w].wallet = w
               /\ custodyFile'[w] \in credentials /\ custodyFile'[w].wallet = w
    <3>1. w \in Wallet /\ (w \in custodied \/ w = requests[q].subject)
      BY <1>1, <2>1, <2>2
    <3>2. custody'[w] \in credentials /\ custody'[w].wallet = w
      BY <1>1, <2>1, <2>2, <3>1 DEF CustodyKept
    <3>3. QED
      BY <2>2, <3>2 DEF CustodyKept
  <2>4. QED
    BY <2>2, <2>3 DEF CustodyKept
<1>3. CASE Restart
  BY <1>3 DEF Restart, Reload, CustodyKept, historyVars
<1>4. CASE credentials \subseteq credentials' /\ UNCHANGED <<custodyVars, custodied>>
  BY <1>4 DEF CustodyKept, custodyVars
<1>5. QED
  BY <1>2, <1>3, <1>4
     DEF Next, OpenSession, ApproveSession, TokenExpires, IssueStep, IssueArrives,
         IndexAllocated, Allocate, AllocationFails, AllocateUnsaved, CredentialSigned,
         SigningFails, RevocationStep, RevokeIndex, Revoke, RevokeThrows, RevokeUnsaved,
         ClearIndex, Clear, ClearUnsaved, ServeList, vars, storeVars, historyVars

\* A wallet whose credential was taken into custody has one in memory and in the
\* file, after failed writes and restarts too, and it was signed for that wallet
\* (durable.ts, put).
THEOREM CustodyStaysKept == Spec => []CustodyKept
<1>1. Init => CustodyKept
  BY DEF Init, CustodyKept
<1>2. Init /\ []EarnedInv /\ [][Next]_vars => []CustodyKept
  BY <1>1, StepCustody, PTL
<1>3. QED
  BY <1>2, EarnedInvariant, PTL DEF Spec

-----------------------------------------------------------------------------
(* The HTTP service: one answer for each request, tokens that are live.    *)

\* A request that is not answered has no answer, and one that is has exactly one.
OneAnswer ==
    \A q \in Req : IF req[q].at = "answered" THEN \E code \in DOMAIN Answers : answers[q] = {code}
                   ELSE answers[q] = {}

\* What a request holds where it stands: nothing is known of it before it arrives, and
\* an applicant is created for a session that has its wallet.
StandsOnChecks ==
    \A q \in Req :
        /\ req[q].at = "new" => req[q].what = NewRequest.what
        /\ req[q].at = "reading" => req[q].what # NewRequest.what
        /\ req[q].at = "applicant" =>
             req[q].session \in SessionId /\ sessionStore[req[q].session].wallet # None

\* Every token that was handed out lives for the longest lifetime.
TokensShort == \A t \in handedOut : t.exp - t.nbf = SESSION_JWT_MAX_TTL_SECONDS

\* What was signed, was signed for a token of the session's own wallet, inside its window.
SignedForOwner ==
    \A i \in issued : /\ i.token \in handedOut
                      /\ i.token.nbf <= i.time /\ i.time < i.token.exp
                      /\ i.token.sub = sessionStore[i.session].wallet
                      /\ i.token.sub # None

HttpInv == HttpTypeOK /\ OneAnswer /\ StandsOnChecks /\ TokensShort /\ SignedForOwner

LEMMA HttpInitInv == HttpInit => HttpInv
BY GatewayAssumption
   DEF HttpInit, HttpInv, HttpTypeOK, OneAnswer, StandsOnChecks, TokensShort, SignedForOwner,
       HttpRequestState, NewRequest

\* Only the answers of the request change, and it had none (http.ts, writeJson).
LEMMA WritesOnce ==
    ASSUME HttpInv, NEW q \in Req, req[q].at # "answered", NEW code \in DOMAIN Answers,
           Writes(q, code)
    PROVE  /\ req' \in [Req -> HttpRequestState]
           /\ answers' \in [Req -> SUBSET DOMAIN Answers]
           /\ answers'[q] = {code} /\ req'[q].at = "answered"
           /\ \A p \in Req \ {q} : answers'[p] = answers[p] /\ req'[p] = req[p]
<1>1. NewRequest \in HttpRequestState
  BY GatewayAssumption DEF NewRequest, HttpRequestState
<1>2. req' = [req EXCEPT ![q] = [NewRequest EXCEPT !.at = "answered"]]
      /\ answers' = [answers EXCEPT ![q] = answers[q] \cup {code}]
  BY DEF Writes
<1>3. [NewRequest EXCEPT !.at = "answered"] \in HttpRequestState
  BY <1>1 DEF NewRequest, HttpRequestState
<1>4. answers[q] = {}
  BY DEF HttpInv, OneAnswer
<1>5. req \in [Req -> HttpRequestState] /\ answers \in [Req -> SUBSET DOMAIN Answers]
  BY DEF HttpInv, HttpTypeOK
<1>6. [NewRequest EXCEPT !.at = "answered"].at = "answered"
  BY DEF NewRequest
<1>7. req' \in [Req -> HttpRequestState] /\ req'[q].at = "answered"
  BY <1>2, <1>3, <1>5, <1>6
<1>8. answers' \in [Req -> SUBSET DOMAIN Answers] /\ answers'[q] = {code}
  BY <1>2, <1>4, <1>5
<1>9. QED
  BY <1>2, <1>5, <1>7, <1>8

\* A step that writes an answer and touches nothing else keeps the invariant.
LEMMA WritesInv ==
    ASSUME HttpInv, NEW q \in Req, req[q].at # "answered", NEW code \in DOMAIN Answers,
           Writes(q, code), UNCHANGED <<seam, seconds, sessionStore, handedOut, body, issued>>
    PROVE  HttpInv'
<1>1. HttpTypeOK'
  BY WritesOnce DEF HttpInv, HttpTypeOK
<1>2. OneAnswer'
  BY WritesOnce DEF HttpInv, OneAnswer
<1>3. StandsOnChecks'
  BY WritesOnce DEF HttpInv, StandsOnChecks
<1>4. QED
  BY <1>1, <1>2, <1>3 DEF HttpInv, TokensShort, SignedForOwner

LEMMA ArrivesInv ==
    ASSUME HttpInv, NEW q \in Req, NEW r \in HttpRequest, NEW long \in BOOLEAN,
           Arrives(q, r, long), UNCHANGED seam
    PROVE  HttpInv'
<1>1. req[q].at = "new" /\ UNCHANGED <<seam, seconds, sessionStore, handedOut, body, issued>>
  BY DEF Arrives
<1>2. ASSUME NEW code \in DOMAIN Answers, Writes(q, code) PROVE HttpInv'
  BY <1>1, <1>2, WritesInv
<1>3. ASSUME req' = [req EXCEPT ![q] = [@ EXCEPT !.at = "reading", !.what = r]], UNCHANGED answers
      PROVE  HttpInv'
  <2>1. r \in [path : Paths, method : Methods, token : TokenRecord \cup {NoToken}, body : Bodies]
    BY DEF HttpRequest, HttpInv, HttpTypeOK, Bodies
  <2>2. req[q] \in HttpRequestState
    BY DEF HttpInv, HttpTypeOK
  <2>3. [req[q] EXCEPT !.at = "reading", !.what = r] \in HttpRequestState
    BY <2>1, <2>2 DEF HttpRequestState
  <2>4. HttpTypeOK'
    BY <1>1, <1>3, <2>3 DEF HttpInv, HttpTypeOK
  <2>5. OneAnswer'
    BY <1>1, <1>3, <2>2 DEF HttpInv, HttpTypeOK, HttpRequestState, OneAnswer
  <2>6. r # NewRequest.what
    BY <2>1 DEF NewRequest
  <2>7. StandsOnChecks'
    BY <1>1, <1>3, <2>2, <2>6 DEF HttpInv, HttpTypeOK, HttpRequestState, StandsOnChecks
  <2>8. QED
    BY <1>1, <1>3, <2>4, <2>5, <2>7 DEF HttpInv, TokensShort, SignedForOwner
<1>4. QED
  BY <1>2, <1>3 DEF Arrives, Answers

\* Chunks only fill the body; the one past the cap is answered (body.ts, onData).
LEMMA DataInv ==
    ASSUME HttpInv, NEW q \in Req, NEW n \in Chunks, Data(q, n), UNCHANGED seam
    PROVE  HttpInv'
<1>1. CASE body[q] + n > BODY_CAP_BYTES
  BY <1>1, WritesInv DEF Data, Answers
<1>2. CASE ~(body[q] + n > BODY_CAP_BYTES)
  <2>1. body' = [body EXCEPT ![q] = @ + n]
        /\ UNCHANGED <<seam, seconds, sessionStore, handedOut, req, answers, issued>>
    BY <1>2 DEF Data
  <2>2. body' \in [Req -> 0 .. BODY_CAP_BYTES]
    BY <1>2, <2>1, GatewayAssumption DEF HttpInv, HttpTypeOK
  <2>3. QED
    BY <2>1, <2>2 DEF HttpInv, HttpTypeOK, OneAnswer, StandsOnChecks, TokensShort, SignedForOwner
<1>3. QED
  BY <1>1, <1>2

\* A session is created with its address, which no session loses (session handler).
LEMMA SessionHandlerInv ==
    ASSUME HttpInv, NEW q \in Req, req[q].at = "reading",
           req[q].what.path = "session", SessionHandler(q, req[q].what),
           req[q].what.body \in Bodies,
           UNCHANGED <<seam, seconds, handedOut, body, issued>>
    PROVE  HttpInv'
<1> DEFINE r == req[q].what
<1>1. CASE r.body.kind # "session" \/ r.body.wallet = None
  BY <1>1, WritesInv DEF SessionHandler, Answers
<1>2. CASE ~(r.body.kind # "session" \/ r.body.wallet = None)
  <2>1. PICK s \in SessionId :
          /\ sessionStore[s].wallet = None
          /\ sessionStore' = [sessionStore EXCEPT ![s].wallet = r.body.wallet]
          /\ req' = [req EXCEPT ![q] = [@ EXCEPT !.at = "applicant", !.time = seconds,
                                                 !.session = s]]
          /\ UNCHANGED answers
    BY <1>2 DEF SessionHandler
  <2>2. r.body.wallet \in Address /\ r.body.wallet # None
    BY <1>2 DEF Bodies
  <2>3. /\ sessionStore' \in [SessionId -> [wallet : Address \cup {None},
                                            status : {"pending", "approved", "rejected"}]]
        /\ sessionStore'[s].wallet = r.body.wallet
        /\ \A x \in SessionId : x # s => sessionStore'[x] = sessionStore[x]
    BY <2>1, <2>2 DEF HttpInv, HttpTypeOK
  <2>4. req[q] \in HttpRequestState
    BY DEF HttpInv, HttpTypeOK
  <2>5. [req[q] EXCEPT !.at = "applicant", !.time = seconds, !.session = s] \in HttpRequestState
    BY <2>4 DEF HttpRequestState, HttpInv, HttpTypeOK
  <2>6. /\ req' \in [Req -> HttpRequestState]
        /\ req'[q].at = "applicant" /\ req'[q].session = s
        /\ \A p \in Req : p # q => req'[p] = req[p]
    BY <2>1, <2>4, <2>5 DEF HttpInv, HttpTypeOK, HttpRequestState
  <2>7. HttpTypeOK'
    BY <2>1, <2>3, <2>6 DEF HttpInv, HttpTypeOK
  <2>8. OneAnswer'
    BY <2>1, <2>6 DEF HttpInv, OneAnswer
  <2>9. StandsOnChecks'
    BY <2>1, <2>2, <2>3, <2>6 DEF HttpInv, StandsOnChecks
  <2>10. SignedForOwner'
    BY <2>1, <2>3 DEF HttpInv, HttpTypeOK, SignedForOwner
  <2>11. QED
    BY <2>7, <2>8, <2>9, <2>10 DEF HttpInv, TokensShort
<1>3. QED
  BY <1>1, <1>2

\* The handler signs for a token that verifies, and for the session of its own wallet.
LEMMA IssueHandlerInv ==
    ASSUME HttpInv, NEW q \in Req, req[q].at = "reading",
           Verifies(req[q].what.token), req[q].what.body \in Bodies,
           IssueHandler(q, req[q].what), UNCHANGED <<seam, seconds, handedOut, body>>
    PROVE  HttpInv'
<1> DEFINE r == req[q].what
<1>1. CASE IssueFault(r) # None
  <2>1. IssueFault(r) \in DOMAIN Answers
    BY <1>1 DEF IssueFault, Answers
  <2>2. QED
    BY <1>1, <2>1, WritesInv DEF IssueHandler
<1>2. CASE IssueFault(r) = None
  <2>1. /\ req' = [req EXCEPT ![q] = [@ EXCEPT !.at = "issuing", !.time = seconds,
                                               !.session = r.body.session]]
        /\ issued' = issued \cup {[session |-> r.body.session, token |-> r.token,
                                   time |-> seconds]}
        /\ UNCHANGED <<seam, seconds, sessionStore, handedOut, body, answers>>
    BY <1>2 DEF IssueHandler
  <2>2. /\ r.body.kind = "issue" /\ r.body.session # None
        /\ sessionStore[r.body.session].wallet # None
        /\ sessionStore[r.body.session].wallet = r.token.sub
    BY <1>2 DEF IssueFault, None
  <2>3. r.body.session \in SessionId
    BY <2>2 DEF Bodies
  <2>4. req[q] \in HttpRequestState /\ r.token \in TokenRecord
    BY DEF HttpInv, HttpTypeOK, Verifies
  <2>5. [req[q] EXCEPT !.at = "issuing", !.time = seconds, !.session = r.body.session]
          \in HttpRequestState
    BY <2>3, <2>4 DEF HttpRequestState, HttpInv, HttpTypeOK
  <2>6. /\ req' \in [Req -> HttpRequestState]
        /\ req'[q].at = "issuing"
        /\ \A p \in Req : p # q => req'[p] = req[p]
    BY <2>1, <2>4, <2>5 DEF HttpInv, HttpTypeOK, HttpRequestState
  <2>7. HttpTypeOK'
    BY <2>1, <2>3, <2>4, <2>6 DEF HttpInv, HttpTypeOK
  <2>8. OneAnswer' /\ StandsOnChecks'
    BY <2>1, <2>6 DEF HttpInv, OneAnswer, StandsOnChecks
  <2>9. SignedForOwner'
    BY <2>1, <2>2 DEF HttpInv, SignedForOwner, Verifies
  <2>10. QED
    BY <2>1, <2>7, <2>8, <2>9 DEF HttpInv, TokensShort
<1>3. QED
  BY <1>1, <1>2

\* What is read is a request, whose parts are of the kinds HttpRequest says.
LEMMA Asks ==
    ASSUME HttpInv, NEW q \in Req, req[q].at = "reading"
    PROVE  req[q].what \in [path : Paths, method : Methods,
                            token : TokenRecord \cup {NoToken}, body : Bodies]
BY DEF HttpInv, HttpTypeOK, HttpRequestState, StandsOnChecks, NewRequest

LEMMA BodyEndsInv ==
    ASSUME HttpInv, NEW q \in Req, BodyEnds(q), UNCHANGED seam
    PROVE  HttpInv'
<1> DEFINE r == req[q].what
<1>1. /\ req[q].at = "reading" /\ r.body \in Bodies
      /\ UNCHANGED <<seam, seconds, handedOut, body>>
  BY Asks DEF BodyEnds
<1>2. ASSUME NEW code \in DOMAIN Answers, Writes(q, code), UNCHANGED <<sessionStore, issued>>
      PROVE  HttpInv'
  BY <1>1, <1>2, WritesInv
<1>3. Match(r) # "route" => Match(r) \in DOMAIN Answers
  BY DEF Match, Answers
<1>4. {"unauthorized", "invalid_json", "ok"} \subseteq DOMAIN Answers
  BY DEF Answers
<1>5. CASE /\ Match(r) = "route" /\ r.path = "session"
           /\ SessionHandler(q, r) /\ UNCHANGED issued
  BY <1>1, <1>5, SessionHandlerInv
<1>6. CASE /\ Match(r) = "route" /\ r.path = "issue"
           /\ ~(Routes[r.path].auth = "session" /\ ~Verifies(r.token))
           /\ IssueHandler(q, r)
  BY <1>1, <1>6, IssueHandlerInv DEF Routes
<1>7. QED
  BY <1>2, <1>3, <1>4, <1>5, <1>6 DEF BodyEnds, Dispatch

\* The token an applicant gets is for the session's wallet, and short (session handler).
LEMMA HandlerInv ==
    ASSUME HttpInv, NEW q \in Req, HandlerStep(q), UNCHANGED seam
    PROVE  HttpInv'
<1>1. CASE ApplicantCreated(q)
  <2> DEFINE token == [sub |-> sessionStore[req[q].session].wallet, nbf |-> req[q].time,
                       exp |-> req[q].time + Lifetime]
  <2>1. /\ req[q].at = "applicant" /\ handedOut' = handedOut \cup {token}
        /\ Writes(q, "created") /\ UNCHANGED <<seam, seconds, sessionStore, body, issued>>
    BY <1>1 DEF ApplicantCreated
  <2>2. req[q].session \in SessionId /\ sessionStore[req[q].session].wallet # None
    BY <2>1 DEF HttpInv, StandsOnChecks
  <2>3. req[q].time \in 0 .. MaxSeconds
    BY DEF HttpInv, HttpTypeOK, HttpRequestState
  <2>4. token \in TokenRecord /\ token.exp - token.nbf = SESSION_JWT_MAX_TTL_SECONDS
    BY <2>2, <2>3, GatewayAssumption DEF HttpInv, HttpTypeOK, TokenRecord, Lifetime
  <2>5. "created" \in DOMAIN Answers
    BY DEF Answers
  <2>6. HttpTypeOK'
    BY <2>1, <2>4, <2>5, WritesOnce DEF HttpInv, HttpTypeOK
  <2>7. OneAnswer' /\ StandsOnChecks'
    BY <2>1, <2>5, WritesOnce DEF HttpInv, OneAnswer, StandsOnChecks
  <2>8. TokensShort' /\ SignedForOwner'
    BY <2>1, <2>4 DEF HttpInv, TokensShort, SignedForOwner
  <2>9. QED
    BY <2>6, <2>7, <2>8 DEF HttpInv
<1>2. CASE ApplicantFails(q)
  BY <1>2, WritesInv DEF ApplicantFails, Answers
<1>3. CASE IssueReturns(q)
  BY <1>3, WritesInv DEF IssueReturns, Answers
<1>4. QED
  BY <1>1, <1>2, <1>3 DEF HandlerStep

LEMMA HttpStepInv == HttpInv /\ [HttpNext]_httpVars => HttpInv'
<1> SUFFICES ASSUME HttpInv, [HttpNext]_httpVars PROVE HttpInv'
  OBVIOUS
<1>1. CASE UNCHANGED httpVars
  BY <1>1 DEF httpVars, HttpInv, HttpTypeOK, OneAnswer, StandsOnChecks, TokensShort, SignedForOwner
<1>2. ASSUME NEW q \in Req, StreamFails(q), UNCHANGED seam PROVE HttpInv'
  BY <1>2, WritesInv DEF StreamFails, Answers
<1>3. ASSUME NEW s \in SessionId, NEW status \in {"approved", "rejected"}, SetStatus(s, status),
             UNCHANGED seam
      PROVE  HttpInv'
  <2>1. /\ sessionStore' \in [SessionId -> [wallet : Address \cup {None},
                                            status : {"pending", "approved", "rejected"}]]
        /\ \A x \in SessionId : sessionStore'[x].wallet = sessionStore[x].wallet
    BY <1>3 DEF SetStatus, HttpInv, HttpTypeOK
  <2>2. QED
    BY <1>3, <2>1 DEF SetStatus, HttpInv, HttpTypeOK, OneAnswer, StandsOnChecks, TokensShort,
                      SignedForOwner
<1>4. CASE SecondPasses /\ UNCHANGED seam
  BY <1>4, GatewayAssumption
     DEF SecondPasses, HttpInv, HttpTypeOK, OneAnswer, StandsOnChecks, TokensShort, SignedForOwner
<1>5. QED
  BY <1>1, <1>2, <1>3, <1>4, ArrivesInv, DataInv, BodyEndsInv, HandlerInv DEF HttpNext, HttpStep

LEMMA HttpInvariant == HttpSpec => []HttpInv
BY HttpInitInv, HttpStepInv, PTL DEF HttpSpec

\* The client computes from the status what the server said, for each of the codes.
LEMMA FlagsAgree ==
    ASSUME NEW code \in DOMAIN Answers
    PROVE  ClientRetriable(code) = Answers[code].retriable
<1>1. CASE code = "internal_error"
  <2>1. Answers[code].retriable = TRUE /\ Answers[code].status = 500
    BY <1>1 DEF Answers, Answer
  <2>2. (Answers[code].status >= 500 /\ Answers[code].status # 501) = TRUE
    BY <2>1
  <2>3. QED
    BY <2>1, <2>2, Zenon DEF ClientRetriable
<1>2. CASE code # "internal_error"
  <2>1. /\ Answers[code].retriable = FALSE
        /\ Answers[code].status \in {200, 201, 400, 401, 403, 404, 405, 409, 413, 501}
    BY <1>2 DEF Answers, Answer
  <2>2. (Answers[code].status >= 500 /\ Answers[code].status # 501) = FALSE
    BY <2>1
  <2>3. QED
    BY <2>1, <2>2, Zenon DEF ClientRetriable
<1>3. QED
  BY <1>1, <1>2

\* However a request's stream, its handler and the clock take turns, it is answered once
\* and in the end only if it was written to, and the client reads each answer's retriable
\* flag the way the service set it (http.ts, writeJson and writeError).
THEOREM AnswersAreSound == HttpSpec => []AnswersSound
<1>1. HttpInv => AnswersSound
  <2> SUFFICES ASSUME HttpInv PROVE AnswersSound
    OBVIOUS
  <2>1. ASSUME NEW q \in Req
        PROVE  Cardinality(answers[q]) <= 1 /\ (answers[q] # {}) = (req[q].at = "answered")
    <3>1. CASE req[q].at = "answered"
      <4>1. PICK code \in DOMAIN Answers : answers[q] = {code}
        BY <3>1 DEF HttpInv, OneAnswer
      <4>2. Cardinality({code}) = 1
        BY FS_Singleton
      <4>3. QED
        BY <3>1, <4>1, <4>2
    <3>2. CASE req[q].at # "answered"
      <4>1. answers[q] = {} /\ Cardinality({}) = 0
        BY <3>2, FS_EmptySet DEF HttpInv, OneAnswer
      <4>2. QED
        BY <3>2, <4>1
    <3>3. QED
      BY <3>1, <3>2
  <2>2. RetriableAgrees
    BY FlagsAgree DEF RetriableAgrees, HttpInv, HttpTypeOK
  <2>3. QED
    BY <2>1, <2>2 DEF AnswersSound, AnsweredOnce, HttpInv
<1>2. QED
  BY <1>1, HttpInvariant, PTL

\* However slowly a body comes in: what is signed is signed for a token inside its window,
\* of the session's own wallet, at most fifteen minutes long (http.ts, issue; service.ts,
\* createSession).
THEOREM TokensWereLive == HttpSpec => []IssuedForLiveToken
<1>1. HttpInv => IssuedForLiveToken
  BY GatewayAssumption
     DEF HttpInv, HttpTypeOK, TokenRecord, SignedForOwner, TokensShort, IssuedForLiveToken
<1>2. QED
  BY <1>1, HttpInvariant, PTL

\* What the issue route answers, and to whom, while it looks at a request.
LEMMA IssueAnswers ==
    ASSUME HttpInv, NEW q \in Req, req[q].at = "reading", req[q].what.path = "issue",
           Dispatch(q, req[q].what), answers' # answers
    PROVE  LET r == req[q].what
           IN  \E code \in DOMAIN Answers :
                 /\ answers'[q] = {code}
                 /\ code \in {"invalid_json", "missing_field", "session_not_approved",
                              "invalid_field"} => Verifies(r.token)
                 /\ code = "session_not_approved" /\ r.body.session # None =>
                      sessionStore[r.body.session].wallet \in {None, r.token.sub}
<1> DEFINE r == req[q].what
<1>1. CASE Match(r) # "route"
  <2>1. Match(r) \in {"not_found", "method_not_allowed"} /\ Writes(q, Match(r))
    BY <1>1 DEF Match, Dispatch
  <2>2. QED
    BY <2>1, WritesOnce DEF Answers
<1>2. CASE Match(r) = "route" /\ ~Verifies(r.token)
  <2>1. Writes(q, "unauthorized")
    BY <1>2 DEF Dispatch, Routes
  <2>2. QED
    BY <2>1, WritesOnce DEF Answers
<1>3. CASE Match(r) = "route" /\ Verifies(r.token)
  <2>1. CASE ~JsonObject(q)
    <3>1. Writes(q, "invalid_json")
      BY <1>3, <2>1 DEF Dispatch, Routes
    <3>2. QED
      BY <1>3, <3>1, WritesOnce DEF Answers
  <2>2. CASE JsonObject(q)
    <3>1. IssueHandler(q, r)
      BY <1>3, <2>2 DEF Dispatch, Routes
    <3>2. IssueFault(r) # None /\ Writes(q, IssueFault(r))
      BY <3>1 DEF IssueHandler
    <3>3. IssueFault(r) \in DOMAIN Answers
      BY <3>2 DEF IssueFault, Answers
    <3>4. /\ IssueFault(r) = "session_not_approved" /\ r.body.session # None =>
               sessionStore[r.body.session].wallet \in {None, r.token.sub}
      BY DEF IssueFault
    <3>5. QED
      BY <1>3, <3>2, <3>3, <3>4, WritesOnce
  <2>3. QED
    BY <2>1, <2>2
<1>4. QED
  BY <1>1, <1>2, <1>3

\* No step answers an issue request in a way that tells an unauthenticated caller of the
\* body checks, or anybody of another wallet's session: the session token is verified
\* before the body is looked at (http.ts, issue).
THEOREM AnswersTellNothing == HttpSpec => AnswersDiscreet
<1> DEFINE Telling == {"invalid_json", "missing_field", "session_not_approved", "invalid_field"}
           Discreet(q) ==
             req[q].what.path = "issue" /\ answers'[q] # answers[q] =>
               LET r == req[q].what
               IN  /\ answers'[q] \cap Telling # {} => Verifies(r.token)
                   /\ "session_not_approved" \in answers'[q] /\ r.body.session # None =>
                        sessionStore[r.body.session].wallet \in {None, r.token.sub}
<1>1. HttpInv /\ [HttpNext]_httpVars => [\A q \in Req : Discreet(q)]_httpVars
  <2> SUFFICES ASSUME HttpInv, HttpNext, NEW q \in Req, req[q].what.path = "issue",
                      answers'[q] # answers[q]
               PROVE  Discreet(q)
    OBVIOUS
  <2>1. req[q].at # "new"
    BY DEF HttpInv, StandsOnChecks, NewRequest, None
  <2>2. ASSUME NEW p \in Req, NEW code \in DOMAIN Answers \ Telling, req[p].at # "answered",
               Writes(p, code)
        PROVE  Discreet(q)
    BY <2>2, WritesOnce
  <2>3. ASSUME NEW p \in Req, BodyEnds(p) PROVE Discreet(q)
    <3>1. p = q
      BY <2>3 DEF BodyEnds, Dispatch, SessionHandler, IssueHandler, Writes, HttpInv, HttpTypeOK
    <3>2. QED
      BY <2>3, <3>1, IssueAnswers DEF BodyEnds
  <2>4. ASSUME NEW p \in Req, NEW r \in HttpRequest, NEW long \in BOOLEAN, Arrives(p, r, long)
        PROVE  Discreet(q)
    BY <2>2, <2>4 DEF Arrives, Answers
  <2>5. ASSUME NEW p \in Req, NEW n \in Chunks, Data(p, n) PROVE Discreet(q)
    BY <2>2, <2>5 DEF Data, Answers
  <2>6. ASSUME NEW p \in Req, StreamFails(p) \/ HandlerStep(p) PROVE Discreet(q)
    BY <2>2, <2>6 DEF StreamFails, HandlerStep, ApplicantCreated, ApplicantFails, IssueReturns, Answers
  <2>7. QED
    BY <2>3, <2>4, <2>5, <2>6 DEF HttpNext, HttpStep, SetStatus, SecondPasses
<1>2. QED
  BY <1>1, HttpInvariant, PTL DEF HttpSpec, AnswersDiscreet

-----------------------------------------------------------------------------
(* Tokens.                                                                 *)

\* What a token's signer put together: its key, over its header, payload and claims.
SignedBy(key, t) ==
    \E s \in minted \cup OthersTokens :
        s.signature.key = key /\ s.signature.over = <<t.header, t.payload, t.claims>>

ClaimsInScope(claims, v, time) ==
    /\ claims.iss = v.issuer
    /\ \/ claims.aud = v.audience
       \/ claims.aud = Absent /\ v.policy = "sep10"
    /\ claims.nbf <= time /\ time < claims.exp
    /\ claims.sub \notin {Absent, Malformed} /\ claims.iat >= 0

\* What verifyJws has established of a call before it asks the store.
PassedChecks(c) ==
    /\ calls[c] \in [at : {"sighting", "accepted", "refused"}, reason : Reasons,
                     token : JwsToken, by : Verifiers, time : 0 .. MaxTime]
    /\ SignedBy(calls[c].by.key, calls[c].token)
    /\ calls[c].token.header = KeyAlgorithm(calls[c].by.key)
    /\ ClaimsInScope(calls[c].token.claims, calls[c].by, calls[c].time)
    /\ \E s \in minted \cup OthersTokens : calls[c].token.claims = s.claims

AskedStore(c) ==
    \/ calls[c].at = "sighting"
    \/ calls[c].at = "accepted" /\ Replays(calls[c].by)
    \/ calls[c].reason \in {"replay-detected", "store-failed"}

\* A call that got as far as the store, or past it, has passed every check; the store is
\* asked only by a verifier that has one, and knows what was accepted.
ChecksPassed ==
    \A c \in Call :
        /\ AskedStore(c) \/ Accepted(c) => PassedChecks(c)
        /\ calls[c].at = "sighting" => Replays(calls[c].by) /\ calls[c].reason = "none"
        /\ Accepted(c) /\ Replays(calls[c].by) => Slot(c) \in seen

\* Every slot was taken by a call that had passed every check.
SlotsTaken == \A slot \in seen : \E c \in Call : AskedStore(c) /\ Slot(c) = slot

AcceptedOncePerSlot ==
    \A c, d \in Call :
        Accepted(c) /\ Accepted(d) /\ Replays(calls[c].by) /\ Replays(calls[d].by)
          /\ Slot(c) = Slot(d) => c = d

JwsInv == JwsTypeOK /\ ChecksPassed /\ SlotsTaken /\ AcceptedOncePerSlot

-----------------------------------------------------------------------------
\* A claim set without a fault has every claim asked for (jws.ts, checkRequiredClaims).
LEMMA NoClaimFault ==
    ASSUME NEW claims \in ClaimSet, NEW strings \in SUBSET StringClaims,
           NEW times \in SUBSET TimeClaims, ClaimFault(claims, strings, times) = "none"
    PROVE  /\ \A k \in strings : claims[k] \notin {Absent, Malformed}
           /\ \A k \in times : claims[k] \notin {NoTime, NotATime}
<1> DEFINE absent(k) == IF k \in strings THEN claims[k] = Absent ELSE claims[k] = NoTime
           bad(k) == IF k \in strings THEN claims[k] = Malformed ELSE claims[k] = NotATime
           order == <<"iss", "sub", "aud", "iat", "nbf", "exp">>
           faulty == {i \in DOMAIN order : /\ order[i] \in strings \cup times
                                           /\ absent(order[i]) \/ bad(order[i])}
           first == CHOOSE i \in faulty : \A j \in faulty : i <= j
<1>1. ClaimFault(claims, strings, times)
        = IF faulty = {} THEN "none"
          ELSE IF absent(order[first]) THEN "claim-absent" ELSE "claim-type"
  BY DEF ClaimFault
<1>2. faulty = {}
  BY <1>1
<1>3. \A i \in 1 .. 6 : order[i] \in strings \cup times => ~absent(order[i]) /\ ~bad(order[i])
  BY <1>2
<1>4. /\ order[1] = "iss" /\ order[2] = "sub" /\ order[3] = "aud"
      /\ order[4] = "iat" /\ order[5] = "nbf" /\ order[6] = "exp"
  OBVIOUS
<1>5. \A k \in strings \cup times : ~absent(k) /\ ~bad(k)
  <2> HIDE DEF order, absent, bad
  <2> QED
    BY <1>3, <1>4 DEF StringClaims, TimeClaims
<1>6. QED
  BY <1>5 DEF StringClaims, TimeClaims

\* A token presented carries the signature and the claims of tokens that were signed, each
\* perhaps of another one.
LEMMA PresentedParts ==
    ASSUME minted \subseteq JwsToken, NEW t \in Presentable
    PROVE  /\ t \in JwsToken
           /\ \E s \in minted \cup OthersTokens : t.claims = s.claims
           /\ \E s \in minted \cup OthersTokens :
                s.signature.key = t.signature.key /\ s.signature.over = t.signature.over
<1> DEFINE signed == minted \cup OthersTokens
           Parts == /\ t \in JwsToken
                    /\ \E s \in signed : t.claims = s.claims
                    /\ \E s \in signed : /\ s.signature.key = t.signature.key
                                         /\ s.signature.over = t.signature.over
<1>1. signed \subseteq JwsToken
  BY JwsAssumption
<1>2. CASE t \in signed
  BY <1>1, <1>2
<1>3. ASSUME NEW u \in signed, t \in Altered(u, signed) PROVE Parts
  <2>1. u \in JwsToken
    BY <1>1
  <2>2. CASE t = [u EXCEPT !.segments = 2] \/ t = [u EXCEPT !.payload = "not an object"]
    <3>1. t \in JwsToken
      <4>1. CASE t = [u EXCEPT !.segments = 2]
        BY <2>1, <4>1 DEF JwsToken
      <4>2. CASE t = [u EXCEPT !.payload = "not an object"]
        <5>1. "not an object" \in Payload
          BY DEF Payload
        <5>2. QED
          BY <2>1, <4>2, <5>1 DEF JwsToken
      <4>3. QED
        BY <2>2, <4>1, <4>2
    <3>2. t.claims = u.claims /\ t.signature = u.signature
      BY <2>1, <2>2 DEF JwsToken
    <3>3. QED
      BY <3>1, <3>2
  <2>3. CASE t = [u EXCEPT !.signature.length = 71]
    <3>1. u.signature \in JwsSignature
      BY <2>1 DEF JwsToken
    <3>2. t = [u EXCEPT !.signature = [u.signature EXCEPT !.length = 71]]
      BY <2>3
    <3>3. /\ [u.signature EXCEPT !.length = 71] \in JwsSignature
          /\ [u.signature EXCEPT !.length = 71].key = u.signature.key
          /\ [u.signature EXCEPT !.length = 71].over = u.signature.over
      BY <3>1 DEF JwsSignature
    <3>4. t \in JwsToken /\ t.claims = u.claims
          /\ t.signature = [u.signature EXCEPT !.length = 71]
      BY <2>1, <3>2, <3>3 DEF JwsToken
    <3>5. QED
      BY <3>3, <3>4
  <2>4. ASSUME NEW h \in Header, t = [u EXCEPT !.header = h]
        PROVE  Parts
    <3>1. t \in JwsToken
      BY <2>1, <2>4 DEF JwsToken
    <3>2. t.claims = u.claims /\ t.signature = u.signature
      BY <2>1, <2>4 DEF JwsToken
    <3>3. QED
      BY <3>1, <3>2
  <2>5. ASSUME NEW w \in signed, t = [u EXCEPT !.claims = w.claims] PROVE Parts
    BY <1>1, <2>1, <2>5 DEF JwsToken
  <2>6. ASSUME NEW w \in signed, t = [u EXCEPT !.signature = w.signature] PROVE Parts
    BY <1>1, <2>1, <2>6 DEF JwsToken
  <2>7. QED
    BY <1>3, <2>2, <2>4, <2>5, <2>6, <2>3 DEF Altered
<1>4. QED
  BY <1>2, <1>3 DEF Presentable

\* Under either policy a claim set with no fault of presence has its issuer and subject and
\* its end, and has an audience and a beginning that were either checked or may be absent.
LEMMA NoPresenceFault ==
    ASSUME NEW claims \in ClaimSet, NEW policy \in {"strict", "sep10"},
           PresenceFault(claims, policy) = "none"
    PROVE  /\ claims.sub \notin {Absent, Malformed}
           /\ claims.iat \in Nat /\ claims.exp \in Nat /\ claims.nbf \in Nat \cup {NoTime}
<1>1. CASE policy = "strict"
  <2>1. ClaimFault(claims, StringClaims, TimeClaims) = "none"
    BY <1>1 DEF PresenceFault
  <2>2. /\ \A k \in StringClaims : claims[k] \notin {Absent, Malformed}
        /\ \A k \in TimeClaims : claims[k] \notin {NoTime, NotATime}
    BY <2>1, NoClaimFault
  <2>3. QED
    BY <2>2 DEF StringClaims, TimeClaims, ClaimSet, Time
<1>2. CASE policy = "sep10"
  <2>1. ClaimFault(claims, StringClaims \ {"aud"}, TimeClaims \ {"nbf"}) = "none"
    BY <1>2 DEF PresenceFault
  <2>2. ClaimFault(claims, IF claims.aud = Absent THEN {} ELSE {"aud"},
                           IF claims.nbf = NoTime THEN {} ELSE {"nbf"}) = "none"
    BY <1>2, <2>1 DEF PresenceFault
  <2>3. /\ \A k \in StringClaims \ {"aud"} : claims[k] \notin {Absent, Malformed}
        /\ \A k \in TimeClaims \ {"nbf"} : claims[k] \notin {NoTime, NotATime}
    BY <2>1, NoClaimFault
  <2>4. \A k \in IF claims.nbf = NoTime THEN {} ELSE {"nbf"} : claims[k] \notin {NoTime, NotATime}
    <3>1. /\ (IF claims.aud = Absent THEN {} ELSE {"aud"}) \in SUBSET StringClaims
          /\ (IF claims.nbf = NoTime THEN {} ELSE {"nbf"}) \in SUBSET TimeClaims
      BY DEF StringClaims, TimeClaims
    <3>2. QED
      BY <2>2, <3>1, NoClaimFault
  <2>5. QED
    BY <2>3, <2>4 DEF StringClaims, TimeClaims, ClaimSet, Time
<1>3. QED
  BY <1>1, <1>2

\* A token without a fault is what the key's holder signed, whole, and its claims are in the
\* verifier's scope at this moment (jws.ts, verifyJws).
LEMMA NoFault ==
    ASSUME JwsTypeOK, NEW t \in Presentable, NEW v \in Verifiers, Fault(t, v) = "none"
    PROVE  /\ SignedBy(v.key, t)
           /\ t.header = KeyAlgorithm(v.key)
           /\ ClaimsInScope(t.claims, v, now)
<1>1. t \in JwsToken /\ v.key \in Key /\ v.policy \in {"strict", "sep10"} /\ now \in Nat
  BY PresentedParts, JwsAssumption DEF JwsTypeOK
<1>2. /\ HeaderFault(t, KeyAlgorithm(v.key)) = "none" /\ SignatureFault(t, v.key) = "none"
      /\ PresenceFault(t.claims, v.policy) = "none" /\ ScopeFault(t.claims, v) = "none"
      /\ WindowFault(t.claims) = "none"
  BY DEF Fault
<1>3. t.header = KeyAlgorithm(v.key)
  BY <1>2 DEF HeaderFault
<1>4. SignedBy(v.key, t)
  <2>1. t.signature = Signature(v.key, t.header, t.payload, t.claims, 64)
    BY <1>2 DEF SignatureFault
  <2>2. t.signature.key = v.key /\ t.signature.over = <<t.header, t.payload, t.claims>>
    BY <2>1 DEF Signature
  <2>3. QED
    BY <2>2, PresentedParts DEF SignedBy, JwsTypeOK
<1>5. ClaimsInScope(t.claims, v, now)
  <2>1. t.claims \in ClaimSet
    BY <1>1 DEF JwsToken
  <2>2. /\ t.claims.sub \notin {Absent, Malformed} /\ t.claims.iat \in Nat
        /\ t.claims.exp \in Nat /\ t.claims.nbf \in Nat \cup {NoTime}
    BY <1>1, <1>2, <2>1, NoPresenceFault
  <2>3. t.claims.nbf <= now /\ now < t.claims.exp
    BY <1>1, <1>2, <2>2 DEF WindowFault, NoTime
  <2>4. /\ t.claims.iss = v.issuer
        /\ \/ t.claims.aud = v.audience
           \/ t.claims.aud = Absent /\ v.policy = "sep10"
    <3>1. CASE t.claims.iss # v.issuer
      BY <1>2, <3>1 DEF ScopeFault
    <3>2. CASE t.claims.iss = v.issuer
      <4>1. ~((v.policy = "strict" \/ t.claims.aud # Absent) /\ t.claims.aud # v.audience)
        BY <1>2, <3>2 DEF ScopeFault
      <4>2. QED
        BY <1>1, <3>2, <4>1
    <3>3. QED
      BY <3>1, <3>2
  <2>5. QED
    BY <2>2, <2>3, <2>4 DEF ClaimsInScope
<1>6. QED
  BY <1>3, <1>4, <1>5

-----------------------------------------------------------------------------
LEMMA JwsInitInv == JwsInit => JwsInv
BY JwsAssumption
   DEF JwsInit, NewCall, JwsInv, JwsTypeOK, CallState, Reasons, ChecksPassed, SlotsTaken,
       AcceptedOncePerSlot, AskedStore, Accepted

\* signJws only adds tokens, of the shape that is signed.
LEMMA SignedShape ==
    ASSUME JwsTypeOK, NEW claims \in SignRequests, SignJws(OurKey, claims)
    PROVE  /\ minted \subseteq minted' /\ UNCHANGED <<now, seen, calls>>
           /\ minted' \subseteq JwsToken
           /\ \A t \in minted' : t.header \in {"ES256", "EdDSA"} /\ t.signature.length = 64
<1> DEFINE t == Token(OurKey, KeyAlgorithm(OurKey), claims)
<1>1. minted' = minted \cup {t} /\ UNCHANGED <<now, seen, calls>>
  BY DEF SignJws
<1>2. KeyAlgorithm(OurKey) \in {"ES256", "EdDSA"}
  BY DEF SignJws, KeyAlgorithm
<1>3. claims \in ClaimSet /\ OurKey \in Key
  BY JwsAssumption
<1>4. t.header = KeyAlgorithm(OurKey) /\ t.signature.length = 64
  BY DEF Token, Signature
<1>5. Signature(OurKey, KeyAlgorithm(OurKey), "object", claims, 64) \in JwsSignature
  BY <1>2, <1>3 DEF Signature, JwsSignature, Header, Payload
<1>6. t \in JwsToken
  BY <1>2, <1>3, <1>5 DEF Token, JwsToken, Header, Payload
<1>7. QED
  BY <1>1, <1>2, <1>4, <1>6 DEF JwsTypeOK

\* What was established of a call stays so: nothing that was signed is forgotten.
LEMMA PassedStays ==
    ASSUME NEW c \in Call, PassedChecks(c), minted \subseteq minted', calls'[c] = calls[c]
    PROVE  PassedChecks(c)'
BY DEF PassedChecks, SignedBy, ClaimsInScope, KeyAlgorithm

LEMMA SignInv ==
    ASSUME JwsInv, NEW claims \in SignRequests, SignJws(OurKey, claims)
    PROVE  JwsInv'
<1>1. /\ minted \subseteq minted' /\ UNCHANGED <<now, seen, calls>>
      /\ minted' \subseteq JwsToken
      /\ \A t \in minted' : t.header \in {"ES256", "EdDSA"} /\ t.signature.length = 64
  BY SignedShape DEF JwsInv
<1>2. JwsTypeOK'
  BY <1>1 DEF JwsInv, JwsTypeOK
<1>3. ChecksPassed'
  BY <1>1, PassedStays DEF JwsInv, ChecksPassed, AskedStore, Accepted, Slot
<1>4. SlotsTaken' /\ AcceptedOncePerSlot'
  BY <1>1 DEF JwsInv, SlotsTaken, AcceptedOncePerSlot, AskedStore, Accepted, Slot
<1>5. QED
  BY <1>2, <1>3, <1>4 DEF JwsInv

\* A verification that is refused early has a reason, and it is none of the store's.
LEMMA FaultReason ==
    ASSUME NEW t, NEW v
    PROVE  Fault(t, v) \in Reasons \ {"replay-detected", "store-failed"}
<1>1. ASSUME NEW claims, NEW strings, NEW times
      PROVE  ClaimFault(claims, strings, times) \in {"none", "claim-absent", "claim-type"}
  BY DEF ClaimFault
<1>2. HeaderFault(t, KeyAlgorithm(v.key))
        \in {"none", "malformed-token", "bad-header", "alg-mismatch"}
  BY DEF HeaderFault
<1>3. SignatureFault(t, v.key) \in {"none", "signature-length", "signature-mismatch"}
  BY DEF SignatureFault
<1>4. PresenceFault(t.claims, v.policy) \in {"none", "claim-absent", "claim-type"}
  BY <1>1 DEF PresenceFault
<1>5. ScopeFault(t.claims, v) \in {"none", "issuer-mismatch", "audience-mismatch"}
  BY DEF ScopeFault
<1>6. WindowFault(t.claims) \in {"none", "token-not-yet-valid", "token-expired"}
  BY DEF WindowFault
<1>7. JtiFault(t.claims, v) \in {"none", "claim-absent", "claim-type"}
  BY DEF JtiFault
<1>8. QED
  BY <1>2, <1>3, <1>4, <1>5, <1>6, <1>7 DEF Fault, Reasons

\* A verification is refused, or establishes every fact before it asks the store.
LEMMA VerifyInv ==
    ASSUME JwsInv, NEW c \in Call, NEW t \in Presentable, NEW v \in Verifiers, VerifyJws(c, t, v)
    PROVE  JwsInv'
<1> DEFINE passed == [at |-> IF Replays(v) THEN "sighting" ELSE "accepted", reason |-> "none",
                      token |-> t, by |-> v, time |-> now]
           new == IF Fault(t, v) # "none" THEN [at |-> "refused", reason |-> Fault(t, v)]
                  ELSE passed
<1>1. /\ calls[c].at = "new" /\ calls' = [calls EXCEPT ![c] = new]
      /\ UNCHANGED <<now, minted, seen>> /\ now \in 0 .. MaxTime
      /\ calls \in [Call -> CallState]
  BY DEF VerifyJws, JwsInv, JwsTypeOK
<1>2. ~AskedStore(c) /\ ~Accepted(c)
  BY <1>1 DEF AskedStore, Accepted, JwsInv, JwsTypeOK
<1>3. t \in JwsToken /\ \E s \in minted \cup OthersTokens : t.claims = s.claims
  BY PresentedParts DEF JwsInv, JwsTypeOK
<1>4. new \in CallState /\ (new.at = "refused") = (new.reason # "none")
  <2>1. CASE Fault(t, v) # "none"
    BY <2>1, FaultReason DEF CallState
  <2>2. CASE Fault(t, v) = "none"
    BY <1>1, <1>3, <2>2 DEF CallState, Reasons
  <2>3. QED
    BY <2>1, <2>2
<1>5. /\ calls' \in [Call -> CallState] /\ calls'[c] = new
      /\ \A d \in Call : d # c => calls'[d] = calls[d]
  <2> HIDE DEF new
  <2> QED
    BY <1>1, <1>4
<1>6. JwsTypeOK'
  <2> HIDE DEF new
  <2> QED
    BY <1>1, <1>4, <1>5 DEF JwsInv, JwsTypeOK
<1>7. CASE Fault(t, v) # "none"
  <2>1. ~AskedStore(c)' /\ ~Accepted(c)' /\ calls'[c].at # "sighting"
    BY <1>5, <1>7, FaultReason DEF AskedStore, Accepted
  <2>2. ChecksPassed'
    <3>1. ASSUME NEW d \in Call
          PROVE  /\ AskedStore(d)' \/ Accepted(d)' => PassedChecks(d)'
                 /\ calls'[d].at = "sighting" => Replays(calls'[d].by) /\ calls'[d].reason = "none"
                 /\ Accepted(d)' /\ Replays(calls'[d].by) => Slot(d)' \in seen'
      <4>1. CASE d = c
        BY <2>1, <4>1
      <4>2. CASE d # c
        BY <1>1, <1>5, <4>2, PassedStays DEF JwsInv, ChecksPassed, AskedStore, Accepted, Slot
      <4>3. QED
        BY <4>1, <4>2
    <3>2. QED
      BY <3>1 DEF ChecksPassed
  <2>3. SlotsTaken'
    BY <1>1, <1>2, <1>5 DEF JwsInv, SlotsTaken, AskedStore, Slot
  <2>4. AcceptedOncePerSlot'
    BY <1>5, <2>1 DEF JwsInv, AcceptedOncePerSlot, Accepted, Slot
  <2>5. QED
    BY <1>6, <2>2, <2>3, <2>4 DEF JwsInv
<1>8. CASE Fault(t, v) = "none"
  <2>1. calls'[c] = passed
    BY <1>5, <1>8
  <2>2. PassedChecks(c)'
    <3>1. /\ SignedBy(v.key, t) /\ t.header = KeyAlgorithm(v.key)
          /\ ClaimsInScope(t.claims, v, now)
      BY <1>8, NoFault DEF JwsInv
    <3>2. passed \in [at : {"sighting", "accepted", "refused"}, reason : Reasons,
                      token : JwsToken, by : Verifiers, time : 0 .. MaxTime]
      BY <1>1, <1>3 DEF Reasons
    <3>3. /\ SignedBy(v.key, t)' /\ (t.header = KeyAlgorithm(v.key))'
          /\ ClaimsInScope(t.claims, v, now)
      BY <1>1, <3>1 DEF SignedBy
    <3>4. passed.by = v /\ passed.token = t /\ passed.time = now
      OBVIOUS
    <3>5. QED
      BY <1>1, <1>3, <2>1, <3>2, <3>3, <3>4 DEF PassedChecks, SignedBy, ClaimsInScope, KeyAlgorithm
  <2>3. /\ calls'[c].at = "sighting" => Replays(calls'[c].by) /\ calls'[c].reason = "none"
        /\ ~(Accepted(c)' /\ Replays(calls'[c].by))
    BY <2>1 DEF Accepted
  <2>4. ChecksPassed'
    <3>1. ASSUME NEW d \in Call
          PROVE  /\ AskedStore(d)' \/ Accepted(d)' => PassedChecks(d)'
                 /\ calls'[d].at = "sighting" => Replays(calls'[d].by) /\ calls'[d].reason = "none"
                 /\ Accepted(d)' /\ Replays(calls'[d].by) => Slot(d)' \in seen'
      <4>1. CASE d = c
        BY <2>2, <2>3, <4>1
      <4>2. CASE d # c
        BY <1>1, <1>5, <4>2, PassedStays DEF JwsInv, ChecksPassed, AskedStore, Accepted, Slot
      <4>3. QED
        BY <4>1, <4>2
    <3>2. QED
      BY <3>1 DEF ChecksPassed
  <2>5. SlotsTaken'
    BY <1>1, <1>2, <1>5 DEF JwsInv, SlotsTaken, AskedStore, Slot
  <2>6. AcceptedOncePerSlot'
    BY <1>5, <2>3 DEF JwsInv, AcceptedOncePerSlot, Accepted, Slot
  <2>7. QED
    BY <1>6, <2>4, <2>5, <2>6 DEF JwsInv
<1>9. QED
  BY <1>7, <1>8

\* What the store's answer makes of a call, in the three forms it has: the sighting of a
\* slot that was free is an acceptance, and anything else is a refusal.
LEMMA StoreAnswers ==
    ASSUME JwsInv, NEW c \in Call, calls[c].at = "sighting",
           NEW at \in {"accepted", "refused"},
           NEW reason \in {"none", "replay-detected", "store-failed"},
           (at = "refused") = (reason # "none"),
           calls' = [calls EXCEPT ![c].at = at, ![c].reason = reason],
           seen' \in {seen, seen \cup {Slot(c)}},
           at = "accepted" => Slot(c) \notin seen /\ seen' = seen \cup {Slot(c)},
           UNCHANGED <<now, minted>>
    PROVE  JwsInv'
<1> DEFINE new == [calls[c] EXCEPT !.at = at, !.reason = reason]
<1>1. /\ calls \in [Call -> CallState] /\ PassedChecks(c) /\ Replays(calls[c].by)
  BY DEF JwsInv, JwsTypeOK, ChecksPassed, AskedStore
<1>2. /\ new \in [at : {"sighting", "accepted", "refused"}, reason : Reasons,
                  token : JwsToken, by : Verifiers, time : 0 .. MaxTime]
      /\ new.at = at /\ new.reason = reason /\ new.token = calls[c].token
      /\ new.by = calls[c].by /\ new.time = calls[c].time
  BY <1>1 DEF PassedChecks, Reasons
<1>3. calls' = [calls EXCEPT ![c] = new]
  BY <1>1
<1>4. /\ calls' \in [Call -> CallState] /\ calls'[c] = new
      /\ \A d \in Call : d # c => calls'[d] = calls[d]
  <2>1. new \in CallState
    BY <1>2 DEF CallState
  <2> HIDE DEF new
  <2> QED
    BY <1>1, <1>3, <2>1
<1> HIDE DEF new
<1>5. Slot(c)' = Slot(c)
  BY <1>2, <1>4 DEF Slot
<1>6. JwsTypeOK'
  <2>1. Slot(c) \in {<<w.replay, t.claims.jti>> : w \in Verifiers, t \in minted \cup OthersTokens}
    BY <1>1 DEF PassedChecks, Slot
  <2>2. QED
    BY <1>2, <1>4, <2>1 DEF JwsInv, JwsTypeOK
<1>7. PassedChecks(c)'
  BY <1>1, <1>2, <1>4 DEF PassedChecks, SignedBy, ClaimsInScope, KeyAlgorithm
<1>8. ChecksPassed'
  <2>1. ASSUME NEW d \in Call
        PROVE  /\ AskedStore(d)' \/ Accepted(d)' => PassedChecks(d)'
               /\ calls'[d].at = "sighting" => Replays(calls'[d].by) /\ calls'[d].reason = "none"
               /\ Accepted(d)' /\ Replays(calls'[d].by) => Slot(d)' \in seen'
    <3>1. CASE d = c
      BY <1>2, <1>4, <1>5, <1>7, <3>1 DEF Accepted
    <3>2. CASE d # c
      BY <1>4, <3>2, PassedStays DEF JwsInv, ChecksPassed, AskedStore, Accepted, Slot
    <3>3. QED
      BY <3>1, <3>2
  <2>2. QED
    BY <2>1 DEF ChecksPassed
<1>9. SlotsTaken'
  <2>1. AskedStore(c)'
    BY <1>1, <1>2, <1>4 DEF AskedStore, Replays
  <2>2. ASSUME NEW slot \in seen PROVE \E d \in Call : AskedStore(d)' /\ Slot(d)' = slot
    <3>1. PICK d \in Call : AskedStore(d) /\ Slot(d) = slot
      BY DEF JwsInv, SlotsTaken
    <3>2. CASE d = c
      BY <1>5, <2>1, <3>1, <3>2
    <3>3. CASE d # c
      BY <1>4, <3>1, <3>3 DEF AskedStore, Slot
    <3>4. QED
      BY <3>2, <3>3
  <2>3. QED
    BY <1>5, <2>1, <2>2 DEF SlotsTaken
<1>10. AcceptedOncePerSlot'
  <2>1. ASSUME NEW d \in Call, d # c, Accepted(d), Replays(calls[d].by), at = "accepted"
        PROVE  Slot(d) # Slot(c)
    BY <2>1 DEF JwsInv, ChecksPassed
  <2>2. QED
    BY <1>2, <1>4, <1>5, <2>1 DEF JwsInv, AcceptedOncePerSlot, Accepted, Slot
<1>11. QED
  BY <1>6, <1>8, <1>9, <1>10 DEF JwsInv

LEMMA JwsStepInv == JwsInv /\ [JwsNext]_jwsVars => JwsInv'
<1> SUFFICES ASSUME JwsInv, [JwsNext]_jwsVars PROVE JwsInv'
  OBVIOUS
<1>1. ASSUME NEW c \in Call, FirstSight(c) PROVE JwsInv'
  <2>1. CASE Slot(c) \in seen
    BY <1>1, <2>1, StoreAnswers DEF FirstSight
  <2>2. CASE Slot(c) \notin seen
    BY <1>1, <2>2, StoreAnswers DEF FirstSight
  <2>3. QED
    BY <2>1, <2>2
<1>2. ASSUME NEW c \in Call, FirstSightThrows(c) PROVE JwsInv'
  BY <1>2, StoreAnswers DEF FirstSightThrows
<1>3. ASSUME now' \in 0 .. MaxTime, UNCHANGED <<minted, seen, calls>> PROVE JwsInv'
  <2>1. JwsTypeOK'
    BY <1>3 DEF JwsInv, JwsTypeOK
  <2>2. ChecksPassed'
    BY <1>3, PassedStays DEF JwsInv, ChecksPassed, AskedStore, Accepted, Slot
  <2>3. QED
    BY <1>3, <2>1, <2>2
       DEF JwsInv, SlotsTaken, AcceptedOncePerSlot, AskedStore, Accepted, Slot
<1>4. CASE JwsTick \/ UNCHANGED jwsVars
  BY <1>3, <1>4, JwsAssumption DEF JwsTick, jwsVars, JwsInv, JwsTypeOK
<1>5. QED
  BY <1>1, <1>2, <1>4, SignInv, VerifyInv DEF JwsNext

LEMMA JwsInvariant == JwsSpec => []JwsInv
  BY JwsInitInv, JwsStepInv, PTL DEF JwsSpec

\* Whatever tokens are put together out of signed ones, an accepted one is what the key's
\* holder signed, for this issuer, audience, policy and time (jws.ts, verifyJws).
THEOREM AcceptedTokensAreSound == JwsSpec => []AcceptedSound
<1>1. JwsInv => AcceptedSound
  <2> SUFFICES ASSUME JwsInv PROVE AcceptedSound
    OBVIOUS
  <2>1. ASSUME NEW c \in Call, Accepted(c) PROVE PassedChecks(c)
    BY <2>1 DEF JwsInv, ChecksPassed
  <2>2. AcceptedIsAuthentic
    BY <2>1 DEF AcceptedIsAuthentic, PassedChecks, SignedBy
  <2>3. AcceptedInScope
    BY <2>1 DEF AcceptedInScope, PassedChecks, ClaimsInScope
  <2>4. QED
    BY <2>2, <2>3 DEF AcceptedSound, JwsInv
<1>2. QED
  BY <1>1, JwsInvariant, PTL

\* However many verifications overlap, a store accepts a jti once, and a slot in it is
\* taken by a token that had passed every other check (jws.ts, verifyJws).
THEOREM TokensAreUsedOnce == JwsSpec => []JtiAcceptedOnce
<1>1. JwsInv => JtiAcceptedOnce
  <2> SUFFICES ASSUME JwsInv PROVE JtiAcceptedOnce
    OBVIOUS
  <2>1. ASSUME NEW c \in Call, AskedStore(c)
        PROVE  /\ calls[c].at # "new"
               /\ calls[c].reason \in {"none", "replay-detected", "store-failed"}
    BY <2>1 DEF AskedStore, JwsInv, JwsTypeOK, ChecksPassed
  <2>2. QED
    BY <2>1 DEF JtiAcceptedOnce, JwsInv, AcceptedOncePerSlot, SlotsTaken
<1>2. QED
  BY <1>1, JwsInvariant, PTL

-----------------------------------------------------------------------------
(* DER signatures.                                                         *)

\* A set of natural numbers has a least one.
LEMMA LeastElement ==
    ASSUME NEW T \in SUBSET Nat, T # {}
    PROVE  \E m \in T : \A k \in T : m <= k
<1> DEFINE R == {ss \in Nat \X Nat : ss[1] < ss[2]}
<1>1. IsWellFoundedOn(R, Nat)
  BY NatLessThanWellFounded DEF OpToRel
<1>2. \E m \in T : \A k \in T : ~(<<k, m>> \in R)
  <2> HIDE DEF R
  <2> QED
    BY <1>1, WFMin, Zenon
<1>3. PICK m \in T : \A k \in T : ~(<<k, m>> \in R)
  BY <1>2
<1>4. \A k \in T : ~(k < m)
  BY <1>3
<1>5. QED
  BY <1>3, <1>4

\* Where the zeros in front end: at the first byte that is none, or at the last byte.
ZerosEndAt(bytes, from) ==
    /\ from \in 1 .. Len(bytes)
    /\ bytes[from] # 0 \/ from = Len(bytes)
    /\ \A j \in 1 .. from - 1 : bytes[j] = 0

LEMMA StrippedFrom ==
    ASSUME NEW bytes \in Seq(Nat), NEW from \in Nat, ZerosEndAt(bytes, from)
    PROVE  Stripped(bytes) = SubSeq(bytes, from, Len(bytes))
<1>1. Len(bytes) \in Nat
  BY LenProperties
<1>2. ASSUME NEW i \in 1 .. Len(bytes), bytes[i] # 0 \/ i = Len(bytes),
             \A j \in 1 .. i - 1 : bytes[j] = 0
      PROVE  i = from
  <2>1. ~(i < from)
    BY <1>1, <1>2 DEF ZerosEndAt
  <2>2. ~(from < i)
    BY <1>1, <1>2 DEF ZerosEndAt
  <2>3. QED
    BY <1>1, <2>1, <2>2 DEF ZerosEndAt
<1>3. DOMAIN bytes = 1 .. Len(bytes)
  BY LenProperties
<1>4. (CHOOSE i \in DOMAIN bytes : /\ bytes[i] # 0 \/ i = Len(bytes)
                                   /\ \A j \in 1 .. i - 1 : bytes[j] = 0) = from
  BY <1>2, <1>3 DEF ZerosEndAt
<1>5. QED
  BY <1>4 DEF Stripped

LEMMA ZerosEnd ==
    ASSUME NEW bytes \in Seq(Nat), bytes # <<>>
    PROVE  \E from \in Nat : ZerosEndAt(bytes, from)
<1> DEFINE T == {i \in 1 .. Len(bytes) : bytes[i] # 0 \/ i = Len(bytes)}
<1>1. Len(bytes) \in Nat \ {0} /\ \A i \in 1 .. Len(bytes) : bytes[i] \in Nat
  BY EmptySeq, ElementOfSeq
<1>2. T \in SUBSET Nat /\ T # {}
  BY <1>1
<1>3. PICK m \in T : \A k \in T : m <= k
  <2> HIDE DEF T
  <2> QED
    BY <1>2, LeastElement
<1>4. ASSUME NEW j \in 1 .. m - 1 PROVE bytes[j] = 0
  BY <1>1, <1>3
<1>5. QED
  BY <1>3, <1>4 DEF ZerosEndAt

\* What Stripped leaves: the bytes after the zeros, with no zero in front unless alone.
LEMMA StrippedShape ==
    ASSUME NEW bytes \in Seq(Nat), bytes # <<>>
    PROVE  /\ Stripped(bytes) \in Seq(Nat)
           /\ Len(Stripped(bytes)) \in 1 .. Len(bytes)
           /\ Stripped(bytes)[1] # 0 \/ Len(Stripped(bytes)) = 1
           /\ \A i \in 1 .. Len(bytes) - Len(Stripped(bytes)) : bytes[i] = 0
           /\ \A i \in 1 .. Len(Stripped(bytes)) :
                Stripped(bytes)[i] = bytes[Len(bytes) - Len(Stripped(bytes)) + i]
<1>1. PICK from \in Nat : ZerosEndAt(bytes, from)
  BY ZerosEnd
<1>2. /\ Len(bytes) \in Nat \ {0} /\ \A i \in 1 .. Len(bytes) : bytes[i] \in Nat
      /\ from \in 1 .. Len(bytes)
  BY <1>1, EmptySeq, ElementOfSeq DEF ZerosEndAt
<1>3. Stripped(bytes) = SubSeq(bytes, from, Len(bytes))
  BY <1>1, StrippedFrom
<1>4. /\ SubSeq(bytes, from, Len(bytes)) \in Seq(Nat)
      /\ Len(SubSeq(bytes, from, Len(bytes))) = Len(bytes) - from + 1
      /\ \A i \in 1 .. Len(bytes) - from + 1 :
           SubSeq(bytes, from, Len(bytes))[i] = bytes[from + i - 1]
  BY <1>2, SubSeqProperties
<1>5. QED
  BY <1>1, <1>2, <1>3, <1>4 DEF ZerosEndAt

\* Bytes with no zero in front are left as they are.
LEMMA StrippedIsFixed ==
    ASSUME NEW v \in Seq(Nat), v # <<>>, v[1] # 0 \/ Len(v) = 1
    PROVE  Stripped(v) = v
<1>1. ZerosEndAt(v, 1)
  BY EmptySeq DEF ZerosEndAt
<1>2. QED
  BY <1>1, StrippedFrom, SubSeqFull

\* The fixed width puts the zeros back, and they come off again.
LEMMA AlignedShape ==
    ASSUME NEW mag \in Seq(Nat), Len(mag) \in 1 .. Width, mag[1] # 0 \/ Len(mag) = 1
    PROVE  /\ Aligned(mag) \in [1 .. Width -> Nat]
           /\ Stripped(Aligned(mag)) = mag
<1> DEFINE pad == Width - Len(mag)
           x == Aligned(mag)
<1>1. Width \in Nat \ {0} /\ \A i \in 1 .. Len(mag) : mag[i] \in Nat
  BY DerAssumption, ElementOfSeq
<1>2. x = [i \in 1 .. Width |-> IF i <= pad THEN 0 ELSE mag[i - pad]]
  BY DEF Aligned
<1>3. x \in [1 .. Width -> Nat]
  BY <1>1, <1>2
<1>4. x \in Seq(Nat) /\ Len(x) = Width
  BY <1>1, <1>3, SeqDef, LenProperties
<1>5. ZerosEndAt(x, pad + 1)
  <2>1. pad + 1 \in 1 .. Width /\ x[pad + 1] = mag[1]
    BY <1>1, <1>2
  <2>2. \A j \in 1 .. pad : x[j] = 0
    BY <1>1, <1>2
  <2>3. Len(mag) = 1 => pad + 1 = Width
    BY <1>1
  <2>4. pad \in Nat /\ pad + 1 - 1 = pad
    BY <1>1
  <2> HIDE DEF x, pad
  <2>5. QED
    BY <1>4, <2>1, <2>2, <2>3, <2>4 DEF ZerosEndAt
<1>6. Stripped(x) = SubSeq(x, pad + 1, Width)
  <2>1. pad + 1 \in Nat
    BY <1>1
  <2> HIDE DEF x, pad
  <2>2. QED
    BY <1>4, <1>5, <2>1, StrippedFrom
<1>7. /\ SubSeq(x, pad + 1, Width) \in Seq(Nat)
      /\ Len(SubSeq(x, pad + 1, Width)) = Len(mag)
      /\ \A i \in 1 .. Len(mag) : SubSeq(x, pad + 1, Width)[i] = x[pad + i]
  <2>1. \A i \in pad + 1 .. Width : x[i] \in Nat
    BY <1>1, <1>3
  <2>2. pad \in Int
    BY <1>1
  <2> HIDE DEF x, pad
  <2>3. /\ SubSeq(x, pad + 1, Width) \in Seq(Nat)
        /\ Len(SubSeq(x, pad + 1, Width)) = IF pad + 1 <= Width THEN Width - (pad + 1) + 1 ELSE 0
        /\ \A i \in 1 .. Width - (pad + 1) + 1 :
             SubSeq(x, pad + 1, Width)[i] = x[pad + 1 + i - 1]
    BY <1>1, <2>1, <2>2, SubSeqProperties
  <2>4. QED
    BY <1>1, <2>2, <2>3 DEF pad
<1>8. \A i \in 1 .. Len(mag) : x[pad + i] = mag[i]
  BY <1>1, <1>2
<1>9. SubSeq(x, pad + 1, Width) = mag
  <2> HIDE DEF x, pad
  <2> QED
    BY <1>7, <1>8, SeqEqual
<1>10. QED
  BY <1>3, <1>6, <1>9

\* A scalar is what its own stripped bytes align to.
LEMMA AlignedStripped ==
    ASSUME NEW scalar \in Scalar
    PROVE  /\ scalar \in Seq(Nat) /\ Len(scalar) = Width /\ scalar # <<>>
           /\ Len(Stripped(scalar)) \in 1 .. Width
           /\ Aligned(Stripped(scalar)) = scalar
           /\ ~IsZero(scalar) => Stripped(scalar)[1] # 0
<1>1. Width \in Nat \ {0} /\ scalar \in [1 .. Width -> Nat]
  <2>1. ScalarBytes \subseteq Nat
    BY DerAssumption
  <2>2. QED
    BY <2>1, DerAssumption DEF Scalar
<1>2. scalar \in Seq(Nat) /\ Len(scalar) = Width /\ scalar # <<>>
  BY <1>1, SeqDef, LenProperties, EmptySeq
<1>3. /\ Len(Stripped(scalar)) \in 1 .. Width
      /\ \A i \in 1 .. Width - Len(Stripped(scalar)) : scalar[i] = 0
      /\ \A i \in 1 .. Len(Stripped(scalar)) :
           Stripped(scalar)[i] = scalar[Width - Len(Stripped(scalar)) + i]
      /\ Stripped(scalar)[1] # 0 \/ Len(Stripped(scalar)) = 1
  BY <1>2, StrippedShape
<1>4. Aligned(Stripped(scalar)) = scalar
  <2> DEFINE mag == Stripped(scalar)
             pad == Width - Len(mag)
  <2>1. pad \in 0 .. Width - 1
    BY <1>1, <1>3
  <2>2. ASSUME NEW i \in 1 .. Width
        PROVE  (IF i <= pad THEN 0 ELSE mag[i - pad]) = scalar[i]
    <3>1. CASE i <= pad
      BY <1>3, <2>1, <3>1
    <3>2. CASE ~(i <= pad)
      <4>1. i - pad \in 1 .. Len(mag) /\ pad + (i - pad) = i
        BY <1>1, <1>3, <3>2
      <4>2. mag[i - pad] = scalar[pad + (i - pad)]
        BY <1>3, <4>1
      <4>3. QED
        BY <3>2, <4>1, <4>2
    <3>3. QED
      BY <3>1, <3>2
  <2>3. [i \in 1 .. Width |-> IF i <= pad THEN 0 ELSE mag[i - pad]] = scalar
    <3> HIDE DEF pad, mag
    <3> QED
      BY <1>1, <2>2
  <2>4. QED
    BY <2>3 DEF Aligned
<1>5. ~IsZero(scalar) => Stripped(scalar)[1] # 0
  <2>1. CASE Stripped(scalar)[1] # 0
    BY <2>1
  <2>2. CASE Len(Stripped(scalar)) = 1 /\ Stripped(scalar)[1] = 0
    <3>1. /\ \A i \in 1 .. Width - 1 : scalar[i] = 0
          /\ scalar[Width - 1 + 1] = 0
      BY <1>3, <2>2
    <3>2. \A i \in 1 .. Width : scalar[i] = 0
      BY <1>1, <3>1
    <3>3. QED
      BY <3>2 DEF IsZero
  <2>3. QED
    BY <1>3, <2>1, <2>2
<1>6. QED
  BY <1>2, <1>3, <1>4, <1>5

\* An INTEGER's content: the stripped scalar, and a zero before a top bit (rawToDer).
IntegerContent(scalar) ==
    LET v == Stripped(scalar) IN IF v[1] >= HighBit THEN <<0>> \o v ELSE v

LEMMA ContentShape ==
    ASSUME NEW scalar \in Scalar, ~IsZero(scalar)
    PROVE  LET content == IntegerContent(scalar)
           IN  /\ content \in Seq(Nat) /\ Len(content) \in 1 .. Width + 1
               /\ content[1] < HighBit
               /\ Stripped(content) = Stripped(scalar)
               /\ DerInteger(scalar) = <<INTEGER, Len(content)>> \o content
<1> DEFINE v == Stripped(scalar)
           content == IntegerContent(scalar)
<1>1. Width \in Nat \ {0} /\ HighBit \in Nat /\ HighBit > 0
  BY DerAssumption
<1>2. v \in Seq(Nat) /\ Len(v) \in 1 .. Width /\ v # <<>> /\ v[1] # 0
  BY AlignedStripped, StrippedShape, EmptySeq
<1>3. v[1] \in Nat
  BY <1>1, <1>2, ElementOfSeq
<1>4. CASE v[1] >= HighBit
  <2>1. content = <<0>> \o v
    BY <1>4 DEF IntegerContent
  <2>2. <<0>> \in Seq(Nat) /\ Len(<<0>>) = 1
    OBVIOUS
  <2>3. /\ content \in Seq(Nat) /\ Len(content) = 1 + Len(v)
        /\ \A i \in 1 .. 1 + Len(v) : content[i] = IF i <= 1 THEN <<0>>[i] ELSE v[i - 1]
    <3> HIDE DEF v, content
    <3> QED
      BY <1>2, <2>1, <2>2, ConcatProperties
  <2>4. content[1] = 0 /\ \A i \in 1 .. Len(v) : content[1 + i] = v[i]
    <3> HIDE DEF v, content
    <3> QED
      BY <1>1, <1>2, <2>3
  <2>5. Stripped(content) = v
    <3> HIDE DEF v, content
    <3>1. ZerosEndAt(content, 2)
      <4>1. 2 \in 1 .. Len(content) /\ content[2] = v[1]
        BY <1>1, <1>2, <2>3, <2>4
      <4>2. \A j \in 1 .. 2 - 1 : content[j] = 0
        BY <2>4
      <4>3. QED
        BY <1>2, <4>1, <4>2 DEF ZerosEndAt
    <3>2. Stripped(content) = SubSeq(content, 2, Len(content))
      BY <2>3, <3>1, StrippedFrom
    <3>3. \A i \in 2 .. Len(content) : content[i] \in Nat
      BY <2>3, ElementOfSeq
    <3>4. /\ SubSeq(content, 2, Len(content)) \in Seq(Nat)
          /\ Len(SubSeq(content, 2, Len(content))) = IF 2 <= Len(content) THEN Len(content) - 2 + 1 ELSE 0
          /\ \A i \in 1 .. Len(content) - 2 + 1 : SubSeq(content, 2, Len(content))[i] = content[2 + i - 1]
      BY <1>1, <1>2, <2>3, <3>3, SubSeqProperties
    <3>5. Len(SubSeq(content, 2, Len(content))) = Len(v)
      BY <1>1, <1>2, <2>3, <3>4
    <3>6. \A i \in 1 .. Len(v) : SubSeq(content, 2, Len(content))[i] = v[i]
      BY <1>1, <1>2, <2>3, <2>4, <3>4
    <3>7. QED
      BY <1>2, <3>2, <3>4, <3>5, <3>6, SeqEqual
  <2>6. QED
    BY <1>1, <1>2, <1>4, <2>3, <2>4, <2>5 DEF DerInteger, IntegerContent
<1>5. CASE ~(v[1] >= HighBit)
  <2>1. content = v
    BY <1>5 DEF IntegerContent
  <2>2. Stripped(v) = v
    BY <1>2, StrippedIsFixed
  <2>3. QED
    BY <1>1, <1>2, <1>3, <1>5, <2>1, <2>2 DEF DerInteger, IntegerContent
<1>6. QED
  BY <1>4, <1>5

\* Bytes one after the other.
LEMMA Joined ==
    ASSUME NEW s \in Seq(Nat), NEW t \in Seq(Nat)
    PROVE  /\ s \o t \in Seq(Nat)
           /\ Len(s \o t) = Len(s) + Len(t)
           /\ \A i \in 1 .. Len(s) : (s \o t)[i] = s[i]
           /\ \A i \in 1 .. Len(t) : (s \o t)[Len(s) + i] = t[i]
<1>1. Len(s) \in Nat /\ Len(t) \in Nat
  BY LenProperties
<1>2. /\ s \o t \in Seq(Nat)
      /\ Len(s \o t) = Len(s) + Len(t)
      /\ \A i \in 1 .. Len(s) + Len(t) :
           (s \o t)[i] = IF i <= Len(s) THEN s[i] ELSE t[i - Len(s)]
  BY ConcatProperties
<1>3. ASSUME NEW i \in 1 .. Len(t) PROVE (s \o t)[Len(s) + i] = t[i]
  <2>1. /\ Len(s) + i \in 1 .. Len(s) + Len(t) /\ ~(Len(s) + i <= Len(s))
        /\ Len(s) + i - Len(s) = i
    BY <1>1
  <2>2. QED
    BY <1>2, <2>1
<1>4. QED
  BY <1>1, <1>2, <1>3

\* A tag and a length in front.
LEMMA TwoInFront ==
    ASSUME NEW p \in Nat, NEW q \in Nat, NEW s \in Seq(Nat)
    PROVE  LET t == <<p, q>> \o s
           IN  /\ t \in Seq(Nat) /\ Len(t) = 2 + Len(s)
               /\ t[1] = p /\ t[2] = q
               /\ \A i \in 1 .. Len(s) : t[2 + i] = s[i]
<1> DEFINE h == <<p, q>>
<1>1. h \in Seq(Nat) /\ Len(h) = 2 /\ h[1] = p /\ h[2] = q
  OBVIOUS
<1> HIDE DEF h
<1>2. /\ h \o s \in Seq(Nat) /\ Len(h \o s) = Len(h) + Len(s)
      /\ \A i \in 1 .. Len(h) : (h \o s)[i] = h[i]
      /\ \A i \in 1 .. Len(s) : (h \o s)[Len(h) + i] = s[i]
  BY <1>1, Joined
<1>3. QED
  BY <1>1, <1>2 DEF h

\* Where each byte of a SEQUENCE of two INTEGERs lies.
LaidOut(bytes, n, a, b) ==
    /\ bytes \in Seq(Nat)
    /\ Len(bytes) = 6 + Len(a) + Len(b)
    /\ bytes[1] = SEQUENCE /\ bytes[2] = n
    /\ bytes[3] = INTEGER /\ bytes[4] = Len(a)
    /\ \A i \in 1 .. Len(a) : bytes[4 + i] = a[i]
    /\ bytes[5 + Len(a)] = INTEGER /\ bytes[6 + Len(a)] = Len(b)
    /\ \A i \in 1 .. Len(b) : bytes[6 + Len(a) + i] = b[i]

SequenceOf(n, a, b) ==
    <<SEQUENCE, n>> \o ((<<INTEGER, Len(a)>> \o a) \o (<<INTEGER, Len(b)>> \o b))

LEMMA Layout ==
    ASSUME NEW a \in Seq(Nat), NEW b \in Seq(Nat), NEW n \in Nat
    PROVE  LaidOut(SequenceOf(n, a, b), n, a, b)
<1> DEFINE x == <<INTEGER, Len(a)>> \o a
           y == <<INTEGER, Len(b)>> \o b
           z == x \o y
           bytes == <<SEQUENCE, n>> \o z
<1>1. SEQUENCE \in Nat /\ INTEGER \in Nat /\ Len(a) \in Nat /\ Len(b) \in Nat
  BY DerAssumption, LenProperties
<1>2. /\ x \in Seq(Nat) /\ Len(x) = 2 + Len(a)
      /\ x[1] = INTEGER /\ x[2] = Len(a) /\ \A i \in 1 .. Len(a) : x[2 + i] = a[i]
  BY <1>1, TwoInFront
<1>3. /\ y \in Seq(Nat) /\ Len(y) = 2 + Len(b)
      /\ y[1] = INTEGER /\ y[2] = Len(b) /\ \A i \in 1 .. Len(b) : y[2 + i] = b[i]
  BY <1>1, TwoInFront
<1> HIDE DEF x, y
<1>4. /\ z \in Seq(Nat) /\ Len(z) = Len(x) + Len(y)
      /\ \A i \in 1 .. Len(x) : z[i] = x[i]
      /\ \A i \in 1 .. Len(y) : z[Len(x) + i] = y[i]
  BY <1>2, <1>3, Joined
<1> HIDE DEF z
<1>5. /\ bytes \in Seq(Nat) /\ Len(bytes) = 2 + Len(z)
      /\ bytes[1] = SEQUENCE /\ bytes[2] = n
      /\ \A i \in 1 .. Len(z) : bytes[2 + i] = z[i]
  BY <1>1, <1>4, TwoInFront
<1> HIDE DEF bytes
<1>6. Len(bytes) = 6 + Len(a) + Len(b)
  BY <1>1, <1>2, <1>3, <1>4, <1>5
<1>7. ASSUME NEW i \in Nat, i \in 1 .. 2 + Len(a) PROVE bytes[2 + i] = x[i]
  <2>1. i \in 1 .. Len(x) /\ i \in 1 .. Len(z)
    BY <1>1, <1>2, <1>3, <1>4, <1>7
  <2>2. QED
    BY <1>4, <1>5, <2>1
<1>8. ASSUME NEW i \in Nat, i \in 1 .. 2 + Len(b)
      PROVE  bytes[4 + Len(a) + i] = y[i]
  <2>1. i \in 1 .. Len(y) /\ 2 + Len(a) + i \in 1 .. Len(z)
        /\ 2 + (2 + Len(a) + i) = 4 + Len(a) + i
    BY <1>1, <1>2, <1>3, <1>4, <1>8
  <2>2. bytes[2 + (2 + Len(a) + i)] = z[2 + Len(a) + i]
    BY <1>5, <2>1
  <2>3. z[2 + Len(a) + i] = y[i]
    BY <1>2, <1>4, <2>1
  <2>4. QED
    BY <2>1, <2>2, <2>3
<1>9. bytes[3] = INTEGER /\ bytes[4] = Len(a)
  <2>1. bytes[2 + 1] = x[1] /\ bytes[2 + 2] = x[2]
    BY <1>1, <1>7
  <2>2. QED
    BY <1>2, <2>1
<1>10. ASSUME NEW i \in 1 .. Len(a) PROVE bytes[4 + i] = a[i]
  <2>1. 2 + i \in Nat /\ 2 + i \in 1 .. 2 + Len(a) /\ 2 + (2 + i) = 4 + i
    BY <1>1
  <2>2. bytes[2 + (2 + i)] = x[2 + i]
    BY <1>7, <2>1
  <2>3. QED
    BY <1>2, <2>1, <2>2
<1>11. bytes[5 + Len(a)] = INTEGER /\ bytes[6 + Len(a)] = Len(b)
  <2>1. bytes[4 + Len(a) + 1] = y[1] /\ bytes[4 + Len(a) + 2] = y[2]
    BY <1>1, <1>8
  <2>2. 4 + Len(a) + 1 = 5 + Len(a) /\ 4 + Len(a) + 2 = 6 + Len(a)
    BY <1>1
  <2>3. QED
    BY <1>3, <2>1, <2>2
<1>12. ASSUME NEW i \in 1 .. Len(b) PROVE bytes[6 + Len(a) + i] = b[i]
  <2>1. /\ 2 + i \in Nat /\ 2 + i \in 1 .. 2 + Len(b)
        /\ 4 + Len(a) + (2 + i) = 6 + Len(a) + i
    BY <1>1
  <2>2. bytes[4 + Len(a) + (2 + i)] = y[2 + i]
    BY <1>8, <2>1
  <2>3. QED
    BY <1>3, <2>1, <2>2
<1>13. QED
  BY <1>5, <1>6, <1>9, <1>10, <1>11, <1>12 DEF LaidOut, SequenceOf, bytes, z, x, y

\* A stretch that holds a sequence's elements is that sequence.
LEMMA Stretch ==
    ASSUME NEW bytes \in Seq(Nat), NEW a \in Seq(Nat), NEW at \in Nat,
           at + Len(a) <= Len(bytes), \A i \in 1 .. Len(a) : bytes[at + i] = a[i]
    PROVE  SubSeq(bytes, at + 1, at + Len(a)) = a
<1>1. Len(a) \in Nat /\ Len(bytes) \in Nat /\ \A i \in 1 .. Len(bytes) : bytes[i] \in Nat
  BY LenProperties, ElementOfSeq
<1>2. \A i \in at + 1 .. at + Len(a) : bytes[i] \in Nat
  BY <1>1
<1>3. /\ SubSeq(bytes, at + 1, at + Len(a)) \in Seq(Nat)
      /\ Len(SubSeq(bytes, at + 1, at + Len(a)))
           = IF at + 1 <= at + Len(a) THEN at + Len(a) - (at + 1) + 1 ELSE 0
      /\ \A i \in 1 .. at + Len(a) - (at + 1) + 1 :
           SubSeq(bytes, at + 1, at + Len(a))[i] = bytes[at + 1 + i - 1]
  BY <1>1, <1>2, SubSeqProperties
<1>4. Len(SubSeq(bytes, at + 1, at + Len(a))) = Len(a)
  BY <1>1, <1>3
<1>5. \A i \in 1 .. Len(a) : SubSeq(bytes, at + 1, at + Len(a))[i] = a[i]
  BY <1>1, <1>3
<1>6. QED
  BY <1>3, <1>4, <1>5, SeqEqual

\* The content of an INTEGER, cut out.
LEMMA Cut ==
    ASSUME NEW bytes \in Seq(Nat), NEW at \in Nat, NEW k \in Nat \ {0},
           at + 1 + k <= Len(bytes)
    PROVE  LET a == SubSeq(bytes, at + 2, at + 1 + k)
           IN  /\ a \in Seq(Nat) /\ Len(a) = k /\ a # <<>>
               /\ \A i \in 1 .. k : a[i] = bytes[at + 1 + i]
<1>1. Len(bytes) \in Nat /\ \A i \in at + 2 .. at + 1 + k : bytes[i] \in Nat
  BY LenProperties, ElementOfSeq
<1>2. /\ SubSeq(bytes, at + 2, at + 1 + k) \in Seq(Nat)
      /\ Len(SubSeq(bytes, at + 2, at + 1 + k))
           = IF at + 2 <= at + 1 + k THEN at + 1 + k - (at + 2) + 1 ELSE 0
      /\ \A i \in 1 .. at + 1 + k - (at + 2) + 1 :
           SubSeq(bytes, at + 2, at + 1 + k)[i] = bytes[at + 2 + i - 1]
  BY <1>1, SubSeqProperties
<1>3. Len(SubSeq(bytes, at + 2, at + 1 + k)) = k
  BY <1>2
<1>4. \A i \in 1 .. k : SubSeq(bytes, at + 2, at + 1 + k)[i] = bytes[at + 1 + i]
  BY <1>2
<1>5. QED
  BY <1>2, <1>3, <1>4, EmptySeq

\* An INTEGER that is read: its length is in range and its content is aligned.
LEMMA IntegerRead ==
    ASSUME NEW bytes \in Seq(Nat), NEW at \in Nat \ {0}, IntegerAt(bytes, at).ok
    PROVE  \E k \in 1 .. Width + 1 :
             LET mag == Stripped(SubSeq(bytes, at + 2, at + 1 + k))
             IN  /\ bytes[at] = INTEGER /\ bytes[at + 1] = k
                 /\ at + 1 + k <= Len(bytes)
                 /\ Len(mag) <= Width
                 /\ IntegerAt(bytes, at) = [ok |-> TRUE, scalar |-> Aligned(mag), next |-> at + 2 + k]
<1> DEFINE k == bytes[at + 1]
           mag == Stripped(SubSeq(bytes, at + 2, at + 1 + k))
<1>1. Len(bytes) \in Nat /\ Width \in Nat /\ NotRead.ok = FALSE
  BY LenProperties, DerAssumption DEF NotRead
<1>2. ~(at + 1 > Len(bytes) \/ bytes[at] # INTEGER)
  BY <1>1 DEF IntegerAt
<1>3. k \in Nat
  BY <1>1, <1>2, ElementOfSeq
<1>4. ~(k = 0 \/ k > Width + 1 \/ at + 1 + k > Len(bytes))
  BY <1>1, <1>2 DEF IntegerAt
<1>5. ~(Len(mag) > Width)
  BY <1>1, <1>2, <1>4 DEF IntegerAt
<1>6. IntegerAt(bytes, at) = [ok |-> TRUE, scalar |-> Aligned(mag), next |-> at + 2 + k]
  BY <1>2, <1>4, <1>5 DEF IntegerAt
<1>7. k \in 1 .. Width + 1 /\ at + 1 + k <= Len(bytes)
  BY <1>1, <1>3, <1>4
<1>8. Len(mag) <= Width
  <2>1. /\ SubSeq(bytes, at + 2, at + 1 + k) \in Seq(Nat)
        /\ SubSeq(bytes, at + 2, at + 1 + k) # <<>>
    BY <1>1, <1>7, Cut
  <2>2. Len(mag) \in Nat
    BY <2>1, StrippedShape, LenProperties
  <2>3. QED
    BY <1>1, <1>5, <2>2
<1>9. QED
  BY <1>2, <1>6, <1>7, <1>8

\* And the converse.
LEMMA IntegerReads ==
    ASSUME NEW bytes \in Seq(Nat), NEW at \in Nat \ {0}, NEW k \in 1 .. Width + 1,
           bytes[at] = INTEGER, bytes[at + 1] = k, at + 1 + k <= Len(bytes),
           Len(Stripped(SubSeq(bytes, at + 2, at + 1 + k))) \in 1 .. Width
    PROVE  LET a == SubSeq(bytes, at + 2, at + 1 + k)
           IN  IntegerAt(bytes, at)
                 = [ok |-> TRUE, scalar |-> Aligned(Stripped(a)), next |-> at + 2 + k]
<1> DEFINE a == SubSeq(bytes, at + 2, at + 1 + k)
<1>1. Len(bytes) \in Nat /\ Width \in Nat
  BY LenProperties, DerAssumption
<1>2. ~(at + 1 > Len(bytes) \/ bytes[at] # INTEGER)
  BY <1>1
<1>3. ~(k = 0 \/ k > Width + 1 \/ at + 1 + k > Len(bytes))
  BY <1>1
<1>4. ~(Len(Stripped(a)) > Width)
  BY <1>1
<1>5. QED
  BY <1>2, <1>3, <1>4 DEF IntegerAt

\* derToRaw gives back the two scalars rawToDer was given, and no content is negative.
LEMMA ReadsBack ==
    ASSUME NEW r \in Scalar, NEW s \in Scalar, ~IsZero(r), ~IsZero(s)
    PROVE  LET bytes == RawToDer(r, s)
           IN  /\ bytes \in Seq(Nat)
               /\ DerToRaw(bytes) = <<r, s>>
               /\ bytes[5] < HighBit /\ bytes[7 + bytes[4]] < HighBit
<1>1. /\ Width \in Nat \ {0} /\ HighBit \in Nat /\ 2 * (Width + 3) < HighBit
      /\ INTEGER \in Nat /\ SEQUENCE \in Nat
  BY DerAssumption
<1>2. PICK a \in Seq(Nat) :
        /\ Len(a) \in 1 .. Width + 1 /\ a[1] < HighBit
        /\ Stripped(a) = Stripped(r) /\ DerInteger(r) = <<INTEGER, Len(a)>> \o a
  BY ContentShape
<1>3. PICK b \in Seq(Nat) :
        /\ Len(b) \in 1 .. Width + 1 /\ b[1] < HighBit
        /\ Stripped(b) = Stripped(s) /\ DerInteger(s) = <<INTEGER, Len(b)>> \o b
  BY ContentShape
<1>4. /\ Len(Stripped(r)) \in 1 .. Width /\ Aligned(Stripped(r)) = r
      /\ Len(Stripped(s)) \in 1 .. Width /\ Aligned(Stripped(s)) = s
  BY AlignedStripped
<1>5. Len(DerInteger(r) \o DerInteger(s)) = 4 + Len(a) + Len(b)
  <2>1. DerInteger(r) \in Seq(Nat) /\ Len(DerInteger(r)) = 2 + Len(a)
    BY <1>1, <1>2, TwoInFront
  <2>2. DerInteger(s) \in Seq(Nat) /\ Len(DerInteger(s)) = 2 + Len(b)
    BY <1>1, <1>3, TwoInFront
  <2>3. QED
    BY <1>2, <1>3, <2>1, <2>2, Joined
<1>6. PICK n \in Nat : n = 4 + Len(a) + Len(b)
  BY <1>2, <1>3
<1> DEFINE bytes == RawToDer(r, s)
           k == Len(a)
           l == Len(b)
<1>7. bytes = SequenceOf(n, a, b)
  BY <1>2, <1>3, <1>5, <1>6 DEF RawToDer, SequenceOf
<1> HIDE DEF bytes
<1>8. /\ bytes \in Seq(Nat)
      /\ Len(bytes) = 6 + k + l
      /\ bytes[1] = SEQUENCE /\ bytes[2] = n
      /\ bytes[3] = INTEGER /\ bytes[4] = k
      /\ \A i \in 1 .. k : bytes[4 + i] = a[i]
      /\ bytes[5 + k] = INTEGER /\ bytes[6 + k] = l
      /\ \A i \in 1 .. l : bytes[6 + k + i] = b[i]
  <2>1. LaidOut(bytes, n, a, b)
    BY <1>7, Layout, Zenon
  <2>2. QED
    BY <2>1 DEF LaidOut
<1>9. k \in 1 .. Width + 1 /\ l \in 1 .. Width + 1 /\ n = 4 + k + l
  BY <1>2, <1>3, <1>6
<1> HIDE DEF k, l
<1>10. IntegerAt(bytes, 3) = [ok |-> TRUE, scalar |-> r, next |-> 5 + k]
  <2>1. SubSeq(bytes, 4 + 1, 4 + k) = a
    <3>1. 4 + k <= Len(bytes)
      BY <1>8, <1>9
    <3>2. QED
      BY ONLY a \in Seq(Nat), <1>8, <3>1, 4 \in Nat, Stretch DEF k
  <2>2. 3 + 1 = 4 /\ 3 + 2 = 4 + 1 /\ 3 + 1 + k = 4 + k /\ 3 + 2 + k = 5 + k
        /\ 3 + 1 + k <= Len(bytes)
    BY <1>8, <1>9
  <2>3. a = SubSeq(bytes, 3 + 2, 3 + 1 + k) /\ bytes[3 + 1] = k
    BY <1>8, <2>1, <2>2
  <2>4. IntegerAt(bytes, 3)
          = [ok |-> TRUE, scalar |-> Aligned(Stripped(a)), next |-> 3 + 2 + k]
    <3>1. /\ bytes \in Seq(Nat) /\ 3 \in Nat \ {0} /\ k \in 1 .. Width + 1
          /\ bytes[3] = INTEGER /\ bytes[3 + 1] = k /\ 3 + 1 + k <= Len(bytes)
          /\ Len(Stripped(a)) \in 1 .. Width
      BY <1>2, <1>4, <1>8, <1>9, <2>2, <2>3
    <3>2. QED
      BY ONLY a \in Seq(Nat), <2>3, <3>1, IntegerReads
  <2>5. QED
    BY <1>2, <1>4, <2>2, <2>4
<1>11. IntegerAt(bytes, 5 + k) = [ok |-> TRUE, scalar |-> s, next |-> Len(bytes) + 1]
  <2>1. SubSeq(bytes, 6 + k + 1, 6 + k + l) = b
    <3>1. 6 + k \in Nat /\ 6 + k + l <= Len(bytes)
      BY <1>8, <1>9
    <3>2. QED
      BY ONLY b \in Seq(Nat), <1>8, <3>1, Stretch DEF l
  <2>2. /\ 5 + k \in Nat \ {0} /\ 5 + k + 1 = 6 + k /\ 5 + k + 2 = 6 + k + 1
        /\ 5 + k + 1 + l = 6 + k + l /\ 5 + k + 2 + l = Len(bytes) + 1
        /\ 5 + k + 1 + l <= Len(bytes)
    BY <1>8, <1>9
  <2>3. b = SubSeq(bytes, 5 + k + 2, 5 + k + 1 + l) /\ bytes[5 + k + 1] = l
    BY <1>8, <2>1, <2>2
  <2>4. IntegerAt(bytes, 5 + k)
          = [ok |-> TRUE, scalar |-> Aligned(Stripped(b)), next |-> 5 + k + 2 + l]
    <3>1. /\ bytes \in Seq(Nat) /\ l \in 1 .. Width + 1
          /\ bytes[5 + k] = INTEGER
          /\ Len(Stripped(b)) \in 1 .. Width
      BY <1>3, <1>4, <1>8, <1>9
    <3>2. QED
      BY ONLY <2>2, <2>3, <3>1, IntegerReads
  <2>5. QED
    BY <1>3, <1>4, <2>2, <2>4
<1>12. ~(\/ Len(bytes) < 8 \/ Len(bytes) > 2 * Width + 8
         \/ bytes[1] # SEQUENCE
         \/ bytes[2] >= HighBit \/ bytes[2] + 2 # Len(bytes))
  <2>1. /\ k \in 1 .. Width + 1 /\ l \in 1 .. Width + 1
        /\ Len(bytes) = 6 + k + l /\ bytes[1] = SEQUENCE /\ bytes[2] = 4 + k + l
    BY <1>8, <1>9
  <2>2. QED
    BY ONLY <1>1, <2>1
<1>13. DerToRaw(bytes) = <<r, s>>
  BY <1>10, <1>11, <1>12 DEF DerToRaw
<1>14. bytes[5] < HighBit /\ bytes[7 + bytes[4]] < HighBit
  <2>1. bytes[4 + 1] = a[1] /\ bytes[6 + k + 1] = b[1]
    BY <1>8, <1>9
  <2>2. 4 + 1 = 5 /\ 6 + k + 1 = 7 + k
    BY <1>9
  <2>3. QED
    BY <1>2, <1>3, <1>8, <1>9, <2>1, <2>2
<1>15. QED
  BY <1>8, <1>13, <1>14 DEF bytes

\* Every byte has its place, so a layout determines the bytes.
LEMMA LaidOutOnce ==
    ASSUME NEW a \in Seq(Nat), NEW b \in Seq(Nat), NEW n,
           NEW x, NEW y, LaidOut(x, n, a, b), LaidOut(y, n, a, b)
    PROVE  x = y
<1>1. Len(a) \in Nat /\ Len(b) \in Nat
  BY LenProperties
<1>2. /\ x \in Seq(Nat) /\ y \in Seq(Nat)
      /\ Len(x) = 6 + Len(a) + Len(b) /\ Len(y) = 6 + Len(a) + Len(b)
      /\ x[1] = y[1] /\ x[2] = y[2] /\ x[3] = y[3] /\ x[4] = y[4]
      /\ x[5 + Len(a)] = y[5 + Len(a)] /\ x[6 + Len(a)] = y[6 + Len(a)]
  BY DEF LaidOut
<1>3. \A i \in 1 .. Len(a) : x[4 + i] = y[4 + i]
  BY DEF LaidOut
<1>4. \A i \in 1 .. Len(b) : x[6 + Len(a) + i] = y[6 + Len(a) + i]
  BY DEF LaidOut
<1>5. ASSUME NEW i \in 1 .. 6 + Len(a) + Len(b) PROVE x[i] = y[i]
  <2>1. CASE i - 4 \in 1 .. Len(a)
    <3>1. 4 + (i - 4) = i
      BY <1>1
    <3>2. QED
      BY <1>3, <2>1, <3>1
  <2>2. CASE i - (6 + Len(a)) \in 1 .. Len(b)
    <3>1. 6 + Len(a) + (i - (6 + Len(a))) = i
      BY <1>1
    <3>2. QED
      BY <1>4, <2>2, <3>1
  <2>3. CASE i \in {1, 2, 3, 4, 5 + Len(a), 6 + Len(a)}
    BY <1>2, <2>3
  <2>4. QED
    BY <1>1, <2>1, <2>2, <2>3
<1>6. QED
  BY <1>2, <1>5, SeqEqual

\* The bytes of a SEQUENCE of two INTEGERs, one run after the other.
LEMMA OneRun ==
    ASSUME NEW a \in Seq(Nat), NEW b \in Seq(Nat), NEW n \in Nat
    PROVE  LaidOut(<<SEQUENCE, n, INTEGER, Len(a)>> \o a \o <<INTEGER, Len(b)>> \o b, n, a, b)
<1>1. Len(a) \in Nat /\ Len(b) \in Nat /\ SEQUENCE \in Nat /\ INTEGER \in Nat
  BY LenProperties, DerAssumption
<1>2. PICK p \in Seq(Nat), h \in Seq(Nat) :
        /\ p = <<SEQUENCE, n, INTEGER, Len(a)>> /\ h = <<INTEGER, Len(b)>>
        /\ Len(p) = 4 /\ p[1] = SEQUENCE /\ p[2] = n /\ p[3] = INTEGER /\ p[4] = Len(a)
        /\ Len(h) = 2 /\ h[1] = INTEGER /\ h[2] = Len(b)
  <2>1. /\ <<SEQUENCE, n, INTEGER, Len(a)>> \in Seq(Nat)
        /\ Len(<<SEQUENCE, n, INTEGER, Len(a)>>) = 4
    BY <1>1
  <2>2. <<INTEGER, Len(b)>> \in Seq(Nat) /\ Len(<<INTEGER, Len(b)>>) = 2
    BY <1>1
  <2>3. QED
    BY <2>1, <2>2
<1>3. PICK q \in Seq(Nat) :
        /\ q = p \o a /\ Len(q) = 4 + Len(a)
        /\ \A i \in 1 .. 4 : q[i] = p[i]
        /\ \A i \in 1 .. Len(a) : q[4 + i] = a[i]
  <2>1. /\ p \o a \in Seq(Nat) /\ Len(p \o a) = Len(p) + Len(a)
        /\ \A i \in 1 .. Len(p) : (p \o a)[i] = p[i]
        /\ \A i \in 1 .. Len(a) : (p \o a)[Len(p) + i] = a[i]
    BY ONLY p \in Seq(Nat), a \in Seq(Nat), Joined
  <2>2. Len(p) = 4
    BY <1>2
  <2>3. QED
    BY ONLY <2>1, <2>2
<1>4. PICK w \in Seq(Nat) :
        /\ w = q \o h /\ Len(w) = 6 + Len(a)
        /\ \A i \in 1 .. 4 + Len(a) : w[i] = q[i]
        /\ \A i \in 1 .. 2 : w[4 + Len(a) + i] = h[i]
  <2>1. q \in Seq(Nat) /\ h \in Seq(Nat) /\ Len(q) = 4 + Len(a) /\ Len(h) = 2
    BY <1>2, <1>3
  <2>2. /\ q \o h \in Seq(Nat) /\ Len(q \o h) = Len(q) + Len(h)
        /\ \A i \in 1 .. Len(q) : (q \o h)[i] = q[i]
        /\ \A i \in 1 .. Len(h) : (q \o h)[Len(q) + i] = h[i]
    BY ONLY <2>1, Joined
  <2>3. Len(q) + Len(h) = 6 + Len(a)
    BY <1>1, <2>1
  <2>4. QED
    <3>1. /\ q \o h \in Seq(Nat) /\ Len(q \o h) = 6 + Len(a)
          /\ \A i \in 1 .. 4 + Len(a) : (q \o h)[i] = q[i]
          /\ \A i \in 1 .. 2 : (q \o h)[4 + Len(a) + i] = h[i]
      BY <2>1, <2>2, <2>3, Zenon
    <3>2. QED
      BY ONLY <3>1
<1>5. PICK u \in Seq(Nat) :
        /\ u = w \o b /\ Len(u) = 6 + Len(a) + Len(b)
        /\ \A i \in 1 .. 6 + Len(a) : u[i] = w[i]
        /\ \A i \in 1 .. Len(b) : u[6 + Len(a) + i] = b[i]
  <2>1. w \in Seq(Nat) /\ Len(w) = 6 + Len(a)
    BY <1>4
  <2>2. /\ w \o b \in Seq(Nat) /\ Len(w \o b) = Len(w) + Len(b)
        /\ \A i \in 1 .. Len(w) : (w \o b)[i] = w[i]
        /\ \A i \in 1 .. Len(b) : (w \o b)[Len(w) + i] = b[i]
    BY ONLY <2>1, b \in Seq(Nat), Joined
  <2>3. QED
    BY ONLY <2>1, <2>2
<1>6. LaidOut(u, n, a, b)
  <2>1. \A i \in 1 .. 4 : u[i] = p[i]
    BY ONLY <1>1, <1>3, <1>4, <1>5
  <2>2. \A i \in 1 .. Len(a) : u[4 + i] = a[i]
    <3> SUFFICES ASSUME NEW i \in 1 .. Len(a) PROVE u[4 + i] = a[i]
      OBVIOUS
    <3>1. 4 + i \in 1 .. 6 + Len(a) /\ 4 + i \in 1 .. 4 + Len(a)
      BY ONLY <1>1, i \in 1 .. Len(a)
    <3>2. QED
      BY ONLY <1>3, <1>4, <1>5, <3>1, i \in 1 .. Len(a)
  <2>3. u[5 + Len(a)] = INTEGER /\ u[6 + Len(a)] = Len(b)
    <3>1. w[4 + Len(a) + 1] = INTEGER /\ w[4 + Len(a) + 2] = Len(b)
      <4>1. 1 \in 1 .. 2 /\ 2 \in 1 .. 2
        OBVIOUS
      <4>2. w[4 + Len(a) + 1] = h[1] /\ w[4 + Len(a) + 2] = h[2]
        BY ONLY <1>4, <4>1, Zenon
      <4>3. QED
        BY ONLY <1>2, <4>2
    <3>2. /\ 4 + Len(a) + 1 = 5 + Len(a) /\ 4 + Len(a) + 2 = 6 + Len(a)
          /\ 5 + Len(a) \in 1 .. 6 + Len(a) /\ 6 + Len(a) \in 1 .. 6 + Len(a)
      BY ONLY <1>1
    <3>3. QED
      BY ONLY <1>5, <3>1, <3>2
  <2>4. u[1] = SEQUENCE /\ u[2] = n /\ u[3] = INTEGER /\ u[4] = Len(a)
    BY ONLY <1>2, <2>1
  <2>5. QED
    BY ONLY <1>5, <2>2, <2>3, <2>4 DEF LaidOut
<1>7. u = <<SEQUENCE, n, INTEGER, Len(a)>> \o a \o <<INTEGER, Len(b)>> \o b
  BY ONLY <1>2, <1>3, <1>4, <1>5
<1>8. QED
  BY ONLY <1>6, <1>7

\* An INTEGER that is read lies in the bytes, and differs from its scalar in zeros in
\* front at most.
LEMMA ReadPart ==
    ASSUME NEW bytes \in Seq(Nat), NEW at \in Nat \ {0}, IntegerAt(bytes, at).ok
    PROVE  \E k \in 1 .. Width + 1 :
             LET a == SubSeq(bytes, at + 2, at + 1 + k)
             IN  /\ bytes[at] = INTEGER /\ bytes[at + 1] = k
                 /\ IntegerAt(bytes, at).next = at + 2 + k
                 /\ a \in Seq(Nat) /\ Len(a) = k /\ \A i \in 1 .. k : a[i] = bytes[at + 1 + i]
                 /\ Stripped(IntegerAt(bytes, at).scalar) = Stripped(a)
<1>1. PICK k \in 1 .. Width + 1 :
        LET mag == Stripped(SubSeq(bytes, at + 2, at + 1 + k))
        IN  /\ bytes[at] = INTEGER /\ bytes[at + 1] = k
            /\ at + 1 + k <= Len(bytes)
            /\ Len(mag) <= Width
            /\ IntegerAt(bytes, at) = [ok |-> TRUE, scalar |-> Aligned(mag), next |-> at + 2 + k]
  BY IntegerRead
<1> DEFINE a == SubSeq(bytes, at + 2, at + 1 + k)
           mag == Stripped(a)
<1>2. Width \in Nat /\ k \in Nat \ {0}
  BY DerAssumption
<1>3. /\ a \in Seq(Nat) /\ Len(a) = k /\ a # <<>>
      /\ \A i \in 1 .. k : a[i] = bytes[at + 1 + i]
  BY <1>1, <1>2, Cut
<1>4. /\ mag \in Seq(Nat) /\ Len(mag) \in 1 .. Width
      /\ mag[1] # 0 \/ Len(mag) = 1
  <2>1. /\ mag \in Seq(Nat) /\ Len(mag) \in 1 .. Len(a)
        /\ mag[1] # 0 \/ Len(mag) = 1
    <3> HIDE DEF a
    <3> QED
      BY <1>3, StrippedShape
  <2>2. QED
    BY <1>1, <1>2, <2>1
<1>5. Stripped(Aligned(mag)) = mag
  <2> HIDE DEF mag
  <2> QED
    BY <1>4, AlignedShape
<1>6. IntegerAt(bytes, at).scalar = Aligned(mag) /\ IntegerAt(bytes, at).next = at + 2 + k
  BY <1>1
<1>7. QED
  BY <1>1, <1>3, <1>5, <1>6

\* What derToRaw accepts is one SEQUENCE of two INTEGERs and nothing else.
LEMMA AllBytesRead ==
    ASSUME NEW bytes \in Seq(Nat), DerToRaw(bytes) # NotDer
    PROVE  \E k, l \in 1 .. Width + 1 :
             /\ 6 + k + l = Len(bytes)
             /\ LET a == SubSeq(bytes, 5, 4 + k)
                    b == SubSeq(bytes, 7 + k, 6 + k + l)
                IN  /\ bytes = <<SEQUENCE, 4 + k + l, INTEGER, k>> \o a \o <<INTEGER, l>> \o b
                    /\ \A p \in {<<a, DerToRaw(bytes)[1]>>, <<b, DerToRaw(bytes)[2]>>} :
                         Stripped(p[1]) = Stripped(p[2])
<1> DEFINE first == IntegerAt(bytes, 3)
           second == IF first.ok THEN IntegerAt(bytes, first.next) ELSE NotRead
<1>1. ~(\/ Len(bytes) < 8 \/ Len(bytes) > 2 * Width + 8
        \/ bytes[1] # SEQUENCE
        \/ bytes[2] >= HighBit \/ bytes[2] + 2 # Len(bytes))
  BY DEF DerToRaw
<1>2. /\ second.ok /\ second.next = Len(bytes) + 1
      /\ DerToRaw(bytes) = <<first.scalar, second.scalar>>
  BY <1>1 DEF DerToRaw
<1>3. first.ok
  BY <1>2 DEF NotRead
<1>4. PICK k \in 1 .. Width + 1 :
        LET a == SubSeq(bytes, 3 + 2, 3 + 1 + k)
        IN  /\ bytes[3] = INTEGER /\ bytes[3 + 1] = k
            /\ IntegerAt(bytes, 3).next = 3 + 2 + k
            /\ a \in Seq(Nat) /\ Len(a) = k /\ \A i \in 1 .. k : a[i] = bytes[3 + 1 + i]
            /\ Stripped(IntegerAt(bytes, 3).scalar) = Stripped(a)
  BY <1>3, 3 \in Nat \ {0}, ReadPart
<1>5. Width \in Nat /\ Len(bytes) \in Nat /\ k \in Nat \ {0}
  BY DerAssumption, LenProperties
<1>6. second = IntegerAt(bytes, 5 + k) /\ 5 + k \in Nat \ {0}
  BY <1>3, <1>4, <1>5
<1>7. PICK l \in 1 .. Width + 1 :
        LET b == SubSeq(bytes, 5 + k + 2, 5 + k + 1 + l)
        IN  /\ bytes[5 + k] = INTEGER /\ bytes[5 + k + 1] = l
            /\ IntegerAt(bytes, 5 + k).next = 5 + k + 2 + l
            /\ b \in Seq(Nat) /\ Len(b) = l /\ \A i \in 1 .. l : b[i] = bytes[5 + k + 1 + i]
            /\ Stripped(IntegerAt(bytes, 5 + k).scalar) = Stripped(b)
  <2> HIDE DEF second, first
  <2> QED
    BY <1>2, <1>6, ReadPart
<1>8. l \in Nat \ {0} /\ 6 + k + l = Len(bytes)
  BY <1>2, <1>5, <1>6, <1>7
<1> DEFINE a == SubSeq(bytes, 5, 4 + k)
           b == SubSeq(bytes, 7 + k, 6 + k + l)
<1>9. /\ a \in Seq(Nat) /\ Len(a) = k /\ \A i \in 1 .. k : bytes[4 + i] = a[i]
      /\ Stripped(a) = Stripped(first.scalar)
      /\ bytes[3] = INTEGER /\ bytes[4] = k
  <2>1. 3 + 2 = 5 /\ 3 + 1 = 4
    OBVIOUS
  <2>2. QED
    BY <1>4, <2>1
<1>10. /\ b \in Seq(Nat) /\ Len(b) = l /\ \A i \in 1 .. l : bytes[6 + k + i] = b[i]
       /\ Stripped(b) = Stripped(second.scalar)
       /\ bytes[5 + k] = INTEGER /\ bytes[6 + k] = l
  <2>1. 5 + k + 2 = 7 + k /\ 5 + k + 1 = 6 + k /\ 5 + k + 1 + l = 6 + k + l
    BY <1>5, <1>8
  <2> HIDE DEF second
  <2>2. QED
    BY <1>6, <1>7, <2>1
<1>11. bytes[1] = SEQUENCE /\ bytes[2] = 4 + k + l
  <2>1. bytes[2] \in Nat
    BY <1>5, <1>8, ElementOfSeq
  <2>2. QED
    BY <1>1, <1>5, <1>8, <2>1
<1> HIDE DEF a, b, first, second
<1>12. bytes = <<SEQUENCE, 4 + k + l, INTEGER, k>> \o a \o <<INTEGER, l>> \o b
  <2>1. PICK n \in Nat : n = 4 + k + l
    BY <1>5, <1>8
  <2>2. LaidOut(bytes, n, a, b)
    BY <1>8, <1>9, <1>10, <1>11, <2>1 DEF LaidOut
  <2>3. LaidOut(<<SEQUENCE, n, INTEGER, Len(a)>> \o a \o <<INTEGER, Len(b)>> \o b, n, a, b)
    BY <1>9, <1>10, OneRun
  <2>4. bytes = <<SEQUENCE, n, INTEGER, Len(a)>> \o a \o <<INTEGER, Len(b)>> \o b
    BY <1>9, <1>10, <2>2, <2>3, LaidOutOnce
  <2>5. QED
    BY <1>9, <1>10, <2>1, <2>4
<1>13. \A p \in {<<a, DerToRaw(bytes)[1]>>, <<b, DerToRaw(bytes)[2]>>} :
         Stripped(p[1]) = Stripped(p[2])
  <2>1. DerToRaw(bytes)[1] = first.scalar /\ DerToRaw(bytes)[2] = second.scalar
    BY <1>2
  <2>2. QED
    <3>1. Stripped(a) = Stripped(DerToRaw(bytes)[1])
      BY <1>9, <2>1
    <3>2. Stripped(b) = Stripped(DerToRaw(bytes)[2])
      BY <1>10, <2>1
    <3>3. QED
      BY ONLY <3>1, <3>2
<1>14. QED
  BY <1>8, <1>12, <1>13 DEF a, b

-----------------------------------------------------------------------------
(* The DER strings the model reaches.                                      *)

DerInv ==
    /\ raw \in {<<r, s>> : r \in Scalar, s \in Scalar}
    /\ der \in Seq(Nat)
    /\ edits \in Nat
    /\ edits = 0 => der = RawToDer(raw[1], raw[2])

LEMMA BytesFound ==
    /\ EditBytes \subseteq Nat
    /\ \A r, s \in Scalar : RawToDer(r, s) \in Seq(Nat)
<1>1. EditBytes \subseteq Nat
  <2>1. ScalarBytes \subseteq Nat /\ SEQUENCE \in Nat /\ INTEGER \in Nat
    BY DerAssumption
  <2>2. 0 .. Width + 2 \subseteq Nat
    BY DerAssumption
  <2>3. QED
    BY <2>1, <2>2 DEF EditBytes
<1>2. ASSUME NEW r \in Scalar, NEW s \in Scalar PROVE RawToDer(r, s) \in Seq(Nat)
  <2>1. CASE IsZero(r) \/ IsZero(s)
    BY <2>1, EmptySeq DEF RawToDer, NotDer
  <2>2. CASE ~IsZero(r) /\ ~IsZero(s)
    BY <2>2, ReadsBack
  <2>3. QED
    BY <2>1, <2>2
<1>3. QED
  BY <1>1, <1>2

LEMMA EditedBytes ==
    ASSUME NEW bytes \in Seq(Nat), NEW b \in Nat
    PROVE  /\ \A i \in DOMAIN bytes : /\ [bytes EXCEPT ![i] = b] \in Seq(Nat)
                                      /\ RemoveAt(bytes, i) \in Seq(Nat)
           /\ \A i \in 1 .. Len(bytes) + 1 : InsertAt(bytes, i, b) \in Seq(Nat)
<1>1. Len(bytes) \in Nat /\ DOMAIN bytes = 1 .. Len(bytes)
  BY LenProperties
<1>2. ASSUME NEW m \in Int, NEW n \in Int, 1 <= m, n <= Len(bytes)
      PROVE  SubSeq(bytes, m, n) \in Seq(Nat)
  <2>1. \A i \in m .. n : bytes[i] \in Nat
    BY <1>1, <1>2, ElementOfSeq
  <2>2. QED
    BY <2>1, SubSeqProperties
<1>3. ASSUME NEW i \in 1 .. Len(bytes)
      PROVE  [bytes EXCEPT ![i] = b] \in Seq(Nat) /\ RemoveAt(bytes, i) \in Seq(Nat)
  <2>1. SubSeq(bytes, 1, i - 1) \in Seq(Nat) /\ SubSeq(bytes, i + 1, Len(bytes)) \in Seq(Nat)
    BY <1>1, <1>2
  <2>2. QED
    BY <2>1, ExceptSeq, Joined DEF RemoveAt
<1>4. ASSUME NEW i \in 1 .. Len(bytes) + 1 PROVE InsertAt(bytes, i, b) \in Seq(Nat)
  <2>1. SubSeq(bytes, 1, i - 1) \in Seq(Nat) /\ SubSeq(bytes, i, Len(bytes)) \in Seq(Nat)
    BY <1>1, <1>2
  <2>2. <<b>> \in Seq(Nat)
    OBVIOUS
  <2>3. SubSeq(bytes, 1, i - 1) \o <<b>> \in Seq(Nat)
    BY <2>1, <2>2, Joined
  <2>4. QED
    BY <2>1, <2>3, Joined DEF InsertAt
<1>5. QED
  BY <1>1, <1>3, <1>4

LEMMA DerStarts == DerInit => DerInv
<1> SUFFICES ASSUME DerInit PROVE DerInv
  OBVIOUS
<1>1. PICK r \in Scalar, s \in Scalar : raw = <<r, s>>
  BY DEF DerInit
<1>2. raw[1] \in Scalar /\ raw[2] \in Scalar
  BY <1>1
<1>3. QED
  BY <1>2, BytesFound DEF DerInit, DerInv

LEMMA DerStep ==
    ASSUME DerInv, [DerNext]_derVars
    PROVE  DerInv'
<1>1. CASE UNCHANGED derVars
  BY <1>1 DEF DerInv, derVars
<1>2. CASE Edit
  <2>1. raw' = raw /\ edits' = edits + 1 /\ edits' \in Nat /\ edits' # 0
    BY <1>2 DEF Edit, DerInv
  <2>2. der' \in Seq(Nat)
    <3>1. der \in Seq(Nat) /\ EditBytes \subseteq Nat
      BY BytesFound DEF DerInv
    <3>2. CASE \E i \in DOMAIN der, b \in EditBytes : der' = [der EXCEPT ![i] = b]
      BY <3>1, <3>2, EditedBytes
    <3>3. CASE \E i \in DOMAIN der : der' = RemoveAt(der, i)
      BY <3>1, <3>3, 0 \in Nat, EditedBytes
    <3>4. CASE \E i \in 1 .. Len(der) + 1, b \in EditBytes : der' = InsertAt(der, i, b)
      BY <3>1, <3>4, EditedBytes
    <3>5. QED
      BY <1>2, <3>2, <3>3, <3>4 DEF Edit
  <2>3. QED
    BY <2>1, <2>2 DEF DerInv
<1>3. QED
  BY <1>1, <1>2 DEF DerNext

LEMMA DerExactHolds == DerInv => DerExact
<1> SUFFICES ASSUME DerInv PROVE DerExact
  OBVIOUS
<1>1. PICK r \in Scalar, s \in Scalar : raw = <<r, s>>
  BY DEF DerInv
<1>2. raw[1] = r /\ raw[2] = s /\ der \in Seq(Nat)
  BY <1>1 DEF DerInv
<1>3. edits = 0 => der = RawToDer(r, s)
  BY <1>2 DEF DerInv
<1>4. RoundTrip
  BY <1>1, <1>2, <1>3, ReadsBack DEF RoundTrip, RawToDer
<1>5. EveryByteAccounted
  BY <1>2, AllBytesRead DEF EveryByteAccounted
<1>6. EncodesPositive
  <2> SUFFICES ASSUME edits = 0, der # NotDer
               PROVE  der[5] < HighBit /\ der[7 + der[4]] < HighBit
    BY DEF EncodesPositive
  <2>1. ~IsZero(r) /\ ~IsZero(s)
    BY <1>3 DEF RawToDer
  <2>2. QED
    BY <1>3, <2>1, ReadsBack
<1>7. QED
  BY <1>4, <1>5, <1>6 DEF DerExact

\* For every width, every pair of scalars and every DER string: the two translations are
\* inverse, what is encoded reads as positive, and what derToRaw accepts is one SEQUENCE of
\* two INTEGERs that say the two scalars and nothing else (jws.ts, rawToDer and derToRaw).
THEOREM SignaturesAreExact == DerSpec => []DerExact
<1>1. DerInv /\ [DerNext]_derVars => DerInv'
  BY DerStep
<1>2. QED
  BY <1>1, DerStarts, DerExactHolds, PTL DEF DerSpec
=============================================================================

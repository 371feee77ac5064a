------------------------ MODULE PortalAccountsProofs ------------------------
(***************************************************************************)
(* Proofs about the portal's accounts and sign-in sessions: what the two   *)
(* files and the memory of the server say of each other, over any number   *)
(* of accounts and tokens, failed writes, crashes and restarts.  What a    *)
(* password reset promises is proved for an operator who stops the server  *)
(* first, as reset-password.ts asks ("stop it, run this, start it").  And  *)
(* what the rate limiter in front of them promises, for every limit.       *)
(***************************************************************************)
EXTENDS PortalAccounts, RateLimiter, FiniteSetTheorems, TLAPS

\* "Locally: stop it, run this, start it."
ServerStopped == ~ResetWhileUp

\* A session anywhere is the one its token was handed out for.
SessionsGenuine ==
    \A t \in Token : /\ sessions[t] # None => sessions[t] = issued[t]
                     /\ sessionsFile[t] # None => sessionsFile[t] = issued[t]
                     /\ reset.live[t] # None => reset.live[t] = issued[t]

Expired(s) == s = None \/ s.expiresAt <= now

\* The file keeps no session that memory dropped, other than expired ones and the one
\* whose removal could not be written.
DroppedStaysDropped ==
    up => \A t \in Token \ unsaved : sessions[t] = None => Expired(sessionsFile[t])

SignedOutIsGone ==
    \A t \in signedOut : /\ issued[t] # None
                         /\ t \notin unsaved => sessions[t] = None /\ Expired(sessionsFile[t])

CondemnedAreGone ==
    \A t \in condemned : /\ reset.at = "done" /\ issued[t] # None
                         /\ sessions[t] = None /\ sessionsFile[t] = None

SessionInv ==
    /\ SessionsGenuine
    /\ ServerStopped => DroppedStaysDropped /\ SignedOutIsGone /\ CondemnedAreGone

\* One account of s for an address.
OneEmail(s) ==
    \A a, b \in AccountId :
        s[a] # None /\ s[b] # None /\ s[a].email = s[b].email => a = b

EmailsOnce == OneEmail(accounts) /\ OneEmail(accountsFile) /\ OneEmail(reset.rows)

\* s has the account of the reset, with the new password.
NewPassword(s) ==
    /\ reset.account \in AccountId
    /\ s[reset.account] # None
    /\ s[reset.account].passwordHash = reset.password

RowFound ==
    reset.at = "read" => /\ reset.account \in AccountId /\ reset.password \in Password
                         /\ reset.rows[reset.account] # None

PasswordWritten ==
    /\ reset.at \in {"written", "readSessions", "done"} => NewPassword(accountsFile)
    /\ reset.at = "done" /\ up => NewPassword(accounts)

AccountInv ==
    /\ EmailsOnce
    /\ RowFound
    /\ ServerStopped => AnsweredIsDurable /\ PasswordWritten

\* What the script read is what the files hold: nobody else writes them meanwhile.
ScriptAlone ==
    /\ reset.at \in {"read", "written", "readSessions"} => ~up
    /\ reset.at = "read" => reset.rows = accountsFile
    /\ reset.at = "readSessions" =>
         \A t \in Token : /\ reset.live[t] \in {None, sessionsFile[t]}
                          /\ reset.live[t] # None => reset.live[t].accountId # reset.account
    /\ reset.booted => reset.at = "done"

ServerInv ==
    /\ ~up => accounts = NoAccounts /\ sessions = NoSessions
    /\ ServerStopped => ScriptAlone

\* The inductive invariant behind the theorems.
PortalInv == TypeOK /\ SessionInv /\ AccountInv /\ ServerInv

-----------------------------------------------------------------------------
(* The session store.                                                      *)

\* A session that was handed out is one.
LEMMA NewSessionTyped ==
    ASSUME now \in 0 .. MaxTime, NEW a \in AccountId
    PROVE  /\ NewSession(a) \in PersistedSession
           /\ NewSession(a) # None
<1>1. now + SessionTtl \in 0 .. MaxTime + SessionTtl
  BY PortalAccountsAssumption
<1>2. NewSession(a) \in PersistedSession
  BY <1>1 DEF NewSession, PersistedSession
<1>3. QED
  BY <1>2, PortalAccountsAssumption

\* The sweep of create() and of #load drops expired sessions and nothing else.
LEMMA Swept ==
    ASSUME NEW s \in Sessions
    PROVE  /\ Unexpired(s) \in Sessions
           /\ \A t \in Token : \/ Unexpired(s)[t] = s[t]
                               \/ Unexpired(s)[t] = None
           /\ now \in 0 .. MaxTime =>
                \A t \in Token : Unexpired(s)[t] = None => Expired(s[t])
<1>1. Unexpired(s) \in Sessions
  BY DEF Unexpired, Sessions
<1>2. ASSUME now \in 0 .. MaxTime, NEW t \in Token, Unexpired(s)[t] = None
      PROVE  Expired(s[t])
  <2>1. CASE s[t] = None
    BY <2>1 DEF Expired
  <2>2. CASE s[t] # None
    <3>1. s[t] \in PersistedSession
      BY <2>2 DEF Sessions
    <3>2. s[t].expiresAt \in Nat
      BY <3>1, PortalAccountsAssumption DEF PersistedSession
    <3>3. ~(s[t].expiresAt > now)
      BY <1>2, <2>2 DEF Unexpired
    <3>4. QED
      BY <1>2, <3>2, <3>3 DEF Expired
  <2>3. QED
    BY <2>1, <2>2
<1>3. QED
  BY <1>1, <1>2 DEF Unexpired

\* PortalSessionStore.create, whether its writes succeed or throw.
LEMMA SessionCreated ==
    ASSUME TypeOK, SessionInv, up, NEW t \in Token, NEW a \in AccountId,
           CreateSession(t, a) \/ CreateSessionFails(t, a),
           UNCHANGED <<up, reset, now, signedOut, unsaved, condemned>>
    PROVE  /\ sessions' \in Sessions /\ sessionsFile' \in Sessions /\ issued' \in Sessions
           /\ SessionInv'
<1> DEFINE new == NewSession(a)
           swept == Unexpired(sessions)
           made == [swept EXCEPT ![t] = new]
<1>1. /\ sessions \in Sessions /\ sessionsFile \in Sessions /\ issued \in Sessions
      /\ now \in 0 .. MaxTime /\ reset \in ResetState
      /\ signedOut \subseteq Token /\ condemned \subseteq Token
  BY DEF TypeOK
<1>2. new \in PersistedSession /\ new # None
  BY <1>1, NewSessionTyped
<1>3. /\ swept \in Sessions
      /\ \A u \in Token : swept[u] = sessions[u] \/ swept[u] = None
      /\ \A u \in Token : swept[u] = None => Expired(sessions[u])
  BY <1>1, Swept
<1>4. made \in Sessions /\ made[t] = new /\ \A u \in Token : u # t => made[u] = swept[u]
  BY <1>2, <1>3 DEF Sessions
<1>5. /\ issued[t] = None
      /\ issued' = [issued EXCEPT ![t] = new]
  BY DEF CreateSession, CreateSessionFails
<1>6. /\ issued' \in Sessions /\ issued'[t] = new
      /\ \A u \in Token : u # t => issued'[u] = issued[u]
  BY <1>1, <1>2, <1>5 DEF Sessions
<1>7. /\ sessions' \in {swept, made}
      /\ sessionsFile' \in {sessionsFile, swept, made}
      /\ sessionsFile' = made => sessions' = made
  <2>1. CASE CreateSession(t, a)
    BY <2>1 DEF CreateSession
  <2>2. CASE CreateSessionFails(t, a)
    <3>1. \/ sessions' = swept /\ sessionsFile' = sessionsFile
          \/ sessions' = made /\ sessionsFile' \in {sessionsFile, swept}
      BY <2>2 DEF CreateSessionFails
    <3>2. sessions[t] = None /\ sessionsFile[t] = None
      BY <1>5 DEF SessionInv, SessionsGenuine
    <3>3. swept[t] = None /\ made[t] = new
      BY <1>3, <1>4, <3>2
    <3>4. swept # made /\ sessionsFile # made
      BY <1>2, <3>2, <3>3
    <3>5. QED
      BY <3>1, <3>4
  <2>3. QED
    BY <2>1, <2>2
<1>8. /\ sessions[t] = None /\ sessionsFile[t] = None /\ reset.live[t] = None
  BY <1>5 DEF SessionInv, SessionsGenuine
<1> HIDE DEF new, swept, made
<1>9. SessionsGenuine'
  BY <1>3, <1>4, <1>6, <1>7, <1>8 DEF SessionInv, SessionsGenuine
<1>10. ASSUME ServerStopped
       PROVE  DroppedStaysDropped' /\ SignedOutIsGone' /\ CondemnedAreGone'
  <2>1. DroppedStaysDropped /\ SignedOutIsGone /\ CondemnedAreGone
    BY <1>10 DEF SessionInv
  <2>2. \A u \in Token : u # t =>
           sessions'[u] \in {None, sessions[u]} /\ sessionsFile'[u] \in {None, sessions[u], sessionsFile[u]}
    BY <1>3, <1>4, <1>7
  <2>3. t \notin signedOut /\ t \notin condemned
    BY <1>5, <2>1 DEF SignedOutIsGone, CondemnedAreGone
  <2>4. \A u \in Token : Expired(sessions[u]) /\ sessions[u] # None /\ sessionsFile[u] # None
                            => Expired(sessionsFile[u])
    BY DEF SessionInv, SessionsGenuine
  <2>5. ASSUME NEW u \in Token \ unsaved, sessions'[u] = None
        PROVE  Expired(sessionsFile'[u])
    <3>1. CASE u = t
      BY <1>3, <1>4, <1>7, <1>8, <2>5, <3>1, <1>2 DEF Expired
    <3>2. CASE u # t
      <4>1. Expired(sessions[u])
        BY <1>3, <1>4, <1>7, <2>5, <3>2
      <4>2. Expired(sessionsFile[u])
        BY <2>1, <2>4, <4>1 DEF DroppedStaysDropped, Expired
      <4>3. QED
        BY <2>2, <3>2, <4>1, <4>2 DEF Expired
    <3>3. QED
      BY <3>1, <3>2
  <2>6. DroppedStaysDropped'
    BY <2>5 DEF DroppedStaysDropped, Expired
  <2>7. SignedOutIsGone'
    BY <1>1, <1>6, <2>1, <2>2, <2>3 DEF SignedOutIsGone, Expired
  <2>8. CondemnedAreGone'
    BY <1>1, <1>6, <2>1, <2>2, <2>3 DEF CondemnedAreGone
  <2>9. QED
    BY <2>6, <2>7, <2>8
<1>11. SessionInv'
  BY <1>9, <1>10 DEF SessionInv, ServerStopped
<1>12. QED
  BY <1>1, <1>3, <1>4, <1>6, <1>7, <1>11

\* Sessions that only end: what memory and the file drop, and in which order a failed
\* write lets them do so.
LEMMA SessionsEnd ==
    ASSUME TypeOK, SessionInv, up, UNCHANGED <<up, reset, now, issued, condemned>>,
           \A t \in Token : sessions'[t] \in {None, sessions[t]},
           \A t \in Token : sessionsFile'[t] \in {None, sessions[t], sessionsFile[t]},
           \A t \in Token : /\ sessions'[t] = None /\ ~Expired(sessions[t]) /\ t \notin unsaved'
                            => sessionsFile'[t] = None,
           \A t \in Token : sessions[t] = None => sessionsFile'[t] \in {None, sessionsFile[t]},
           \A t \in signedOut' \ signedOut : issued[t] # None /\ sessions'[t] = None,
           unsaved \subseteq unsaved', signedOut' \subseteq Token
    PROVE  SessionInv'
<1> USE DEF SessionInv
<1>1. SessionsGenuine'
  BY DEF SessionsGenuine
<1>2. ASSUME ServerStopped
      PROVE  DroppedStaysDropped' /\ SignedOutIsGone' /\ CondemnedAreGone'
  <2>1. DroppedStaysDropped /\ SignedOutIsGone /\ CondemnedAreGone
    BY <1>2
  <2>2. ASSUME NEW t \in Token, t \notin unsaved', sessions'[t] = None
        PROVE  Expired(sessionsFile'[t])
    <3>1. CASE ~Expired(sessions[t])
      BY <2>2, <3>1 DEF Expired
    <3>2. CASE Expired(sessions[t])
      <4>1. sessionsFile[t] # None /\ sessions[t] # None => sessionsFile[t] = sessions[t]
        BY DEF SessionsGenuine
      <4>2. sessions[t] = None => Expired(sessionsFile[t])
        BY <2>1, <2>2 DEF DroppedStaysDropped
      <4>3. Expired(sessionsFile[t])
        BY <3>2, <4>1, <4>2 DEF Expired
      <4>4. QED
        BY <3>2, <4>3 DEF Expired
    <3>3. QED
      BY <3>1, <3>2
  <2>3. DroppedStaysDropped'
    BY <2>2 DEF DroppedStaysDropped, Expired
  <2>4. SignedOutIsGone'
    <3> SUFFICES ASSUME NEW t \in signedOut'
                 PROVE  /\ issued[t] # None
                        /\ t \notin unsaved' => sessions'[t] = None /\ Expired(sessionsFile'[t])
      BY DEF SignedOutIsGone, Expired
    <3>1. issued[t] # None /\ (t \notin unsaved' => sessions'[t] = None)
      BY <2>1 DEF SignedOutIsGone
    <3>2. QED
      BY <2>2, <3>1
  <2>5. CondemnedAreGone'
    <3>1. condemned \subseteq Token
      BY DEF TypeOK
    <3>2. QED
      BY <2>1, <3>1 DEF CondemnedAreGone
  <2>6. QED
    BY <2>3, <2>4, <2>5
<1>3. QED
  BY <1>1, <1>2 DEF ServerStopped

\* What no step of the session store touches keeps its facts.
LEMMA SessionsStay ==
    ASSUME SessionInv,
           UNCHANGED <<up, sessions, sessionsFile, now, issued, signedOut, unsaved, condemned>>,
           reset'.live \in {reset.live, NoSessions}, reset'.at = reset.at \/ reset.at # "done",
           condemned \subseteq Token
    PROVE  SessionInv'
<1>1. SessionsGenuine'
  BY DEF SessionInv, SessionsGenuine, NoSessions
<1>2. ServerStopped => DroppedStaysDropped' /\ SignedOutIsGone'
  BY DEF SessionInv, DroppedStaysDropped, SignedOutIsGone, Expired
<1>3. ServerStopped => CondemnedAreGone'
  BY DEF SessionInv, CondemnedAreGone
<1>4. QED
  BY <1>1, <1>2, <1>3 DEF SessionInv, ServerStopped

-----------------------------------------------------------------------------
(* The account store.                                                      *)

\* register adds an account under an address and an id nobody has.
LEMMA AccountAdded ==
    ASSUME TypeOK, AccountInv, ServerInv, up, UNCHANGED <<up, reset>>,
           NEW a \in AccountId, NEW e \in Email, NEW p \in Password,
           ~Known(a), FindByEmail(e) = {},
           accounts' = [accounts EXCEPT ![a] = [email |-> e, passwordHash |-> p,
                                                kyc |-> "none"]],
           accountsFile' \in {accountsFile, accounts'},
           \/ answered' = answered
           \/ answered' = answered \cup {a} /\ accountsFile' = accounts'
    PROVE  accounts' \in Accounts /\ accountsFile' \in Accounts /\ AccountInv'
<1> DEFINE row == [email |-> e, passwordHash |-> p, kyc |-> "none"]
<1>1. accounts \in Accounts /\ accountsFile \in Accounts /\ answered \subseteq AccountId
  BY DEF TypeOK
<1>2. row \in AccountRecord /\ row # None /\ row.email = e
  BY PortalAccountsAssumption DEF AccountRecord
<1>3. accounts[a] = None /\ accountsFile[a] = None
  BY DEF Known
<1>4. /\ accounts'[a] = row
      /\ \A b \in AccountId : b # a => accounts'[b] = accounts[b]
      /\ accounts' \in Accounts
  BY <1>1, <1>2 DEF Accounts
<1>5. accountsFile' \in Accounts
  BY <1>1, <1>4
<1>6. \A b \in AccountId : accounts[b] # None => accounts[b].email # e
  BY DEF FindByEmail
<1> HIDE DEF row
<1>7. OneEmail(accounts')
  BY <1>2, <1>4, <1>6 DEF AccountInv, EmailsOnce, OneEmail
<1>8. EmailsOnce'
  <2>1. OneEmail(accountsFile')
    <3>1. CASE accountsFile' = accounts'
      BY <1>7, <3>1
    <3>2. CASE accountsFile' = accountsFile
      BY <3>2 DEF AccountInv, EmailsOnce
    <3>3. QED
      BY <3>1, <3>2
  <2>2. OneEmail(reset'.rows)
    BY DEF AccountInv, EmailsOnce
  <2>3. QED
    BY <1>7, <2>1, <2>2 DEF EmailsOnce, OneEmail
<1>9. RowFound'
  BY DEF AccountInv, RowFound
<1>10. ASSUME ServerStopped
       PROVE  AnsweredIsDurable' /\ PasswordWritten'
  <2>1. AnsweredIsDurable /\ PasswordWritten /\ ScriptAlone
    BY <1>10 DEF AccountInv, ServerInv
  <2>2. AnsweredIsDurable'
    <3> SUFFICES ASSUME NEW b \in answered'
                 PROVE  accountsFile'[b] # None /\ accounts'[b] # None
      BY DEF AnsweredIsDurable
    <3>1. CASE b \in answered
      <4>1. b \in AccountId /\ accountsFile[b] # None /\ accounts[b] # None
        BY <1>1, <2>1, <3>1 DEF AnsweredIsDurable
      <4>2. QED
        BY <1>3, <1>4, <4>1
    <3>2. CASE b = a /\ accountsFile' = accounts'
      BY <1>2, <1>4, <3>2
    <3>3. QED
      BY <3>1, <3>2
  <2>3. reset.at \notin {"written", "readSessions"}
    BY <2>1 DEF ScriptAlone
  <2>4. reset.at = "done" => NewPassword(accounts')
    BY <1>3, <1>4, <2>1 DEF PasswordWritten, NewPassword
  <2>5. PasswordWritten'
    BY <2>1, <2>3, <2>4 DEF PasswordWritten, NewPassword
  <2>6. QED
    BY <2>2, <2>5
<1>11. AccountInv'
  BY <1>8, <1>9, <1>10 DEF AccountInv, ServerStopped
<1>12. QED
  BY <1>4, <1>5, <1>11

\* What no step of the account store touches keeps its facts.
LEMMA AccountsStay ==
    ASSUME AccountInv, UNCHANGED <<accounts, accountsFile, reset, answered>>,
           up' = up
    PROVE  AccountInv'
BY DEF AccountInv, EmailsOnce, OneEmail, RowFound, AnsweredIsDurable, PasswordWritten,
       NewPassword, ServerStopped

\* The running server keeps what is said of the script.
LEMMA ServerStays ==
    ASSUME ServerInv, up, UNCHANGED <<up, reset>>
    PROVE  ServerInv'
BY DEF ServerInv, ScriptAlone, ServerStopped

-----------------------------------------------------------------------------
(* The routes.                                                             *)

\* POST register, answered or failed half way.
LEMMA RegisterKeeps ==
    ASSUME PortalInv, NEW a \in AccountId, NEW e \in Email, NEW p \in Password,
           NEW t \in Token, Register(a, e, p, t) \/ RegisterFails(a, e, p, t)
    PROVE  PortalInv'
<1>1. TypeOK /\ SessionInv /\ AccountInv /\ ServerInv
  BY DEF PortalInv
<1>2. /\ up /\ ~Known(a) /\ FindByEmail(e) = {}
      /\ accounts' = [accounts EXCEPT ![a] = [email |-> e, passwordHash |-> p, kyc |-> "none"]]
      /\ UNCHANGED <<up, reset, now, signedOut, unsaved, condemned>>
      /\ accountsFile' \in {accountsFile, accounts'}
      /\ \/ answered' = answered
         \/ answered' = answered \cup {a} /\ accountsFile' = accounts'
  <2>1. CASE Register(a, e, p, t)
    BY <2>1 DEF Register, PersistAccounts
  <2>2. CASE RegisterFails(a, e, p, t)
    <3>1. accountsFile' = accountsFile \/ accountsFile' = accounts'
      BY <2>2 DEF RegisterFails, PersistAccounts, PersistAccountsFails
    <3>2. up /\ ~Known(a) /\ FindByEmail(e) = {}
      BY <2>2 DEF RegisterFails
    <3>3. /\ accounts' = [accounts EXCEPT ![a] = [email |-> e, passwordHash |-> p,
                                                  kyc |-> "none"]]
          /\ UNCHANGED <<up, reset, now, answered, signedOut, unsaved, condemned>>
      BY <2>2 DEF RegisterFails
    <3>4. QED
      BY <3>1, <3>2, <3>3
  <2>3. QED
    BY <2>1, <2>2
<1>3. accounts' \in Accounts /\ accountsFile' \in Accounts /\ AccountInv'
  BY <1>1, <1>2, AccountAdded
<1>4. /\ sessions' \in Sessions /\ sessionsFile' \in Sessions /\ issued' \in Sessions
      /\ SessionInv'
  <2>1. CASE CreateSession(t, a) \/ CreateSessionFails(t, a)
    BY <1>1, <1>2, <2>1, SessionCreated
  <2>2. CASE UNCHANGED <<sessions, sessionsFile, issued>>
    BY <1>1, <1>2, <2>2, SessionsStay DEF TypeOK
  <2>3. QED
    BY <2>1, <2>2 DEF Register, RegisterFails
<1>5. ServerInv'
  BY <1>1, <1>2, ServerStays
<1>6. TypeOK'
  BY <1>1, <1>2, <1>3, <1>4 DEF TypeOK
<1>7. QED
  BY <1>3, <1>4, <1>5, <1>6 DEF PortalInv

\* POST login with the right password.
LEMMA LoginKeeps ==
    ASSUME PortalInv, NEW a \in AccountId, NEW p \in Password, NEW t \in Token,
           Login(a, p, t)
    PROVE  PortalInv'
<1>1. TypeOK /\ SessionInv /\ AccountInv /\ ServerInv
  BY DEF PortalInv
<1>2. /\ up
      /\ UNCHANGED <<up, accounts, accountsFile, reset, now, answered, signedOut, unsaved,
                     condemned>>
      /\ CreateSession(t, a) \/ CreateSessionFails(t, a)
  BY DEF Login
<1>3. /\ sessions' \in Sessions /\ sessionsFile' \in Sessions /\ issued' \in Sessions
      /\ SessionInv'
  BY <1>1, <1>2, SessionCreated
<1>4. AccountInv' /\ ServerInv'
  BY <1>1, <1>2, AccountsStay, ServerStays
<1>5. TypeOK'
  BY <1>1, <1>2, <1>3 DEF TypeOK
<1>6. QED
  BY <1>3, <1>4, <1>5 DEF PortalInv

\* A route under which sessions only end, by the conditions of SessionsEnd.
LEMMA EndingKeeps ==
    ASSUME PortalInv, up,
           UNCHANGED <<up, accounts, accountsFile, reset, now, issued, answered, condemned>>,
           sessions' \in Sessions, sessionsFile' \in Sessions,
           signedOut' \subseteq Token, unsaved' \subseteq Token,
           SessionInv'
    PROVE  PortalInv'
<1>1. AccountInv' /\ ServerInv'
  BY AccountsStay, ServerStays DEF PortalInv
<1>2. TypeOK'
  BY DEF PortalInv, TypeOK
<1>3. QED
  BY <1>1, <1>2 DEF PortalInv

\* POST logout, answered.
LEMMA LogoutKeeps ==
    ASSUME PortalInv, NEW C \in SUBSET {t \in Token : issued[t] # None}, Logout(C)
    PROVE  PortalInv'
<1>1. TypeOK /\ SessionInv /\ sessions \in Sessions /\ sessionsFile \in Sessions
  BY DEF PortalInv, TypeOK
<1>2. /\ up
      /\ sessions' = [t \in Token |-> IF t \in C THEN None ELSE sessions[t]]
      /\ sessionsFile' \in {sessionsFile, sessions'}
      /\ sessions' # sessions => sessionsFile' = sessions'
      /\ signedOut' = signedOut \cup C /\ unsaved' = unsaved
      /\ UNCHANGED <<up, accounts, accountsFile, reset, now, issued, answered, condemned>>
  BY DEF Logout
<1>3. sessions' \in Sessions /\ sessionsFile' \in Sessions
  BY <1>1, <1>2 DEF Sessions
<1>4. /\ \A t \in Token : sessions'[t] \in {None, sessions[t]}
      /\ \A t \in C : sessions'[t] = None
  BY <1>2
<1>5. \A t \in Token : sessionsFile'[t] \in {None, sessions[t], sessionsFile[t]}
  BY <1>2, <1>4
<1>6. \A t \in Token : sessions'[t] = None /\ ~Expired(sessions[t]) => sessionsFile'[t] = None
  BY <1>2 DEF Expired
<1>7. \A t \in Token : sessions[t] = None => sessionsFile'[t] \in {None, sessionsFile[t]}
  BY <1>2, <1>4
<1>8. /\ signedOut' \subseteq Token /\ unsaved' \subseteq Token
      /\ \A t \in signedOut' \ signedOut : issued[t] # None /\ sessions'[t] = None
  BY <1>1, <1>2, <1>4 DEF TypeOK
<1>9. SessionInv'
  BY <1>1, <1>2, <1>4, <1>5, <1>6, <1>7, <1>8, SessionsEnd
<1>10. QED
  BY <1>2, <1>3, <1>8, <1>9, EndingKeeps

\* POST logout that failed at the write for the cookie x: memory forgot it, the file did
\* not.
LEMMA LogoutFailsKeeps ==
    ASSUME PortalInv, NEW D \in SUBSET Token, NEW x \in Token, LogoutFails(D, x)
    PROVE  PortalInv'
<1>1. TypeOK /\ SessionInv /\ sessions \in Sessions /\ sessionsFile \in Sessions
  BY DEF PortalInv, TypeOK
<1>2. /\ up /\ x \notin D
      /\ \A t \in D \cup {x} : sessions[t] # None
      /\ sessions' = [t \in Token |-> IF t \in D \cup {x} THEN None ELSE sessions[t]]
      /\ sessionsFile' = IF D = {} THEN sessionsFile
                         ELSE [sessions' EXCEPT ![x] = sessions[x]]
      /\ unsaved' = unsaved \cup {x} /\ signedOut' = signedOut
      /\ UNCHANGED <<up, accounts, accountsFile, reset, now, issued, answered, condemned>>
  BY DEF LogoutFails
<1>3. sessions' \in Sessions
  BY <1>1, <1>2 DEF Sessions
<1>4. sessionsFile' \in Sessions
  BY <1>1, <1>2, <1>3 DEF Sessions
<1>5. \A t \in Token : sessions'[t] \in {None, sessions[t]}
  BY <1>2
<1>6. \A t \in Token : t # x => sessionsFile'[t] = IF D = {} THEN sessionsFile[t] ELSE sessions'[t]
  BY <1>2, <1>3 DEF Sessions
<1>7. \A t \in Token : sessionsFile'[t] \in {None, sessions[t], sessionsFile[t]}
  BY <1>2, <1>3, <1>5, <1>6 DEF Sessions
<1>8. \A t \in Token : /\ sessions'[t] = None /\ ~Expired(sessions[t]) /\ t \notin unsaved'
                       => sessionsFile'[t] = None
  BY <1>2, <1>6 DEF Expired
<1>9. \A t \in Token : sessions[t] = None => sessionsFile'[t] \in {None, sessionsFile[t]}
  BY <1>2, <1>5, <1>6
<1>10. /\ signedOut' \subseteq Token /\ unsaved' \subseteq Token /\ unsaved \subseteq unsaved'
       /\ \A t \in signedOut' \ signedOut : issued[t] # None /\ sessions'[t] = None
  BY <1>1, <1>2 DEF TypeOK
<1>11. SessionInv'
  BY <1>1, <1>2, <1>5, <1>7, <1>8, <1>9, <1>10, SessionsEnd
<1>12. QED
  BY <1>2, <1>3, <1>4, <1>10, <1>11, EndingKeeps

\* resolve() drops a session it finds expired, written or not.
LEMMA ResolveExpiredKeeps ==
    ASSUME PortalInv, NEW x \in Token, ResolveExpired(x)
    PROVE  PortalInv'
<1>1. TypeOK /\ SessionInv /\ sessions \in Sessions /\ sessionsFile \in Sessions
  BY DEF PortalInv, TypeOK
<1>2. /\ up /\ Expired(sessions[x])
      /\ sessions' = [sessions EXCEPT ![x] = None]
      /\ sessionsFile' \in {sessionsFile, sessions'}
      /\ signedOut' = signedOut /\ unsaved' = unsaved
      /\ UNCHANGED <<up, accounts, accountsFile, reset, now, issued, answered, condemned>>
  BY DEF ResolveExpired, historyVars, Expired
<1>3. /\ sessions' \in Sessions /\ sessionsFile' \in Sessions
      /\ sessions'[x] = None /\ \A t \in Token : t # x => sessions'[t] = sessions[t]
  BY <1>1, <1>2 DEF Sessions
<1>4. \A t \in Token : sessions'[t] = None => Expired(sessions[t])
  BY <1>2, <1>3 DEF Expired
<1>5. \A t \in Token : sessionsFile'[t] \in {None, sessions[t], sessionsFile[t]}
  BY <1>2, <1>3
<1>6. \A t \in Token : sessions[t] = None => sessionsFile'[t] \in {None, sessionsFile[t]}
  BY <1>2, <1>3
<1>7. SessionInv'
  BY <1>1, <1>2, <1>3, <1>4, <1>5, <1>6, SessionsEnd DEF TypeOK
<1>8. QED
  BY <1>1, <1>2, <1>3, <1>7, EndingKeeps DEF TypeOK

\* update() patches a record and leaves its address and its hash.
LEMMA UpdateKeeps ==
    ASSUME PortalInv, NEW a \in AccountId, Update(a)
    PROVE  PortalInv'
<1>1. /\ TypeOK /\ SessionInv /\ AccountInv /\ ServerInv
      /\ accounts \in Accounts /\ accountsFile \in Accounts /\ answered \subseteq AccountId
      /\ condemned \subseteq Token
  BY DEF PortalInv, TypeOK
<1>2. /\ up /\ accounts[a] # None
      /\ accounts' = [accounts EXCEPT ![a].kyc = "pending"]
      /\ accountsFile' = accountsFile \/ accountsFile' = accounts'
      /\ UNCHANGED <<up, sessions, sessionsFile, reset, now, issued, answered, signedOut,
                     unsaved, condemned>>
  BY DEF Update, PersistAccounts, PersistAccountsFails, historyVars
<1> DEFINE row == [accounts[a] EXCEPT !.kyc = "pending"]
<1>3. accounts[a] \in AccountRecord
  BY <1>1, <1>2 DEF Accounts
<1>4. /\ row \in AccountRecord /\ row # None
      /\ row.email = accounts[a].email /\ row.passwordHash = accounts[a].passwordHash
  BY <1>3, PortalAccountsAssumption DEF AccountRecord
<1>5. accounts' = [accounts EXCEPT ![a] = row]
  BY <1>2
<1> HIDE DEF row
<1>6. /\ accounts'[a] = row
      /\ \A b \in AccountId : b # a => accounts'[b] = accounts[b]
      /\ accounts' \in Accounts /\ accountsFile' \in Accounts
  BY <1>1, <1>2, <1>4, <1>5 DEF Accounts
<1>7. \A b \in AccountId : /\ (accounts'[b] # None) = (accounts[b] # None)
                           /\ accounts[b] # None =>
                                /\ accounts'[b].email = accounts[b].email
                                /\ accounts'[b].passwordHash = accounts[b].passwordHash
  BY <1>2, <1>4, <1>6
<1>8. EmailsOnce'
  <2>1. OneEmail(accounts')
    BY <1>1, <1>7 DEF AccountInv, EmailsOnce, OneEmail
  <2>2. OneEmail(accountsFile')
    <3>1. CASE accountsFile' = accounts'
      BY <2>1, <3>1
    <3>2. CASE accountsFile' = accountsFile
      BY <1>1, <3>2 DEF AccountInv, EmailsOnce
    <3>3. QED
      BY <1>2, <3>1, <3>2
  <2>3. OneEmail(reset'.rows)
    BY <1>1, <1>2 DEF AccountInv, EmailsOnce
  <2>4. QED
    BY <2>1, <2>2, <2>3 DEF EmailsOnce, OneEmail
<1>9. RowFound'
  BY <1>1, <1>2 DEF AccountInv, RowFound
<1>10. ASSUME ServerStopped
       PROVE  AnsweredIsDurable' /\ PasswordWritten'
  <2>1. AnsweredIsDurable /\ PasswordWritten /\ ScriptAlone
    BY <1>1, <1>10 DEF AccountInv, ServerInv
  <2>2. AnsweredIsDurable'
    BY <1>1, <1>2, <1>7, <2>1 DEF AnsweredIsDurable
  <2>3. reset.at = "done" => NewPassword(accounts')
    BY <1>2, <1>7, <2>1 DEF PasswordWritten, NewPassword
  <2>4. PasswordWritten'
    BY <1>2, <2>1, <2>3 DEF PasswordWritten, NewPassword, ScriptAlone
  <2>5. QED
    BY <2>2, <2>4
<1>11. AccountInv'
  BY <1>8, <1>9, <1>10 DEF AccountInv, ServerStopped
<1>12. SessionInv' /\ ServerInv'
  BY <1>1, <1>2, SessionsStay, ServerStays
<1>13. TypeOK'
  BY <1>1, <1>2, <1>6 DEF TypeOK
<1>14. QED
  BY <1>11, <1>12, <1>13 DEF PortalInv

\* The server ends: memory is gone, the files stay.
LEMMA StopKeeps ==
    ASSUME PortalInv, Stop
    PROVE  PortalInv'
<1> USE DEF PortalInv
<1>1. /\ up /\ up' = FALSE /\ accounts' = NoAccounts /\ sessions' = NoSessions
      /\ UNCHANGED <<accountsFile, sessionsFile, reset, now, issued, answered, signedOut,
                     unsaved, condemned>>
  BY DEF Stop, historyVars
<1>2. TypeOK'
  BY <1>1 DEF TypeOK, Accounts, Sessions, NoAccounts, NoSessions
<1>3. SessionInv'
  <2>1. signedOut \subseteq Token /\ condemned \subseteq Token
    BY DEF TypeOK
  <2>2. SessionsGenuine' /\ DroppedStaysDropped'
    BY <1>1 DEF SessionInv, SessionsGenuine, DroppedStaysDropped, NoSessions
  <2>3. ServerStopped => SignedOutIsGone' /\ CondemnedAreGone'
    BY <1>1, <2>1 DEF SessionInv, SignedOutIsGone, CondemnedAreGone, NoSessions, Expired
  <2>4. QED
    BY <2>2, <2>3 DEF SessionInv, ServerStopped
<1>4. AccountInv'
  <2>1. OneEmail(accounts')
    BY <1>1 DEF OneEmail, NoAccounts
  <2>2. EmailsOnce' /\ RowFound'
    BY <1>1, <2>1 DEF AccountInv, EmailsOnce, OneEmail, RowFound
  <2>3. ServerStopped => AnsweredIsDurable' /\ PasswordWritten'
    BY <1>1 DEF AccountInv, AnsweredIsDurable, PasswordWritten, NewPassword
  <2>4. QED
    BY <2>2, <2>3 DEF AccountInv, ServerStopped
<1>5. ServerInv'
  BY <1>1 DEF ServerInv, ScriptAlone, ServerStopped
<1>6. QED
  BY <1>2, <1>3, <1>4, <1>5

\* The server starts: #load of both files, which drops expired sessions.
LEMMA BootKeeps ==
    ASSUME PortalInv, Boot
    PROVE  PortalInv'
<1> USE DEF PortalInv
<1>1. /\ ~up /\ up' = TRUE /\ accounts' = accountsFile
      /\ sessions' = Unexpired(sessionsFile)
      /\ reset' = [reset EXCEPT !.booted = (reset.at = "done")]
      /\ UNCHANGED <<accountsFile, sessionsFile, now, issued, answered, signedOut,
                     unsaved, condemned>>
      /\ ServerStopped => reset.at \in {"idle", "done"}
  BY DEF Boot, historyVars, ServerStopped
<1>2. /\ reset \in ResetState /\ sessionsFile \in Sessions /\ now \in 0 .. MaxTime
      /\ signedOut \subseteq Token /\ condemned \subseteq Token
  BY DEF TypeOK
<1>3. /\ reset' \in ResetState /\ reset'.at = reset.at /\ reset'.account = reset.account
      /\ reset'.password = reset.password /\ reset'.rows = reset.rows
      /\ reset'.live = reset.live /\ reset'.booted = (reset.at = "done")
  BY <1>1, <1>2 DEF ResetState
<1>4. /\ sessions' \in Sessions
      /\ \A t \in Token : sessions'[t] \in {None, sessionsFile[t]}
      /\ \A t \in Token : sessions'[t] = None => Expired(sessionsFile[t])
      /\ \A t \in Token : Expired(sessionsFile[t]) => sessions'[t] = None
  <2>1. ASSUME NEW t \in Token, Expired(sessionsFile[t])
        PROVE  sessions'[t] = None
    <3>1. CASE sessionsFile[t] = None
      BY <1>1, <3>1 DEF Unexpired
    <3>2. CASE sessionsFile[t] # None
      <4>1. sessionsFile[t] \in PersistedSession
        BY <1>2, <3>2 DEF Sessions
      <4>2. sessionsFile[t].expiresAt \in Nat /\ sessionsFile[t].expiresAt <= now
        BY <2>1, <3>2, <4>1, PortalAccountsAssumption DEF PersistedSession, Expired
      <4>3. ~(sessionsFile[t].expiresAt > now)
        BY <1>2, <4>2
      <4>4. QED
        BY <1>1, <4>3 DEF Unexpired
    <3>3. QED
      BY <3>1, <3>2
  <2>2. QED
    BY <1>1, <1>2, <2>1, Swept
<1>5. TypeOK'
  BY <1>1, <1>3, <1>4 DEF TypeOK
<1>6. SessionInv'
  <2>1. SessionsGenuine'
    BY <1>1, <1>3, <1>4 DEF SessionInv, SessionsGenuine
  <2>2. DroppedStaysDropped'
    BY <1>1, <1>4 DEF DroppedStaysDropped, Expired
  <2>3. ServerStopped => SignedOutIsGone'
    BY <1>1, <1>2, <1>4 DEF SessionInv, SignedOutIsGone, Expired
  <2>4. ServerStopped => CondemnedAreGone'
    BY <1>1, <1>2, <1>3, <1>4 DEF SessionInv, CondemnedAreGone
  <2>5. QED
    BY <2>1, <2>2, <2>3, <2>4 DEF SessionInv, ServerStopped
<1>7. AccountInv'
  <2>1. EmailsOnce' /\ RowFound'
    BY <1>1, <1>3 DEF AccountInv, EmailsOnce, OneEmail, RowFound
  <2>2. ServerStopped => AnsweredIsDurable' /\ PasswordWritten'
    BY <1>1, <1>3 DEF AccountInv, AnsweredIsDurable, PasswordWritten, NewPassword
  <2>3. QED
    BY <2>1, <2>2 DEF AccountInv, ServerStopped
<1>8. ServerInv'
  BY <1>1, <1>3 DEF ServerInv, ScriptAlone, ServerStopped
<1>9. QED
  BY <1>5, <1>6, <1>7, <1>8

-----------------------------------------------------------------------------
(* The reset script and the clock.                                         *)

\* The script reads accounts.json.
LEMMA ResetReadKeeps ==
    ASSUME PortalInv, NEW a \in AccountId, NEW p \in Password, ResetRead(a, p)
    PROVE  PortalInv'
<1> USE DEF PortalInv
<1>1. /\ reset.at = "idle" /\ accountsFile[a] # None
      /\ ServerStopped => ~up
      /\ reset' = [reset EXCEPT !.at = "read", !.account = a, !.password = p,
                                !.rows = accountsFile]
      /\ UNCHANGED <<up, accounts, accountsFile, sessions, sessionsFile, now, issued, answered,
                     signedOut, unsaved, condemned>>
  BY DEF ResetRead, storeVars, historyVars, ServerStopped
<1>2. reset \in ResetState /\ accountsFile \in Accounts /\ condemned \subseteq Token
  BY DEF TypeOK
<1>3. /\ reset' \in ResetState /\ reset'.at = "read" /\ reset'.account = a
      /\ reset'.password = p /\ reset'.rows = accountsFile /\ reset'.live = reset.live
      /\ reset'.booted = reset.booted
  BY <1>1, <1>2 DEF ResetState
<1>4. TypeOK'
  BY <1>1, <1>3 DEF TypeOK
<1>5. SessionInv'
  BY <1>1, <1>2, <1>3, SessionsStay
<1>6. AccountInv'
  <2>1. EmailsOnce' /\ RowFound'
    BY <1>1, <1>3 DEF AccountInv, EmailsOnce, OneEmail, RowFound
  <2>2. ServerStopped => AnsweredIsDurable' /\ PasswordWritten'
    BY <1>1, <1>3 DEF AccountInv, AnsweredIsDurable, PasswordWritten
  <2>3. QED
    BY <2>1, <2>2 DEF AccountInv, ServerStopped
<1>7. ServerInv'
  BY <1>1, <1>3 DEF ServerInv, ScriptAlone, ServerStopped
<1>8. QED
  BY <1>4, <1>5, <1>6, <1>7

\* It writes its edited copy: the rows it read, one of them with the new hash.
LEMMA ResetWriteKeeps ==
    ASSUME PortalInv, ResetWrite
    PROVE  PortalInv'
<1> USE DEF PortalInv
<1> DEFINE acc == reset.account
           row == [reset.rows[acc] EXCEPT !.passwordHash = reset.password]
<1>1. /\ reset.at = "read"
      /\ accountsFile' = [reset.rows EXCEPT ![acc].passwordHash = reset.password]
      /\ reset' = [reset EXCEPT !.at = "written", !.rows = NoAccounts]
      /\ UNCHANGED <<up, accounts, sessions, sessionsFile, now, issued, answered, signedOut,
                     unsaved, condemned>>
  BY DEF ResetWrite, PersistAccounts, historyVars
<1>2. /\ reset \in ResetState /\ reset.rows \in Accounts
      /\ answered \subseteq AccountId /\ condemned \subseteq Token
  BY DEF TypeOK, ResetState
<1>3. /\ acc \in AccountId /\ reset.password \in Password /\ reset.rows[acc] # None
  BY <1>1 DEF AccountInv, RowFound
<1>4. reset.rows[acc] \in AccountRecord
  BY <1>2, <1>3 DEF Accounts
<1>5. /\ row \in AccountRecord /\ row # None /\ row.email = reset.rows[acc].email
      /\ row.passwordHash = reset.password
  BY <1>3, <1>4, PortalAccountsAssumption DEF AccountRecord
<1>6. accountsFile' = [reset.rows EXCEPT ![acc] = row]
  BY <1>1
<1>7. /\ reset' \in ResetState /\ reset'.at = "written" /\ reset'.account = acc
      /\ reset'.password = reset.password /\ reset'.rows = NoAccounts
      /\ reset'.live = reset.live /\ reset'.booted = reset.booted
  BY <1>1, <1>2 DEF ResetState, NoAccounts, Accounts
<1> HIDE DEF row, acc
<1>8. /\ accountsFile'[acc] = row
      /\ \A b \in AccountId : b # acc => accountsFile'[b] = reset.rows[b]
      /\ accountsFile' \in Accounts
  BY <1>2, <1>3, <1>5, <1>6 DEF Accounts
<1>9. TypeOK'
  BY <1>1, <1>7, <1>8 DEF TypeOK
<1>10. SessionInv'
  BY <1>1, <1>2, <1>7, SessionsStay
<1>11. EmailsOnce' /\ RowFound'
  <2>1. OneEmail(accountsFile')
    BY <1>3, <1>5, <1>8 DEF AccountInv, EmailsOnce, OneEmail
  <2>2. OneEmail(reset'.rows)
    BY <1>7 DEF OneEmail, NoAccounts
  <2>3. OneEmail(accounts')
    BY <1>1 DEF AccountInv, EmailsOnce
  <2>4. QED
    BY <1>7, <2>1, <2>2, <2>3 DEF EmailsOnce, OneEmail, RowFound
<1>12. ASSUME ServerStopped
       PROVE  AnsweredIsDurable' /\ PasswordWritten'
  <2>1. AnsweredIsDurable /\ ~up /\ reset.rows = accountsFile
    BY <1>1, <1>12 DEF AccountInv, ServerInv, ScriptAlone
  <2>2. AnsweredIsDurable'
    BY <1>1, <1>2, <1>5, <1>8, <2>1 DEF AnsweredIsDurable
  <2>3. PasswordWritten'
    BY <1>3, <1>5, <1>7, <1>8 DEF PasswordWritten, NewPassword
  <2>4. QED
    BY <2>2, <2>3
<1>13. AccountInv'
  BY <1>11, <1>12 DEF AccountInv, ServerStopped
<1>14. ServerInv'
  BY <1>1, <1>7 DEF ServerInv, ScriptAlone, ServerStopped
<1>15. QED
  BY <1>9, <1>10, <1>13, <1>14

\* It reads sessions.json and keeps the other accounts' sessions.
LEMMA ResetReadSessionsKeeps ==
    ASSUME PortalInv, ResetReadSessions
    PROVE  PortalInv'
<1> USE DEF PortalInv
<1> DEFINE kept == [t \in Token |->
                      IF sessionsFile[t] # None /\ sessionsFile[t].accountId # reset.account
                      THEN sessionsFile[t] ELSE None]
<1>1. /\ reset.at = "written"
      /\ reset' = [reset EXCEPT !.at = "readSessions", !.live = kept]
      /\ UNCHANGED <<up, accounts, accountsFile, sessions, sessionsFile, now, issued, answered,
                     signedOut, unsaved, condemned>>
  BY DEF ResetReadSessions, storeVars, historyVars
<1>2. /\ reset \in ResetState /\ sessionsFile \in Sessions
      /\ signedOut \subseteq Token /\ condemned \subseteq Token
  BY DEF TypeOK
<1>3. /\ kept \in Sessions
      /\ \A t \in Token : /\ kept[t] \in {None, sessionsFile[t]}
                          /\ kept[t] # None => kept[t].accountId # reset.account
  BY <1>2 DEF Sessions
<1> HIDE DEF kept
<1>4. /\ reset' \in ResetState /\ reset'.at = "readSessions"
      /\ reset'.account = reset.account /\ reset'.password = reset.password
      /\ reset'.rows = reset.rows /\ reset'.live = kept /\ reset'.booted = reset.booted
  BY <1>1, <1>2, <1>3 DEF ResetState
<1>5. TypeOK'
  BY <1>1, <1>4 DEF TypeOK
<1>6. SessionInv'
  <2>1. SessionsGenuine'
    <3>1. SessionsGenuine
      BY DEF SessionInv
    <3>2. QED
      BY <1>1, <1>3, <1>4, <3>1 DEF SessionsGenuine
  <2>2. ServerStopped => DroppedStaysDropped' /\ SignedOutIsGone'
    BY <1>1 DEF SessionInv, DroppedStaysDropped, SignedOutIsGone, Expired
  <2>3. ServerStopped => CondemnedAreGone'
    BY <1>1, <1>2 DEF SessionInv, CondemnedAreGone
  <2>4. QED
    BY <2>1, <2>2, <2>3 DEF SessionInv, ServerStopped
<1>7. AccountInv'
  <2>1. EmailsOnce' /\ RowFound'
    BY <1>1, <1>4 DEF AccountInv, EmailsOnce, OneEmail, RowFound
  <2>2. ServerStopped => AnsweredIsDurable' /\ PasswordWritten'
    BY <1>1, <1>4 DEF AccountInv, AnsweredIsDurable, PasswordWritten, NewPassword
  <2>3. QED
    BY <2>1, <2>2 DEF AccountInv, ServerStopped
<1>8. ServerInv'
  <2>1. ServerStopped => ~up /\ ~reset.booted
    BY <1>1 DEF ServerInv, ScriptAlone
  <2>2. ServerStopped => ScriptAlone'
    BY <1>1, <1>3, <1>4, <2>1 DEF ScriptAlone
  <2>3. QED
    BY <1>1, <2>2 DEF ServerInv, ServerStopped
<1>9. QED
  BY <1>5, <1>6, <1>7, <1>8

\* It writes them back: every token the account was given is out of the file.
LEMMA ResetFinishKeeps ==
    ASSUME PortalInv, ResetFinish
    PROVE  PortalInv'
<1> USE DEF PortalInv
<1>1. /\ reset.at = "readSessions" /\ sessionsFile' = reset.live
      /\ reset' = [reset EXCEPT !.at = "done", !.live = NoSessions]
      /\ condemned' = {t \in Token : issued[t] # None /\ issued[t].accountId = reset.account}
      /\ UNCHANGED <<up, accounts, accountsFile, sessions, now, issued, answered, signedOut,
                     unsaved>>
  BY DEF ResetFinish
<1>2. reset \in ResetState /\ reset.live \in Sessions /\ signedOut \subseteq Token
  BY DEF TypeOK, ResetState
<1>3. /\ reset' \in ResetState /\ reset'.at = "done"
      /\ reset'.account = reset.account /\ reset'.password = reset.password
      /\ reset'.rows = reset.rows /\ reset'.live = NoSessions /\ reset'.booted = reset.booted
  BY <1>1, <1>2 DEF ResetState, NoSessions, Sessions
<1>4. TypeOK'
  BY <1>1, <1>2, <1>3 DEF TypeOK
<1>5. SessionsGenuine'
  BY <1>1, <1>3 DEF SessionInv, SessionsGenuine, NoSessions
<1>6. ASSUME ServerStopped
      PROVE  DroppedStaysDropped' /\ SignedOutIsGone' /\ CondemnedAreGone'
  <2>1. /\ ~up /\ sessions = NoSessions
        /\ \A t \in Token : /\ reset.live[t] \in {None, sessionsFile[t]}
                            /\ reset.live[t] # None => reset.live[t].accountId # reset.account
    BY <1>1, <1>6 DEF ServerInv, ScriptAlone
  <2>2. DroppedStaysDropped'
    BY <1>1, <2>1 DEF DroppedStaysDropped
  <2>3. SignedOutIsGone'
    <3>1. SignedOutIsGone
      BY <1>6 DEF SessionInv
    <3>2. ASSUME NEW t \in Token, Expired(sessionsFile[t])
          PROVE  Expired(reset.live[t])
      <4>1. reset.live[t] \in {None, sessionsFile[t]}
        BY <2>1
      <4>2. CASE reset.live[t] = None
        BY <4>2 DEF Expired
      <4>3. CASE reset.live[t] = sessionsFile[t]
        BY <3>2, <4>3
      <4>4. QED
        BY <4>1, <4>2, <4>3
    <3>3. QED
      BY <1>1, <1>2, <3>1, <3>2 DEF SignedOutIsGone, Expired
  <2>4. ASSUME NEW t \in Token, issued[t] # None, issued[t].accountId = reset.account
        PROVE  sessions[t] = None /\ reset.live[t] = None
    <3>1. sessions[t] = None
      BY <2>1 DEF NoSessions
    <3>2. reset.live[t] # None => reset.live[t] = issued[t]
      BY DEF SessionInv, SessionsGenuine
    <3>3. QED
      BY <2>1, <2>4, <3>1, <3>2
  <2>5. CondemnedAreGone'
    BY <1>1, <1>3, <2>4 DEF CondemnedAreGone
  <2>6. QED
    BY <2>2, <2>3, <2>5
<1>7. SessionInv'
  BY <1>5, <1>6 DEF SessionInv, ServerStopped
<1>8. AccountInv'
  <2>1. EmailsOnce' /\ RowFound'
    BY <1>1, <1>3 DEF AccountInv, EmailsOnce, OneEmail, RowFound
  <2>2. ServerStopped => AnsweredIsDurable'
    BY <1>1 DEF AccountInv, AnsweredIsDurable
  <2>3. ServerStopped => PasswordWritten'
    BY <1>1, <1>3 DEF AccountInv, ServerInv, ScriptAlone, PasswordWritten, NewPassword
  <2>4. QED
    BY <2>1, <2>2, <2>3 DEF AccountInv, ServerStopped
<1>9. ServerInv'
  BY <1>1, <1>3 DEF ServerInv, ScriptAlone, ServerStopped
<1>10. QED
  BY <1>4, <1>7, <1>8, <1>9

\* The script is killed between two of its steps.
LEMMA ResetDiesKeeps ==
    ASSUME PortalInv, ResetDies
    PROVE  PortalInv'
<1> USE DEF PortalInv
<1>1. /\ reset.at \in {"read", "written", "readSessions"} /\ reset' = NoReset
      /\ UNCHANGED <<up, accounts, accountsFile, sessions, sessionsFile, now, issued, answered,
                     signedOut, unsaved, condemned>>
  BY DEF ResetDies, storeVars, historyVars
<1>2. /\ reset' \in ResetState /\ reset'.at = "idle" /\ reset'.rows = NoAccounts
      /\ reset'.live = NoSessions /\ reset'.booted = FALSE
  BY <1>1 DEF NoReset, ResetState, NoAccounts, NoSessions, Accounts, Sessions
<1>3. TypeOK'
  BY <1>1, <1>2 DEF TypeOK
<1>4. SessionInv'
  BY <1>1, <1>2, SessionsStay DEF TypeOK
<1>5. AccountInv'
  <2>1. OneEmail(NoAccounts)
    BY DEF OneEmail, NoAccounts
  <2>2. EmailsOnce' /\ RowFound'
    BY <1>1, <1>2, <2>1 DEF AccountInv, EmailsOnce, OneEmail, RowFound
  <2>3. ServerStopped => AnsweredIsDurable' /\ PasswordWritten'
    BY <1>1, <1>2 DEF AccountInv, AnsweredIsDurable, PasswordWritten
  <2>4. QED
    BY <2>2, <2>3 DEF AccountInv, ServerStopped
<1>6. ServerInv'
  BY <1>1, <1>2 DEF ServerInv, ScriptAlone, ServerStopped
<1>7. QED
  BY <1>3, <1>4, <1>5, <1>6

\* Time only ends sessions.
LEMMA TickKeeps ==
    ASSUME PortalInv, Tick
    PROVE  PortalInv'
<1> USE DEF PortalInv
<1>1. /\ now' = now + 1 /\ now < MaxTime
      /\ UNCHANGED <<up, accounts, accountsFile, sessions, sessionsFile, reset, issued, answered,
                     signedOut, unsaved, condemned>>
  BY DEF Tick, storeVars, historyVars
<1>2. /\ now \in 0 .. MaxTime /\ sessionsFile \in Sessions
      /\ signedOut \subseteq Token /\ condemned \subseteq Token
  BY DEF TypeOK
<1>3. now' \in 0 .. MaxTime /\ now \in Nat
  BY <1>1, <1>2, PortalAccountsAssumption
<1>4. TypeOK'
  BY <1>1, <1>3 DEF TypeOK
<1>5. ASSUME NEW t \in Token, sessionsFile[t] # None, sessionsFile[t].expiresAt <= now
      PROVE  sessionsFile[t].expiresAt <= now'
  <2>1. sessionsFile[t].expiresAt \in Nat
    BY <1>2, <1>5, PortalAccountsAssumption DEF Sessions, PersistedSession
  <2>2. QED
    BY <1>1, <1>3, <1>5, <2>1
<1>6. SessionInv'
  <2>1. SessionsGenuine'
    BY <1>1 DEF SessionInv, SessionsGenuine
  <2>2. ServerStopped => DroppedStaysDropped'
    BY <1>1, <1>5 DEF SessionInv, DroppedStaysDropped, Expired
  <2>3. ServerStopped => SignedOutIsGone'
    BY <1>1, <1>2, <1>5 DEF SessionInv, SignedOutIsGone, Expired
  <2>4. ServerStopped => CondemnedAreGone'
    BY <1>1 DEF SessionInv, CondemnedAreGone
  <2>5. QED
    BY <2>1, <2>2, <2>3, <2>4 DEF SessionInv, ServerStopped
<1>7. AccountInv'
  BY <1>1, AccountsStay
<1>8. ServerInv'
  BY <1>1 DEF ServerInv, ScriptAlone, ServerStopped
<1>9. QED
  BY <1>4, <1>6, <1>7, <1>8

-----------------------------------------------------------------------------
(* The theorems.                                                           *)

\* A deployment starts with empty files and no script.
LEMMA InitKeeps == Init => PortalInv
<1> SUFFICES ASSUME Init PROVE PortalInv
  OBVIOUS
<1>1. NoAccounts \in Accounts /\ NoSessions \in Sessions /\ NoReset \in ResetState
  BY DEF NoAccounts, NoSessions, NoReset, Accounts, Sessions, ResetState
<1>2. TypeOK
  BY <1>1, PortalAccountsAssumption DEF Init, TypeOK
<1>3. SessionInv
  BY DEF Init, SessionInv, SessionsGenuine, DroppedStaysDropped, SignedOutIsGone,
         CondemnedAreGone, Expired, NoSessions, NoReset
<1>4. AccountInv
  BY DEF Init, AccountInv, EmailsOnce, OneEmail, RowFound, AnsweredIsDurable, PasswordWritten,
         NoAccounts, NoReset
<1>5. ServerInv
  BY DEF Init, ServerInv, ScriptAlone, NoReset
<1>6. QED
  BY <1>2, <1>3, <1>4, <1>5 DEF PortalInv

\* Every step of the server, of the script and of time keeps the invariant.
LEMMA StepKeeps == PortalInv /\ [Next]_vars => PortalInv'
<1> SUFFICES ASSUME PortalInv, [Next]_vars PROVE PortalInv'
  OBVIOUS
<1>1. CASE UNCHANGED vars
  <2>1. /\ UNCHANGED <<up, accounts, accountsFile, sessions, sessionsFile, reset, now, issued,
                       answered, signedOut, unsaved, condemned>>
    BY <1>1 DEF vars, storeVars, historyVars
  <2>2. TypeOK' /\ AccountInv' /\ SessionInv'
    BY <2>1, AccountsStay, SessionsStay DEF PortalInv, TypeOK
  <2>3. ServerInv'
    BY <2>1 DEF PortalInv, ServerInv, ScriptAlone, ServerStopped
  <2>4. QED
    BY <2>2, <2>3 DEF PortalInv
<1>2. CASE Next
  BY <1>2, RegisterKeeps, LoginKeeps, LogoutKeeps, LogoutFailsKeeps, ResolveExpiredKeeps,
     UpdateKeeps, StopKeeps, BootKeeps, ResetReadKeeps, ResetWriteKeeps,
     ResetReadSessionsKeeps, ResetFinishKeeps, ResetDiesKeeps, TickKeeps DEF Next
<1>3. QED
  BY <1>1, <1>2

\* The invariant holds throughout.
LEMMA PortalInvariant == Spec => []PortalInv
BY InitKeeps, StepKeeps, PTL DEF Spec

\* Whoever a cookie identifies was handed it, for this account, less than a session's
\* life ago (resolve()): with or without resets beside the running server.
THEOREM CallersWereSignedIn == Spec => []SignedInSound
<1>1. PortalInv => SignedInSound
  <2> SUFFICES ASSUME PortalInv, NEW t \in Token, Resolves(t)
               PROVE  /\ issued[t] # None
                      /\ issued[t].accountId = sessions[t].accountId
                      /\ now < issued[t].expiresAt
    BY DEF SignedInSound
  <2>1. /\ sessions[t] # None /\ sessions[t] = issued[t] /\ sessions[t].expiresAt > now
        /\ now \in Nat
    BY DEF PortalInv, TypeOK, SessionInv, SessionsGenuine, Resolves
  <2>2. sessions[t] \in PersistedSession
    BY <2>1 DEF PortalInv, TypeOK, Sessions
  <2>3. sessions[t].expiresAt \in Nat
    BY <2>2, PortalAccountsAssumption DEF PersistedSession
  <2>4. QED
    BY <2>1, <2>3
<1>2. QED
  BY <1>1, PortalInvariant, PTL

\* Addresses stay unique in memory and on disk, and an answered registration survives
\* every failed write, crash, restart and reset.
THEOREM AnsweredAccountsLast == ServerStopped => (Spec => []StoresSound)
<1>1. SUFFICES ASSUME ServerStopped PROVE Spec => []StoresSound
  OBVIOUS
<1>2. PortalInv => StoresSound
  BY <1>1 DEF PortalInv, AccountInv, EmailsOnce, OneEmail, StoresSound, EmailsUnique
<1>3. QED
  BY <1>2, PortalInvariant, PTL

\* A cookie whose logout was answered identifies nobody again, restarts included.
THEOREM SignedOutForGood == ServerStopped => (Spec => []SessionsSound)
<1>1. SUFFICES ASSUME ServerStopped PROVE Spec => []SessionsSound
  OBVIOUS
<1>2. PortalInv => SignedOutStaysOut
  BY <1>1 DEF PortalInv, SessionInv, SignedOutIsGone, SignedOutStaysOut, Resolves
<1>3. QED
  BY <1>2, CallersWereSignedIn, PortalInvariant, PTL DEF SessionsSound

\* After a reset and the restart it asks for, the account has the new password, and no
\* session it had before it identifies anybody.
THEOREM ResetsTakeHold == ServerStopped => (Spec => []ResetTakesHold)
<1>1. SUFFICES ASSUME ServerStopped PROVE Spec => []ResetTakesHold
  OBVIOUS
<1>2. ASSUME PortalInv, up, reset.booted
      PROVE  /\ \A t \in condemned : ~Resolves(t)
             /\ accounts[reset.account].passwordHash = reset.password
  <2>1. CondemnedAreGone /\ PasswordWritten /\ ScriptAlone
    BY <1>1, <1>2 DEF PortalInv, SessionInv, AccountInv, ServerInv
  <2>2. reset.at = "done"
    BY <1>2, <2>1 DEF ScriptAlone
  <2>3. QED
    BY <1>2, <2>1, <2>2 DEF CondemnedAreGone, PasswordWritten, NewPassword, Resolves
<1>3. PortalInv => ResetTakesHold
  BY <1>2 DEF ResetTakesHold
<1>4. QED
  BY <1>3, PortalInvariant, PTL

-----------------------------------------------------------------------------
(* The rate limiter.                                                       *)

From(attempts, start) == {a \in attempts : start <= a[1]}

LimiterTypeOK ==
    /\ hits \in [Caller -> [count : Nat, resetAt : Nat]]
    /\ clock \in Times
    /\ tried \in [Caller -> [Times -> 0 .. MaxAttempts]]
    /\ passed \in [Caller -> SUBSET Attempt]

\* What passed was tried, and nothing passed at a time to come.
PassedWasTried ==
    \A k \in Caller : \A a \in passed[k] : a[1] <= clock /\ a[2] <= tried[k][a[1]]

\* A window that is open was opened by an attempt, counts what it let through, and was
\* opened when the limit at most had passed in the time of a window before it.
OpenWindow(k) ==
    LET start == hits[k].resetAt - Window
    IN  /\ start \in Times /\ start <= clock
        /\ tried[k][start] # 0
        /\ Cardinality(From(passed[k], start)) <= Limit
        /\ Cardinality(From(passed[k], start)) <= hits[k].count
        /\ Cardinality(Between(passed[k], start - Window, start)) <= Limit

\* With none open, nothing passed just now and the limit at most within the last window.
NoOpenWindow(k) ==
    /\ \A a \in passed[k] : a[1] < clock
    /\ Cardinality(From(passed[k], clock - Window)) <= Limit

WindowsCount ==
    \A k \in Caller : IF hits[k].resetAt <= clock THEN NoOpenWindow(k) ELSE OpenWindow(k)

LimiterInv == LimiterTypeOK /\ PassedWasTried /\ WindowsCount /\ BurstBounded

LEMMA AttemptsFinite ==
    ASSUME NEW A \in SUBSET Attempt
    PROVE  IsFiniteSet(A) /\ Cardinality(A) \in Nat
<1>1. IsFiniteSet(Times) /\ IsFiniteSet(1 .. MaxAttempts)
  BY RateLimiterAssumption, FS_Interval DEF Times
<1>2. IsFiniteSet(Attempt)
  BY <1>1, FS_Product DEF Attempt
<1>3. IsFiniteSet(A)
  BY <1>2, FS_Subset
<1>4. QED
  BY <1>3, FS_CardinalityType

LEMMA FewerAttempts ==
    ASSUME NEW A \in SUBSET Attempt, NEW B \in SUBSET A
    PROVE  Cardinality(B) <= Cardinality(A) /\ B \in SUBSET Attempt
<1>1. IsFiniteSet(A)
  BY AttemptsFinite
<1>2. QED
  BY <1>1, FS_Subset

LEMMA OneMore ==
    ASSUME NEW A \in SUBSET Attempt, NEW a \in Attempt, NEW B \in SUBSET (A \cup {a})
    PROVE  Cardinality(B) <= Cardinality(A) + 1
<1>1. IsFiniteSet(A) /\ Cardinality(A) \in Nat
  BY AttemptsFinite
<1>2. Cardinality(A \cup {a}) <= Cardinality(A) + 1
  BY <1>1, FS_AddElement
<1>3. A \cup {a} \in SUBSET Attempt
  OBVIOUS
<1>4. Cardinality(B) <= Cardinality(A \cup {a})
  BY <1>3, FewerAttempts
<1>5. Cardinality(B) \in Nat /\ Cardinality(A \cup {a}) \in Nat
  BY <1>3, AttemptsFinite, FewerAttempts
<1>6. QED
  BY <1>1, <1>2, <1>4, <1>5

LEMMA TwoParts ==
    ASSUME NEW A \in SUBSET Attempt, NEW B \in SUBSET Attempt, NEW C \in SUBSET (A \cup B)
    PROVE  Cardinality(C) <= Cardinality(A) + Cardinality(B)
<1>1. /\ IsFiniteSet(A) /\ Cardinality(A) \in Nat
      /\ IsFiniteSet(B) /\ Cardinality(B) \in Nat
      /\ Cardinality(A \cap B) \in Nat
  BY AttemptsFinite
<1>2. Cardinality(A \cup B) = Cardinality(A) + Cardinality(B) - Cardinality(A \cap B)
  BY <1>1, FS_Union
<1>3. A \cup B \in SUBSET Attempt
  OBVIOUS
<1>4. Cardinality(C) <= Cardinality(A \cup B)
  BY <1>3, FewerAttempts
<1>5. Cardinality(C) \in Nat
  BY <1>3, AttemptsFinite, FewerAttempts
<1>6. QED
  BY <1>1, <1>2, <1>4, <1>5

LEMMA NoAttempts == Cardinality({}) = 0
  BY FS_EmptySet

\* Parts of what passed.
LEMMA PartsOf ==
    ASSUME NEW A \in SUBSET Attempt, NEW m, NEW n
    PROVE  From(A, m) \in SUBSET Attempt /\ Between(A, m, n) \in SUBSET Attempt
  BY DEF From, Between

LEMMA LimiterStarts == LimiterInit => LimiterInv
<1> SUFFICES ASSUME LimiterInit PROVE LimiterInv
  OBVIOUS
<1>1. 0 \in Times /\ Limit \in Nat
  BY RateLimiterAssumption DEF Times
<1>2. LimiterTypeOK
  BY <1>1, RateLimiterAssumption DEF LimiterInit, LimiterTypeOK, NoWindow
<1>3. PassedWasTried
  BY DEF LimiterInit, PassedWasTried
<1>4. ASSUME NEW k \in Caller, NEW m, NEW n
      PROVE  From(passed[k], m) = {} /\ Between(passed[k], m, n) = {}
  BY DEF LimiterInit, From, Between
<1>5. WindowsCount
  <2> SUFFICES ASSUME NEW k \in Caller PROVE hits[k].resetAt <= clock /\ NoOpenWindow(k)
    BY DEF WindowsCount
  <2>1. hits[k].resetAt <= clock
    BY DEF LimiterInit, NoWindow
  <2>2. NoOpenWindow(k)
    BY <1>1, <1>4, NoAttempts DEF LimiterInit, NoOpenWindow
  <2>3. QED
    BY <2>1, <2>2
<1>6. BurstBounded
  <2>1. 0 <= 2 * Limit
    BY <1>1
  <2>2. ASSUME NEW k \in Caller, NEW t \in Times
        PROVE  Cardinality(Between(passed[k], t, t + Window)) = 0
    BY <1>4, NoAttempts, Zenon
  <2>3. QED
    BY <2>1, <2>2 DEF BurstBounded
<1>7. QED
  BY <1>2, <1>3, <1>5, <1>6 DEF LimiterInv

\* Pruning changes no window that is open, and opens none.
LEMMA PrunedWindows ==
    ASSUME LimiterTypeOK
    PROVE  /\ Pruned \in [Caller -> [count : Nat, resetAt : Nat]]
           /\ \A k \in Caller :
                IF hits[k].resetAt <= clock THEN Pruned[k].resetAt <= clock
                ELSE Pruned[k] = hits[k]
<1>1. clock \in Nat
  BY DEF LimiterTypeOK, Times
<1>2. NoWindow \in [count : Nat, resetAt : Nat] /\ NoWindow.resetAt = 0
  BY DEF NoWindow
<1>3. CASE Pruned = hits
  BY <1>3 DEF LimiterTypeOK
<1>4. CASE Pruned = [k \in Caller |-> IF hits[k].resetAt <= clock THEN NoWindow ELSE hits[k]]
  BY <1>1, <1>2, <1>4 DEF LimiterTypeOK
<1>5. QED
  BY <1>3, <1>4 DEF Pruned

LEMMA ClockKeepsWindows ==
    ASSUME LimiterInv, LimiterTick
    PROVE  LimiterInv'
<1>1. /\ clock' = clock + 1 /\ hits' = hits /\ tried' = tried /\ passed' = passed
      /\ clock \in Nat /\ clock < MaxClock /\ MaxClock \in Nat /\ Window \in Nat \ {0}
  BY RateLimiterAssumption DEF LimiterTick, LimiterInv, LimiterTypeOK, Times
<1>2. LimiterTypeOK'
  BY <1>1 DEF LimiterInv, LimiterTypeOK, Times
<1>3. PassedWasTried'
  <2> SUFFICES ASSUME NEW k \in Caller, NEW a \in passed[k]
               PROVE  a[1] <= clock + 1 /\ a[2] <= tried[k][a[1]]
    BY <1>1 DEF PassedWasTried
  <2>1. a[1] \in Nat
    BY DEF LimiterInv, LimiterTypeOK, Attempt, Times
  <2>2. QED
    BY <1>1, <2>1 DEF LimiterInv, PassedWasTried
<1>4. BurstBounded'
  BY <1>1 DEF LimiterInv, BurstBounded
<1>5. WindowsCount'
  <2> SUFFICES ASSUME NEW k \in Caller
               PROVE  (IF hits[k].resetAt <= clock THEN NoOpenWindow(k) ELSE OpenWindow(k))'
    BY <1>1 DEF WindowsCount
  <2>1. passed[k] \in SUBSET Attempt /\ \A a \in passed[k] : a[1] \in Nat /\ a[1] <= clock
    BY DEF LimiterInv, LimiterTypeOK, PassedWasTried, Attempt, Times
  <2>2. \A a \in passed[k] : a[1] < clock + 1
    BY <1>1, <2>1
  <2>3. hits[k].resetAt \in Nat
    BY DEF LimiterInv, LimiterTypeOK
  <2>4. Limit \in Nat
    BY RateLimiterAssumption
  <2>5. CASE hits[k].resetAt <= clock
    <3>1. NoOpenWindow(k)
      BY <2>5 DEF LimiterInv, WindowsCount
    <3>2. From(passed[k], clock + 1 - Window) \in SUBSET From(passed[k], clock - Window)
      BY <1>1, <2>1 DEF From
    <3>3. Cardinality(From(passed[k], clock + 1 - Window)) <= Limit
      <4>1. /\ Cardinality(From(passed[k], clock + 1 - Window))
                 <= Cardinality(From(passed[k], clock - Window))
            /\ Cardinality(From(passed[k], clock + 1 - Window)) \in Nat
            /\ Cardinality(From(passed[k], clock - Window)) \in Nat
        BY <2>1, <3>2, PartsOf, FewerAttempts, AttemptsFinite
      <4>2. QED
        BY <2>4, <3>1, <4>1 DEF NoOpenWindow
    <3>4. hits[k].resetAt <= clock + 1
      BY <1>1, <2>3, <2>5
    <3>5. QED
      BY <1>1, <2>2, <3>3, <3>4 DEF NoOpenWindow
  <2>6. CASE hits[k].resetAt = clock + 1
    <3>1. OpenWindow(k)
      BY <1>1, <2>6 DEF LimiterInv, WindowsCount
    <3>2. Cardinality(From(passed[k], clock + 1 - Window)) <= Limit
      <4>1. hits[k].resetAt - Window = clock + 1 - Window
        BY <1>1, <2>3, <2>6
      <4>2. Cardinality(From(passed[k], hits[k].resetAt - Window)) <= Limit
        BY <3>1 DEF OpenWindow
      <4>3. QED
        BY <4>1, <4>2
    <3>3. QED
      BY <1>1, <2>2, <2>6, <3>2 DEF NoOpenWindow
  <2>7. CASE ~(hits[k].resetAt <= clock + 1)
    <3>1. OpenWindow(k)
      BY <1>1, <2>3, <2>7 DEF LimiterInv, WindowsCount
    <3>2. hits[k].resetAt - Window <= clock + 1
      BY <1>1, <2>3, <3>1 DEF OpenWindow
    <3>3. OpenWindow(k)'
      BY <1>1, <3>1, <3>2 DEF OpenWindow
    <3>4. QED
      BY <1>1, <2>7, <3>3
  <2>8. QED
    BY <1>1, <2>3, <2>5, <2>6, <2>7
<1>6. QED
  BY <1>2, <1>3, <1>4, <1>5 DEF LimiterInv

LEMMA AttemptKeepsWindows ==
    ASSUME LimiterInv, NEW j \in Caller, Exceeded(j)
    PROVE  LimiterInv'
<1> DEFINE a == <<clock, tried[j][clock] + 1>>
<1>1. /\ clock' = clock /\ clock \in Times /\ clock \in Nat
      /\ Window \in Nat \ {0} /\ Limit \in Nat \ {0} /\ MaxAttempts \in Nat
      /\ hits' = [Pruned EXCEPT ![j] = Counted(j)]
      /\ tried' = [tried EXCEPT ![j][clock] = @ + 1]
      /\ passed' = [passed EXCEPT ![j] = IF Counted(j).count > Limit THEN @ ELSE @ \cup {a}]
      /\ LimiterTypeOK
  BY RateLimiterAssumption DEF Exceeded, LimiterInv, LimiterTypeOK, Times
<1>2. /\ Pruned \in [Caller -> [count : Nat, resetAt : Nat]]
      /\ \A k \in Caller : IF hits[k].resetAt <= clock THEN Pruned[k].resetAt <= clock
                           ELSE Pruned[k] = hits[k]
  BY <1>1, PrunedWindows
<1>3. tried[j][clock] \in Nat /\ tried[j][clock] + 1 \in 1 .. MaxAttempts /\ a \in Attempt
  BY <1>1 DEF Exceeded, LimiterTypeOK, Attempt
<1>4. Counted(j) = IF hits[j].resetAt <= clock THEN [count |-> 1, resetAt |-> clock + Window]
                   ELSE [hits[j] EXCEPT !.count = @ + 1]
  BY <1>2 DEF Counted
<1>5. Counted(j) \in [count : Nat, resetAt : Nat]
  BY <1>1, <1>4 DEF LimiterTypeOK
<1>6. LimiterTypeOK'
  <2>1. hits' \in [Caller -> [count : Nat, resetAt : Nat]]
    BY <1>1, <1>2, <1>5
  <2>2. tried' \in [Caller -> [Times -> 0 .. MaxAttempts]]
    BY <1>1, <1>3 DEF LimiterTypeOK
  <2>3. passed' \in [Caller -> SUBSET Attempt]
    BY <1>1, <1>3 DEF LimiterTypeOK
  <2>4. QED
    BY <1>1, <2>1, <2>2, <2>3 DEF LimiterTypeOK
<1>7. \A k \in Caller \ {j} :
        hits'[k] = Pruned[k] /\ tried'[k] = tried[k] /\ passed'[k] = passed[k]
  BY <1>1, <1>2 DEF LimiterTypeOK
<1>8. /\ hits'[j] = Counted(j)
      /\ \A t \in Times : tried'[j][t] = IF t = clock THEN tried[j][clock] + 1 ELSE tried[j][t]
      /\ passed'[j] = IF Counted(j).count > Limit THEN passed[j] ELSE passed[j] \cup {a}
  BY <1>1, <1>2 DEF LimiterTypeOK
<1>9. passed[j] \in SUBSET Attempt /\ passed'[j] \in SUBSET Attempt
  BY <1>1, <1>6 DEF LimiterTypeOK
<1>10. \A b \in passed[j] : b[1] \in Times /\ b[1] \in Nat /\ b[1] <= clock
  BY <1>9 DEF LimiterInv, PassedWasTried, Attempt, Times
<1>11. PassedWasTried'
  <2> SUFFICES ASSUME NEW k \in Caller, NEW b \in passed'[k]
               PROVE  b[1] <= clock /\ b[2] <= tried'[k][b[1]]
    BY <1>1 DEF PassedWasTried
  <2>1. CASE k # j
    BY <1>7, <2>1 DEF LimiterInv, PassedWasTried
  <2>2. CASE k = j /\ b \in passed[j]
    <3>1. b[1] <= clock /\ b[2] <= tried[j][b[1]]
      BY <2>2 DEF LimiterInv, PassedWasTried
    <3>2. b[1] \in Times /\ b[2] \in Nat /\ tried[j][b[1]] \in Nat
      <4>1. b \in Times \X (1 .. MaxAttempts)
        BY <1>9, <2>2 DEF Attempt
      <4>2. b[1] \in Times /\ b[2] \in Nat
        BY <4>1
      <4>3. \A t \in Times : tried[j][t] \in Nat
        BY <1>1 DEF LimiterTypeOK
      <4>4. QED
        BY <4>2, <4>3
    <3>3. QED
      BY <1>3, <1>8, <2>2, <3>1, <3>2
  <2>3. CASE k = j /\ b = a
    BY <1>1, <1>3, <1>8, <2>3
  <2>4. QED
    BY <1>8, <2>1, <2>2, <2>3
<1>12. ASSUME NEW k \in Caller, k # j
       PROVE  (IF hits[k].resetAt <= clock THEN NoOpenWindow(k) ELSE OpenWindow(k))'
  <2>1. hits'[k] = Pruned[k] /\ tried'[k] = tried[k] /\ passed'[k] = passed[k]
    BY <1>7, <1>12
  <2>2. CASE hits[k].resetAt <= clock
    <3>1. NoOpenWindow(k) /\ hits'[k].resetAt <= clock
      BY <1>2, <2>1, <2>2 DEF LimiterInv, WindowsCount
    <3>2. QED
      BY <1>1, <2>1, <3>1 DEF NoOpenWindow
  <2>3. CASE ~(hits[k].resetAt <= clock)
    <3>1. OpenWindow(k) /\ hits'[k] = hits[k]
      BY <1>2, <2>1, <2>3 DEF LimiterInv, WindowsCount
    <3>2. QED
      BY <1>1, <2>1, <2>3, <3>1 DEF OpenWindow
  <2>4. QED
    BY <2>2, <2>3
<1>13. ~(hits'[j].resetAt <= clock) /\ OpenWindow(j)'
  <2> DEFINE start == hits'[j].resetAt - Window
  <2>1. CASE hits[j].resetAt <= clock
    <3>1. NoOpenWindow(j)
      BY <2>1 DEF LimiterInv, WindowsCount
    <3>2. hits'[j] = [count |-> 1, resetAt |-> clock + Window]
      BY <1>4, <1>8, <2>1
    <3>3. start = clock
      BY <1>1, <3>2
    <3>4. passed'[j] = passed[j] \cup {a}
      BY <1>1, <1>4, <1>8, <2>1
    <3>5. Cardinality(From(passed'[j], clock)) <= 1
      <4>1. From(passed'[j], clock) \in SUBSET ({} \cup {a})
        BY <1>1, <1>10, <3>1, <3>4 DEF From, NoOpenWindow
      <4>2. Cardinality(From(passed'[j], clock)) <= Cardinality({}) + 1
        BY <1>3, <4>1, OneMore
      <4>3. QED
        BY <4>2, NoAttempts
    <3>6. Cardinality(Between(passed'[j], clock - Window, clock)) <= Limit
      <4>1. Between(passed'[j], clock - Window, clock) \in SUBSET From(passed[j], clock - Window)
        BY <1>1, <3>4 DEF From, Between
      <4>2. /\ Cardinality(Between(passed'[j], clock - Window, clock))
                 <= Cardinality(From(passed[j], clock - Window))
            /\ Cardinality(Between(passed'[j], clock - Window, clock)) \in Nat
            /\ Cardinality(From(passed[j], clock - Window)) \in Nat
        <5>1. /\ From(passed[j], clock - Window) \in SUBSET Attempt
              /\ Between(passed'[j], clock - Window, clock) \in SUBSET Attempt
          BY <1>9, PartsOf
        <5>2. QED
          BY <4>1, <5>1, FewerAttempts, AttemptsFinite
      <4>3. QED
        BY <1>1, <3>1, <4>2 DEF NoOpenWindow
    <3>7. tried'[j][clock] # 0
      BY <1>1, <1>3, <1>8
    <3>8. Cardinality(From(passed'[j], clock)) \in Nat
      BY <1>9, PartsOf, AttemptsFinite
    <3>9. OpenWindow(j)'
      <4>1. /\ Cardinality(From(passed'[j], clock)) <= Limit
            /\ Cardinality(From(passed'[j], clock)) <= hits'[j].count
        BY <1>1, <3>2, <3>5, <3>8
      <4> HIDE DEF a
      <4>2. QED
        BY <1>1, <3>3, <3>6, <3>7, <4>1 DEF OpenWindow
    <3>10. QED
      BY <1>1, <3>2, <3>9
  <2>2. CASE ~(hits[j].resetAt <= clock)
    <3>1. OpenWindow(j)
      BY <2>2 DEF LimiterInv, WindowsCount
    <3>2. /\ hits'[j].count = hits[j].count + 1 /\ hits'[j].resetAt = hits[j].resetAt
          /\ hits[j].count \in Nat /\ hits[j].resetAt \in Nat
      BY <1>1, <1>4, <1>8, <2>2 DEF LimiterTypeOK
    <3>3. start = hits[j].resetAt - Window /\ start \in Times /\ start <= clock
      BY <3>1, <3>2 DEF OpenWindow
    <3>4. /\ Cardinality(From(passed[j], start)) <= Limit
          /\ Cardinality(From(passed[j], start)) <= hits[j].count
          /\ Cardinality(Between(passed[j], start - Window, start)) <= Limit
          /\ tried[j][start] # 0
      BY <3>1, <3>3 DEF OpenWindow
    <3> HIDE DEF start
    <3>5. /\ Cardinality(From(passed[j], start)) \in Nat
          /\ Cardinality(From(passed'[j], start)) \in Nat
      BY <1>9, PartsOf, AttemptsFinite
    <3>6. /\ Cardinality(From(passed'[j], start)) <= Limit
          /\ Cardinality(From(passed'[j], start)) <= hits'[j].count
      <4>1. CASE Counted(j).count > Limit
        BY <1>1, <1>8, <3>2, <3>4, <3>5, <4>1
      <4>2. CASE ~(Counted(j).count > Limit)
        <5>1. From(passed'[j], start) \in SUBSET (From(passed[j], start) \cup {a})
          BY <1>8 DEF From
        <5>2. Cardinality(From(passed'[j], start)) <= Cardinality(From(passed[j], start)) + 1
          BY <1>3, <1>9, <5>1, PartsOf, OneMore
        <5>3. hits'[j].count <= Limit
          BY <1>1, <1>8, <3>2, <4>2
        <5>4. QED
          BY <1>1, <3>2, <3>4, <3>5, <5>2, <5>3
      <4>3. QED
        BY <4>1, <4>2
    <3>7. Between(passed'[j], start - Window, start) = Between(passed[j], start - Window, start)
      <4>1. start \in Int /\ ~(clock < start)
        BY <1>1, <3>3 DEF Times
      <4>2. QED
        BY <1>8, <4>1 DEF Between
    <3>8. tried'[j][start] # 0
      BY <1>3, <1>8, <3>3, <3>4
    <3>9. OpenWindow(j)'
      BY <1>1, <3>3, <3>4, <3>6, <3>7, <3>8 DEF OpenWindow, start
    <3>10. QED
      BY <2>2, <3>2, <3>9
  <2>3. QED
    BY <2>1, <2>2
<1>14. WindowsCount'
  <2> SUFFICES ASSUME NEW k \in Caller
               PROVE  (IF hits[k].resetAt <= clock THEN NoOpenWindow(k) ELSE OpenWindow(k))'
    BY DEF WindowsCount
  <2>1. CASE k = j
    BY <1>1, <1>13, <2>1
  <2>2. QED
    BY <1>12, <2>1
<1>15. BurstBounded'
  <2> SUFFICES ASSUME NEW k \in Caller, NEW t \in Times
               PROVE  Cardinality(Between(passed'[k], t, t + Window)) <= 2 * Limit
    BY DEF BurstBounded
  <2>1. Cardinality(Between(passed[k], t, t + Window)) <= 2 * Limit
    BY DEF LimiterInv, BurstBounded
  <2>2. CASE k # j
    BY <1>7, <2>1, <2>2
  <2>3. CASE k = j /\ ~(t <= clock /\ clock < t + Window)
    <3>1. Between(passed'[j], t, t + Window) = Between(passed[j], t, t + Window)
      BY <1>8, <2>3 DEF Between
    <3>2. QED
      BY <2>1, <2>3, <3>1
  <2>4. CASE k = j /\ t <= clock /\ clock < t + Window
    <3> DEFINE start == hits'[j].resetAt - Window
    <3>1. /\ Cardinality(From(passed'[j], start)) <= Limit
          /\ Cardinality(Between(passed'[j], start - Window, start)) <= Limit
          /\ start \in Times /\ start <= clock
      BY <1>1, <1>13 DEF OpenWindow
    <3> HIDE DEF start
    <3>2. Between(passed'[j], t, t + Window)
            \in SUBSET (From(passed'[j], start) \cup Between(passed'[j], start - Window, start))
      <4>1. start - Window <= t /\ start \in Int /\ t \in Int
        BY <1>1, <2>4, <3>1 DEF Times
      <4>2. \A b \in passed'[j] : b[1] \in Nat
        BY <1>9 DEF Attempt, Times
      <4>3. QED
        BY <1>1, <4>1, <4>2 DEF Between, From
    <3>3. /\ Cardinality(Between(passed'[j], t, t + Window))
               <= Cardinality(From(passed'[j], start))
                    + Cardinality(Between(passed'[j], start - Window, start))
          /\ Cardinality(From(passed'[j], start)) \in Nat
          /\ Cardinality(Between(passed'[j], start - Window, start)) \in Nat
          /\ Cardinality(Between(passed'[j], t, t + Window)) \in Nat
      BY <1>9, <3>2, PartsOf, TwoParts, AttemptsFinite
    <3>4. QED
      BY <1>1, <2>4, <3>1, <3>3
  <2>5. QED
    BY <2>2, <2>3, <2>4
<1>16. QED
  BY <1>6, <1>11, <1>14, <1>15 DEF LimiterInv

LEMMA LimiterStep ==
    ASSUME LimiterInv, [LimiterNext]_limiterVars
    PROVE  LimiterInv'
<1>1. CASE UNCHANGED limiterVars
  BY <1>1 DEF limiterVars, LimiterInv, LimiterTypeOK, PassedWasTried, WindowsCount,
              OpenWindow, NoOpenWindow, BurstBounded
<1>2. CASE LimiterTick
  BY <1>2, ClockKeepsWindows
<1>3. CASE \E k \in Caller : Exceeded(k)
  BY <1>3, AttemptKeepsWindows
<1>4. QED
  BY <1>1, <1>2, <1>3 DEF LimiterNext

LEMMA QuietStep ==
    ASSUME LimiterInv, [LimiterNext]_limiterVars, NEW k \in Caller, tried'[k] # tried[k],
           \A t \in Times : clock - Window < t => tried[k][t] = 0
    PROVE  passed'[k] # passed[k]
<1>1. LimiterTypeOK /\ Window \in Nat \ {0} /\ Limit \in Nat \ {0}
  BY RateLimiterAssumption DEF LimiterInv
<1>2. Exceeded(k)
  BY <1>1 DEF LimiterNext, limiterVars, LimiterTick, Exceeded, LimiterTypeOK
<1>3. hits[k].resetAt <= clock
  <2>1. SUFFICES ASSUME ~(hits[k].resetAt <= clock) PROVE FALSE
    OBVIOUS
  <2>2. OpenWindow(k)
    BY <2>1 DEF LimiterInv, WindowsCount
  <2>3. hits[k].resetAt \in Nat /\ clock \in Nat
    BY <1>1 DEF LimiterTypeOK, Times
  <2>4. clock - Window < hits[k].resetAt - Window
    BY <1>1, <2>1, <2>3
  <2>5. QED
    BY <2>2, <2>4 DEF OpenWindow
<1>4. Counted(k).count = 1
  BY <1>1, <1>3, PrunedWindows DEF Counted
<1>5. passed'[k] = passed[k] \cup {<<clock, tried[k][clock] + 1>>}
  BY <1>1, <1>2, <1>4 DEF Exceeded, LimiterTypeOK
<1>6. <<clock, tried[k][clock] + 1>> \notin passed[k]
  <2>1. tried[k][clock] \in Nat
    BY <1>1 DEF LimiterTypeOK
  <2>2. ~(tried[k][clock] + 1 <= tried[k][clock])
    BY <2>1
  <2>3. QED
    BY <2>2 DEF LimiterInv, PassedWasTried
<1>7. QED
  BY <1>5, <1>6

\* For every limit, window and pattern of attempts, and whatever is pruned: no stretch of a
\* window's length lets more than two limits of one caller's attempts through, and a caller
\* that did not try for a window's length is let through (FixedWindowLimiter, exceeded).
THEOREM TheLimiterPromises == LimiterSpec => LimiterPromise
<1>1. LimiterInit => LimiterInv
  BY LimiterStarts
<1>2. LimiterInv /\ [LimiterNext]_limiterVars => LimiterInv'
  BY LimiterStep
<1>3. LimiterInv => BurstBounded
  BY DEF LimiterInv
<1>4. LimiterInv /\ [LimiterNext]_limiterVars =>
        [\A k \in Caller :
           /\ tried'[k] # tried[k]
           /\ \A t \in Times : clock - Window < t => tried[k][t] = 0
           => passed'[k] # passed[k]]_limiterVars
  BY QuietStep
<1>5. QED
  BY <1>1, <1>2, <1>3, <1>4, PTL DEF LimiterSpec, LimiterPromise, QuietCallerPasses
=============================================================================

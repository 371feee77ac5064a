--------------------------- MODULE PortalAccounts ---------------------------
(***************************************************************************)
(* The portal's accounts and sign-in sessions: two stores, each a map in   *)
(* memory and a JSON file that is read once at boot and rewritten whole on *)
(* every mutation, the routes over them (register, login, logout, and any  *)
(* route that asks who is calling), server crashes and restarts, and the   *)
(* operator's password reset script, a second process that edits the two   *)
(* files.                                                                  *)
(*                                                                         *)
(* register and login read nothing before they await the body, so each is  *)
(* one callback.  The rate limiters only refuse; RateLimiter models them.  *)
(***************************************************************************)
EXTENDS Naturals, FiniteSets

CONSTANTS
    AccountId,          \* randomUUID()
    Email,              \* addresses as normalizeEmail leaves them
    Password,
    Token,              \* session tokens, each drawn once
    None,               \* no account, no session
    SessionTtl,         \* SESSION_TTL_SECONDS
    MaxTime,            \* bound on the clock
    WriteFaults,        \* whether a file write may throw
    ResetWhileUp        \* whether the script may run beside a running server

\* A hash stands for the password it was made of.
AccountRecord == [email : Email, passwordHash : Password, kyc : {"none", "pending"}]

PersistedSession == [accountId : AccountId, expiresAt : 0 .. MaxTime + SessionTtl]

ASSUME PortalAccountsAssumption ==
    /\ SessionTtl \in Nat \ {0}
    /\ MaxTime \in Nat
    /\ WriteFaults \in BOOLEAN
    /\ ResetWhileUp \in BOOLEAN
    /\ None \notin AccountId \cup Token \cup AccountRecord \cup PersistedSession

VARIABLES
    up,                 \* the server process is running
    accounts,           \* JsonFileAccountStore.#accounts
    accountsFile,       \* accounts.json
    sessions,           \* PortalSessionStore.#byHash
    sessionsFile,       \* sessions.json
    reset,              \* the reset script and what it has read
    now,
    issued,             \* history: what each token was handed out for
    answered,           \* history: accounts whose registration was answered 201
    signedOut,          \* history: tokens whose logout was answered 200
    unsaved,            \* history: tokens a logout dropped from memory alone
    condemned           \* history: tokens a finished reset meant to end

storeVars == <<accounts, accountsFile, sessions, sessionsFile>>
historyVars == <<issued, answered, signedOut, unsaved, condemned>>
vars == <<up, storeVars, reset, now, historyVars>>

Accounts == [AccountId -> AccountRecord \cup {None}]
Sessions == [Token -> PersistedSession \cup {None}]

ResetState ==
    [at : {"idle", "read", "written", "readSessions", "done"},
     account : AccountId \cup {None}, password : Password \cup {None},
     rows : Accounts, live : Sessions, booted : BOOLEAN]

NoAccounts == [a \in AccountId |-> None]
NoSessions == [t \in Token |-> None]

TypeOK ==
    /\ up \in BOOLEAN
    /\ accounts \in Accounts
    /\ accountsFile \in Accounts
    /\ sessions \in Sessions
    /\ sessionsFile \in Sessions
    /\ reset \in ResetState
    /\ now \in 0 .. MaxTime
    /\ issued \in Sessions
    /\ answered \subseteq AccountId
    /\ signedOut \subseteq Token
    /\ unsaved \subseteq Token
    /\ condemned \subseteq Token

NoReset == [at |-> "idle", account |-> None, password |-> None, rows |-> NoAccounts,
            live |-> NoSessions, booted |-> FALSE]

Init ==
    /\ up = TRUE
    /\ accounts = NoAccounts
    /\ accountsFile = NoAccounts
    /\ sessions = NoSessions
    /\ sessionsFile = NoSessions
    /\ reset = NoReset
    /\ now = 0
    /\ issued = NoSessions
    /\ answered = {}
    /\ signedOut = {}
    /\ unsaved = {}
    /\ condemned = {}

-----------------------------------------------------------------------------
\* #persist of the account store, after memory was changed to m.
PersistAccounts(m) == accountsFile' = m
PersistAccountsFails == WriteFaults /\ UNCHANGED accountsFile

FindByEmail(e) == {a \in AccountId : accounts[a] # None /\ accounts[a].email = e}

\* What is left of the sessions in s once the expired ones are dropped.
Unexpired(s) == [t \in Token |-> IF s[t] # None /\ s[t].expiresAt > now THEN s[t] ELSE None]

\* The account id behind a token, as resolve() and requireAccount see it.
Resolves(t) ==
    /\ up
    /\ sessions[t] # None
    /\ sessions[t].expiresAt > now
    /\ accounts[sessions[t].accountId] # None

NewSession(a) == [accountId |-> a, expiresAt |-> now + SessionTtl]

\* PortalSessionStore.create(a) returns t: swept, set, written.
CreateSession(t, a) ==
    /\ issued[t] = None
    /\ sessions' = [Unexpired(sessions) EXCEPT ![t] = NewSession(a)]
    /\ sessionsFile' = sessions'
    /\ issued' = [issued EXCEPT ![t] = NewSession(a)]

\* create(a) throws: at the write of the sweep, or at the write of the new session,
\* which then stays in memory although nobody holds its token.
CreateSessionFails(t, a) ==
    LET swept == Unexpired(sessions)
    IN  /\ WriteFaults
        /\ issued[t] = None
        /\ \/ /\ swept # sessions
              /\ sessions' = swept
              /\ UNCHANGED sessionsFile
           \/ /\ sessions' = [swept EXCEPT ![t] = NewSession(a)]
              /\ sessionsFile' = IF swept = sessions THEN sessionsFile ELSE swept
        /\ issued' = [issued EXCEPT ![t] = NewSession(a)]

Known(a) == \/ accounts[a] # None
            \/ accountsFile[a] # None
            \/ a \in answered
            \/ \E t \in Token : issued[t] # None /\ issued[t].accountId = a

\* Mutant: the answer is sent although the account file could not be written.
RegisterUnwritten(a, e, p, t) ==
    /\ up
    /\ ~Known(a)
    /\ FindByEmail(e) = {}
    /\ accounts' = [accounts EXCEPT ![a] = [email |-> e, passwordHash |-> p, kyc |-> "none"]]
    /\ PersistAccounts(accounts') \/ PersistAccountsFails
    /\ CreateSession(t, a)
    /\ answered' = answered \cup {a}
    /\ UNCHANGED <<up, reset, now, signedOut, unsaved, condemned>>

\* POST register answered 201: the account in memory and on disk, then a session.
Register(a, e, p, t) ==
    /\ up
    /\ ~Known(a)
    /\ FindByEmail(e) = {}
    /\ accounts' = [accounts EXCEPT ![a] = [email |-> e, passwordHash |-> p, kyc |-> "none"]]
    /\ PersistAccounts(accounts')
    /\ CreateSession(t, a)
    /\ answered' = answered \cup {a}
    /\ UNCHANGED <<up, reset, now, signedOut, unsaved, condemned>>

\* POST register answered 500: a write threw and what was set before it stays.
RegisterFails(a, e, p, t) ==
    /\ up
    /\ ~Known(a)
    /\ FindByEmail(e) = {}
    /\ accounts' = [accounts EXCEPT ![a] = [email |-> e, passwordHash |-> p, kyc |-> "none"]]
    /\ \/ PersistAccountsFails /\ UNCHANGED <<sessions, sessionsFile, issued>>
       \/ PersistAccounts(accounts') /\ CreateSessionFails(t, a)
    /\ UNCHANGED <<up, reset, now, answered, signedOut, unsaved, condemned>>

\* Constant time equality of the stored hash and a fresh one with its salt.
VerifyPassword(p, stored) == p = stored

\* authenticate(): no such address and a wrong password are one refusal.
Authenticates(a, p) == accounts[a] # None /\ VerifyPassword(p, accounts[a].passwordHash)

\* POST login with the right password.
Login(a, p, t) ==
    /\ up
    /\ Authenticates(a, p)
    /\ CreateSession(t, a) \/ CreateSessionFails(t, a)
    /\ UNCHANGED <<up, accounts, accountsFile, reset, now, answered, signedOut, unsaved, condemned>>

\* Mutant: the session is dropped from memory alone.
LogoutMemoryOnly(C) ==
    /\ up
    /\ sessions' = [t \in Token |-> IF t \in C THEN None ELSE sessions[t]]
    /\ signedOut' = signedOut \cup C
    /\ UNCHANGED <<up, accounts, accountsFile, sessionsFile, reset, now, issued, answered,
                   unsaved, condemned>>

\* POST logout with the cookies C answered 200: destroy() writes only for a token
\* it still finds in memory.
Logout(C) ==
    /\ up
    /\ sessions' = [t \in Token |-> IF t \in C THEN None ELSE sessions[t]]
    /\ sessionsFile' = IF sessions' = sessions THEN sessionsFile ELSE sessions'
    /\ signedOut' = signedOut \cup C
    /\ UNCHANGED <<up, accounts, accountsFile, reset, now, issued, answered, unsaved, condemned>>

\* POST logout answered 500: the cookies D were destroyed, the write for x threw.
LogoutFails(D, x) ==
    /\ up
    /\ WriteFaults
    /\ x \notin D
    /\ \A t \in D \cup {x} : sessions[t] # None
    /\ sessions' = [t \in Token |-> IF t \in D \cup {x} THEN None ELSE sessions[t]]
    /\ sessionsFile' = IF D = {} THEN sessionsFile
                       ELSE [sessions' EXCEPT ![x] = sessions[x]]
    /\ unsaved' = unsaved \cup {x}
    /\ UNCHANGED <<up, accounts, accountsFile, reset, now, issued, answered, signedOut,
                   condemned>>

\* Any route that asks who is calling finds the session expired and drops it.
ResolveExpired(t) ==
    /\ up
    /\ sessions[t] # None
    /\ sessions[t].expiresAt <= now
    /\ sessions' = [sessions EXCEPT ![t] = None]
    /\ \/ sessionsFile' = sessions'
       \/ WriteFaults /\ UNCHANGED sessionsFile
    /\ UNCHANGED <<up, accounts, accountsFile, reset, now, historyVars>>

\* update(): the KYC and on-ramp routes patch a record and rewrite the file.
Update(a) ==
    /\ up
    /\ accounts[a] # None
    /\ accounts' = [accounts EXCEPT ![a].kyc = "pending"]
    /\ PersistAccounts(accounts') \/ PersistAccountsFails
    /\ UNCHANGED <<up, sessions, sessionsFile, reset, now, historyVars>>

\* The server process ends, at a deploy or in a crash; its memory is gone.  A write
\* is a rename, so it happened before or not at all.
Stop ==
    /\ up
    /\ up' = FALSE
    /\ accounts' = NoAccounts
    /\ sessions' = NoSessions
    /\ UNCHANGED <<accountsFile, sessionsFile, reset, now, historyVars>>

\* The two constructors: #load of both files.
Boot ==
    /\ ~up
    /\ ResetWhileUp \/ reset.at \in {"idle", "done"}
    /\ up' = TRUE
    /\ accounts' = accountsFile
    /\ sessions' = Unexpired(sessionsFile)
    /\ reset' = [reset EXCEPT !.booted = (reset.at = "done")]
    /\ UNCHANGED <<accountsFile, sessionsFile, now, historyVars>>

-----------------------------------------------------------------------------
\* The script reads accounts.json and finds the row of the address.
ResetRead(a, p) ==
    /\ reset.at = "idle"
    /\ ResetWhileUp \/ ~up
    /\ accountsFile[a] # None
    /\ reset' = [reset EXCEPT !.at = "read", !.account = a, !.password = p,
                              !.rows = accountsFile]
    /\ UNCHANGED <<up, storeVars, now, historyVars>>

\* It renames its edited copy over accounts.json.
ResetWrite ==
    /\ reset.at = "read"
    /\ PersistAccounts([reset.rows EXCEPT ![reset.account].passwordHash = reset.password])
    /\ reset' = [reset EXCEPT !.at = "written", !.rows = NoAccounts]
    /\ UNCHANGED <<up, accounts, sessions, sessionsFile, now, historyVars>>

\* It reads sessions.json and filters out the account's.
ResetReadSessions ==
    /\ reset.at = "written"
    /\ reset' = [reset EXCEPT !.at = "readSessions",
                   !.live = [t \in Token |->
                       IF sessionsFile[t] # None /\ sessionsFile[t].accountId # reset.account
                       THEN sessionsFile[t] ELSE None]]
    /\ UNCHANGED <<up, storeVars, now, historyVars>>

\* Mutant: only the password is changed.
ResetFinishKeepsSessions ==
    /\ reset.at = "readSessions"
    /\ reset' = [reset EXCEPT !.at = "done", !.live = NoSessions]
    /\ condemned' = {t \in Token : issued[t] # None /\ issued[t].accountId = reset.account}
    /\ UNCHANGED <<up, storeVars, now, issued, answered, signedOut, unsaved>>

\* It renames the filtered copy over sessions.json and says it is done.
ResetFinish ==
    /\ reset.at = "readSessions"
    /\ sessionsFile' = reset.live
    /\ reset' = [reset EXCEPT !.at = "done", !.live = NoSessions]
    /\ condemned' = {t \in Token : issued[t] # None /\ issued[t].accountId = reset.account}
    /\ UNCHANGED <<up, accounts, accountsFile, sessions, now, issued, answered, signedOut, unsaved>>

\* The script is killed, or a write of it throws; the operator may run it again.
ResetDies ==
    /\ reset.at \in {"read", "written", "readSessions"}
    /\ reset' = NoReset
    /\ UNCHANGED <<up, storeVars, now, historyVars>>

Tick ==
    /\ now < MaxTime
    /\ now' = now + 1
    /\ UNCHANGED <<up, storeVars, reset, historyVars>>

Next ==
    \/ \E a \in AccountId, e \in Email, p \in Password, t \in Token :
           Register(a, e, p, t) \/ RegisterFails(a, e, p, t)
    \/ \E a \in AccountId, p \in Password, t \in Token : Login(a, p, t)
    \/ \E C \in SUBSET {t \in Token : issued[t] # None} : Logout(C)
    \/ \E D \in SUBSET Token, x \in Token : LogoutFails(D, x)
    \/ \E t \in Token : ResolveExpired(t)
    \/ \E a \in AccountId : Update(a)
    \/ Stop
    \/ Boot
    \/ \E a \in AccountId, p \in Password : ResetRead(a, p)
    \/ ResetWrite
    \/ ResetReadSessions
    \/ ResetFinish
    \/ ResetDies
    \/ Tick

Spec == Init /\ [][Next]_vars

-----------------------------------------------------------------------------
\* No address has two accounts, in memory or in the file, whatever registrations,
\* failed writes, restarts and resets happened: findByEmail and the reset script's
\* find() both rely on it.
EmailsUnique ==
    \A s \in {accounts, accountsFile} : \A a, b \in AccountId :
        s[a] # None /\ s[b] # None /\ s[a].email = s[b].email => a = b

\* A registration that was answered 201 survives every crash: the account stays in
\* the file, and in memory whenever the server runs.
AnsweredIsDurable ==
    \A a \in answered : accountsFile[a] # None /\ (up => accounts[a] # None)

\* Both stores, in memory and on disk: well formed, one account for an address, and
\* everything answered with success.
StoresSound == TypeOK /\ EmailsUnique /\ AnsweredIsDurable

\* A token that identifies a caller was handed out for that account, and no longer
\* ago than the TTL, restarts in between included.
SignedInSound ==
    \A t \in Token : Resolves(t) =>
        /\ issued[t] # None
        /\ issued[t].accountId = sessions[t].accountId
        /\ now < issued[t].expiresAt

\* A token whose logout was answered never identifies a caller again, restarts
\* included, unless an earlier logout of it failed at its write: the file keeps no
\* other session that memory dropped (destroy()).
SignedOutStaysOut == \A t \in signedOut \ unsaved : ~Resolves(t)

\* A cookie identifies a caller from its login to its logout or expiry, and not after.
SessionsSound == SignedInSound /\ SignedOutStaysOut

\* Once a reset is done and the server was started after it, none of the account's
\* earlier sessions identifies a caller, and the account has the new password.
ResetTakesHold ==
    up /\ reset.booted =>
        /\ \A t \in condemned : ~Resolves(t)
        /\ accounts[reset.account].passwordHash = reset.password
=============================================================================

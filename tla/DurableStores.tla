--------------------------- MODULE DurableStores ---------------------------
(***************************************************************************)
(* The JSON files behind the gateway: the revocation index allocator, the  *)
(* status list and the holder's credentials.  Each store answers from      *)
(* memory and writes its whole content with a rename, so a file holds      *)
(* either what it held before or what memory held at the write.  A write   *)
(* may fail: the call throws, and memory has changed already.              *)
(***************************************************************************)
EXTENDS Integers

CONSTANTS
    Wallet,             \* the keys of the credential store
    NoCredential,       \* nothing stored under a wallet
    MaxAllocations      \* bound on the indexes handed out or burnt

VARIABLES
    next,               \* #next of the allocator
    nextFile,           \* revocation-index.json
    revoked,            \* #revoked of the status list store
    revokedFile,        \* status-list.json
    custody,            \* #records of the credential store
    custodyFile         \* credentials.json

allocatorVars == <<next, nextFile>>
statusVars == <<revoked, revokedFile>>
custodyVars == <<custody, custodyFile>>
storeVars == <<allocatorVars, statusVars, custodyVars>>

ASSUME StoreAssumption == MaxAllocations \in Nat

Index == 0..MaxAllocations

\* The files do not exist yet.
StoresInit ==
    /\ next = 0 /\ nextFile = 0
    /\ revoked = {} /\ revokedFile = {}
    /\ custody = [w \in Wallet |-> NoCredential]
    /\ custodyFile = custody

-----------------------------------------------------------------------------
(* The allocator.  Calls queue on #chain, so one runs at a time.           *)

\* Mutant: the counter is written before it is advanced.
AllocateLateWrite ==
    /\ next < MaxAllocations
    /\ next' = next + 1
    /\ nextFile' = next
    /\ UNCHANGED <<statusVars, custodyVars>>

\* allocate() resolves with the index next had: the file is written first.
Allocate ==
    /\ next < MaxAllocations
    /\ next' = next + 1
    /\ nextFile' = next + 1
    /\ UNCHANGED <<statusVars, custodyVars>>

\* The write throws and the caller gets no index; memory has moved on.
AllocateUnsaved ==
    /\ next < MaxAllocations
    /\ next' = next + 1
    /\ UNCHANGED <<nextFile, statusVars, custodyVars>>

-----------------------------------------------------------------------------
(* The status list.                                                        *)

\* Mutant: like clear, revoke writes only when the set has changed.
RevokeIfNew(index) ==
    /\ revoked' = revoked \cup {index}
    /\ revokedFile' = IF index \in revoked THEN revokedFile ELSE revoked'
    /\ UNCHANGED <<allocatorVars, custodyVars>>

Revoke(index) ==
    /\ revoked' = revoked \cup {index}
    /\ revokedFile' = revoked'
    /\ UNCHANGED <<allocatorVars, custodyVars>>

RevokeUnsaved(index) ==
    /\ revoked' = revoked \cup {index}
    /\ UNCHANGED <<revokedFile, allocatorVars, custodyVars>>

\* clear() writes only when the index was in the set.
Clear(index) ==
    /\ revoked' = revoked \ {index}
    /\ revokedFile' = IF index \in revoked THEN revoked' ELSE revokedFile
    /\ UNCHANGED <<allocatorVars, custodyVars>>

ClearUnsaved(index) ==
    /\ index \in revoked
    /\ revoked' = revoked \ {index}
    /\ UNCHANGED <<revokedFile, allocatorVars, custodyVars>>

-----------------------------------------------------------------------------
(* The holder's credentials, one for a wallet: a later one replaces it.    *)

\* Mutant: the file is written before the record is replaced.
PutFlushesFirst(wallet, credential) ==
    /\ custodyFile' = custody
    /\ custody' = [custody EXCEPT ![wallet] = credential]
    /\ UNCHANGED <<allocatorVars, statusVars>>

Put(wallet, credential) ==
    /\ custody' = [custody EXCEPT ![wallet] = credential]
    /\ custodyFile' = custody'
    /\ UNCHANGED <<allocatorVars, statusVars>>

PutUnsaved(wallet, credential) ==
    /\ custody' = [custody EXCEPT ![wallet] = credential]
    /\ UNCHANGED <<custodyFile, allocatorVars, statusVars>>

\* A new process reads every file.
Reload ==
    /\ next' = nextFile
    /\ revoked' = revokedFile
    /\ custody' = custodyFile
    /\ UNCHANGED <<nextFile, revokedFile, custodyFile>>
=============================================================================

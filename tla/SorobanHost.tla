---------------------------- MODULE SorobanHost ----------------------------
(***************************************************************************)
(* What the contracts take from the Soroban host: a ledger sequence number *)
(* that only grows, storage entries that carry the last ledger they live   *)
(* in, and addresses that authorise a transaction.  None of this is code   *)
(* of the repository; it is modelled from how the contracts use it.        *)
(*                                                                         *)
(* An invocation that returns an error or panics is rolled back by the     *)
(* host, so a refused call is a step that changes nothing and the actions  *)
(* of the contract modules describe the accepted calls only.               *)
(***************************************************************************)
EXTENDS Integers

CONSTANTS
    Address,            \* accounts and contracts that can sign or be named
    NoAddress,          \* an instance slot that holds no address
    MaxLedger,          \* last ledger sequence explored; bounds seq (a u32)
    MinPersistentTtl    \* lifetime the network gives a new or restored entry

VARIABLE seq            \* env.ledger().sequence()

ASSUME HostAssumption ==
    /\ MaxLedger \in Nat
    /\ MinPersistentTtl \in Nat
    /\ NoAddress \notin Address

Ledger == 0..MaxLedger

\* The bound is in the guard: no ledger closes after MaxLedger.
LedgerCloses ==
    /\ seq < MaxLedger
    /\ seq' = seq + 1

(***************************************************************************)
(* extend_ttl(threshold, extendTo): an entry that lives until liveUntil is *)
(* bumped only when what is left of it is not above the threshold, and a   *)
(* bump never shortens it.                                                 *)
(***************************************************************************)
ExtendTtl(liveUntil, threshold, extendTo) ==
    IF liveUntil - seq <= threshold /\ liveUntil < seq + extendTo
    THEN seq + extendTo
    ELSE liveUntil

\* A persistent entry past its TTL is archived, not gone: the transaction that
\* touches it restores it with the minimum lifetime before the contract runs.
Restored(liveUntil) ==
    IF liveUntil < seq THEN seq + MinPersistentTtl ELSE liveUntil

\* A temporary entry is really deleted: has() is false after its last ledger.
TemporaryHas(liveUntil) == seq <= liveUntil

\* a.require_auth() in a transaction signed by the addresses in signers.
RequireAuth(a, signers) == a \in signers
=============================================================================

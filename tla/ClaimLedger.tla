---------------------------- MODULE ClaimLedger ----------------------------
(***************************************************************************)
(* What the gate promises the contracts that rely on it, with no proofs,   *)
(* nonces, issuers or storage lifetimes: for each subject one grant, a set *)
(* of claims that holds up to a ledger, in the current generation of the   *)
(* subject.  A grant that still holds gives way only to a later one or to  *)
(* a revocation, and a revocation ends the generation for good.            *)
(***************************************************************************)
EXTENDS Integers

CONSTANTS Subject, Claim, MaxLedger, MaxEpoch, Horizon

VARIABLES
    now,            \* the ledger sequence
    grant           \* grant[s] : what s holds, and until when

vars == <<now, grant>>

Grant == [claims : SUBSET Claim, until : -1..MaxLedger, generation : 0..MaxEpoch]

Nothing == [claims |-> {}, until |-> -1, generation |-> 0]

Init ==
    /\ now = 0
    /\ grant = [s \in Subject |-> Nothing]

Tick ==
    /\ now' = now + 1
    /\ now < MaxLedger
    /\ UNCHANGED grant

\* A grant, or the mark a revocation left, blocks everything that ends no later.
Blocks(g, until) == (now <= g.until \/ g.claims = {}) /\ until <= g.until

Give(s, claims, until) ==
    /\ claims # {}
    /\ until >= now
    /\ until - now <= Horizon
    /\ ~Blocks(grant[s], until)
    /\ grant' = [grant EXCEPT ![s].claims = claims, ![s].until = until]
    /\ UNCHANGED now

Withdraw(s) ==
    /\ grant' = [grant EXCEPT ![s] =
                   [claims |-> {}, until |-> now,
                    generation |-> IF @.generation < MaxEpoch THEN @.generation + 1
                                                              ELSE MaxEpoch]]
    /\ UNCHANGED now

Next ==
    \/ Tick
    \/ \E s \in Subject :
         \/ Withdraw(s)
         \/ \E claims \in SUBSET Claim, until \in 0..MaxLedger : Give(s, claims, until)

Spec == Init /\ [][Next]_vars
=============================================================================

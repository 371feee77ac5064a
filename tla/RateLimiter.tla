---------------------------- MODULE RateLimiter ----------------------------
(***************************************************************************)
(* FixedWindowLimiter, the counter in front of register, login, kyc/submit *)
(* and onramp/buy: one window per caller, opened by the first attempt and  *)
(* counted until it ends.                                                  *)
(***************************************************************************)
EXTENDS Integers, FiniteSets

CONSTANTS
    Caller,             \* what clientIp returns
    Limit,              \* attempts per window
    Window,             \* windowMs
    PruneAbove,         \* the number of keys above which expired windows go
    MaxClock,           \* bound on the clock
    MaxAttempts         \* bound on the attempts of one caller at one time

ASSUME RateLimiterAssumption ==
    /\ Limit \in Nat \ {0}
    /\ Window \in Nat \ {0}
    /\ PruneAbove \in Nat
    /\ MaxClock \in Nat
    /\ MaxAttempts \in Nat

VARIABLES
    hits,               \* #hits: the open windows
    clock,
    tried,              \* history: how many attempts, by caller and time
    passed              \* history: attempts let through, by caller: when, and which then

limiterVars == <<hits, clock, tried, passed>>

NoWindow == [count |-> 0, resetAt |-> 0]
Times == 0 .. MaxClock
Attempt == Times \X (1 .. MaxAttempts)

LimiterInit ==
    /\ hits = [k \in Caller |-> NoWindow]
    /\ clock = 0
    /\ tried = [k \in Caller |-> [t \in Times |-> 0]]
    /\ passed = [k \in Caller |-> {}]

Held == {k \in Caller : hits[k] # NoWindow}

Pruned ==
    IF Cardinality(Held) > PruneAbove
    THEN [k \in Caller |-> IF hits[k].resetAt <= clock THEN NoWindow ELSE hits[k]]
    ELSE hits

\* Mutant: a window is still open at the moment it ends.
CountedLate(k) ==
    IF Pruned[k].resetAt < clock \/ Pruned[k] = NoWindow
    THEN [count |-> 1, resetAt |-> clock + Window]
    ELSE [Pruned[k] EXCEPT !.count = @ + 1]

\* The window of k once an attempt is counted.
Counted(k) ==
    IF Pruned[k].resetAt <= clock
    THEN [count |-> 1, resetAt |-> clock + Window]
    ELSE [Pruned[k] EXCEPT !.count = @ + 1]

\* exceeded(k): the attempt is counted, and refused above the limit.
Exceeded(k) ==
    /\ tried[k][clock] < MaxAttempts
    /\ hits' = [Pruned EXCEPT ![k] = Counted(k)]
    /\ tried' = [tried EXCEPT ![k][clock] = @ + 1]
    /\ passed' = [passed EXCEPT ![k] = IF Counted(k).count > Limit THEN @
                                       ELSE @ \cup {<<clock, tried[k][clock] + 1>>}]
    /\ UNCHANGED clock

LimiterTick ==
    /\ clock < MaxClock
    /\ clock' = clock + 1
    /\ UNCHANGED <<hits, tried, passed>>

LimiterNext == (\E k \in Caller : Exceeded(k)) \/ LimiterTick

LimiterSpec == LimiterInit /\ [][LimiterNext]_limiterVars

-----------------------------------------------------------------------------
Between(attempts, from, end) == {a \in attempts : from <= a[1] /\ a[1] < end}

\* However a caller times its attempts around the ends of windows, no stretch of
\* Window units lets more than twice the limit through.
BurstBounded ==
    \A k \in Caller, t \in Times :
        Cardinality(Between(passed[k], t, t + Window)) <= 2 * Limit

\* A caller that did not try for a whole window is let through, whatever it did
\* before: refused attempts do not extend a window.
QuietCallerPasses ==
    [][\A k \in Caller :
          /\ tried'[k] # tried[k]
          /\ \A t \in Times : clock - Window < t => tried[k][t] = 0
          => passed'[k] # passed[k]]_limiterVars

\* What the limiter promises both sides: no burst beyond two limits in a window's time,
\* and no caller shut out for longer than a window.
LimiterPromise == []BurstBounded /\ QuietCallerPasses

-----------------------------------------------------------------------------
(* What the repository says and the code does not meet: README, section 6. *)

\* "Memory is bounded by pruning expired windows on every check": after a check no
\* expired window is kept.
PrunedOnEveryCheck ==
    [][hits' # hits =>
          \A k \in Caller : hits'[k] = NoWindow \/ hits'[k].resetAt > clock]_limiterVars
=============================================================================

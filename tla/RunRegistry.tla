---------------------------- MODULE RunRegistry ----------------------------
(***************************************************************************)
(* InMemoryRunRegistry: long server-side runs that a page follows over an  *)
(* event stream.  A run ends once, when its runner settles or when its     *)
(* timer fires; the runner of a run that timed out keeps going and may     *)
(* settle later.  JavaScript runs one callback at a time, so each action   *)
(* is one callback, with everything it calls synchronously.                *)
(***************************************************************************)
EXTENDS Integers, Sequences

CONSTANTS
    RunId,          \* the uuids start() hands out, each at most once
    Account,
    NoAccount,      \* the owner of a run that was not started
    Listener,       \* event streams opened by pages
    NoRun,          \* what a listener that was never subscribed follows
    MaxSteps        \* bound on the step events of one run

VARIABLES
    runs,           \* RunState of every run, with what its closures hold
    completions,    \* the calls of each run's onComplete, in order
    following,      \* the run each listener was subscribed to
    attached,       \* the open streams in their run's listener set
    received        \* the events each listener was called with, in order

streamVars == <<following, attached, received>>
registryVars == <<runs, completions, streamVars>>

ASSUME RegistryAssumption ==
    /\ NoAccount \notin Account
    /\ NoRun \notin RunId
    /\ MaxSteps \in Nat

Event == {"step", "done", "error"}
Completion == {"result", "error", "late", "failed"}

RunState ==
    [account : Account \cup {NoAccount}, events : Seq(Event), done : BOOLEAN,
     kept : BOOLEAN, settled : BOOLEAN]

Unstarted == [account |-> NoAccount, events |-> << >>, done |-> FALSE,
              kept |-> FALSE, settled |-> FALSE]

RegistryTypeOK ==
    /\ runs \in [RunId -> RunState]
    /\ completions \in [RunId -> Seq(Completion)]
    /\ following \in [Listener -> RunId \cup {NoRun}]
    /\ attached \subseteq Listener
    /\ received \in [Listener -> Seq(Event)]

RegistryInit ==
    /\ runs = [r \in RunId |-> Unstarted]
    /\ completions = [r \in RunId |-> << >>]
    /\ following = [l \in Listener |-> NoRun]
    /\ attached = {}
    /\ received = [l \in Listener |-> << >>]

-----------------------------------------------------------------------------
Started(r) == runs[r].account # NoAccount
Active(r) == runs[r].kept /\ ~runs[r].done
ActiveRuns(a) == {r \in RunId : runs[r].account = a /\ Active(r)}
ListenersOf(r) == {l \in attached : following[l] = r}

\* start(): registers the run, arms its timer and enters the runner.
StartRun(r, a) ==
    /\ ~Started(r)
    /\ runs' = [runs EXCEPT ![r] = [Unstarted EXCEPT !.account = a, !.kept = TRUE]]
    /\ UNCHANGED <<completions, streamVars>>

\* #publish: buffer, mark done at a terminal event, fan out.  A stream that gets
\* a terminal event unsubscribes itself.
Publish(r, event, settled) ==
    /\ runs' = [runs EXCEPT ![r].events = Append(@, event),
                            ![r].done = @ \/ event # "step",
                            ![r].settled = settled]
    /\ received' = [l \in Listener |-> IF l \in ListenersOf(r)
                                       THEN Append(received[l], event)
                                       ELSE received[l]]
    /\ attached' = IF event = "step" THEN attached ELSE attached \ ListenersOf(r)
    /\ UNCHANGED following

\* emit(step): nothing is published once the run is completed.
EmitStep(r) ==
    /\ Started(r) /\ ~runs[r].settled
    /\ ~runs[r].done
    /\ Len(runs[r].events) < MaxSteps
    /\ Publish(r, "step", FALSE)
    /\ UNCHANGED completions

\* Mutant: a late result is handed over like one in time.
FinishLateAsResult(r, event, completion, settled) ==
    IF ~runs[r].done
    THEN /\ Publish(r, event, settled)
         /\ completions' = [completions EXCEPT ![r] = Append(@, completion)]
    ELSE /\ runs' = [runs EXCEPT ![r].settled = settled]
         /\ completions' = IF event = "error" THEN completions
                           ELSE [completions EXCEPT ![r] = Append(@, completion)]
         /\ UNCHANGED streamVars

\* finish(): the first call publishes and completes; a later one is the runner
\* settling after the timeout, whose result is still handed over, marked late,
\* and whose error is dropped.
Finish(r, event, completion, settled) ==
    IF ~runs[r].done
    THEN /\ Publish(r, event, settled)
         /\ completions' = [completions EXCEPT ![r] = Append(@, completion)]
    ELSE /\ runs' = [runs EXCEPT ![r].settled = settled]
         /\ completions' = IF event = "error" THEN completions
                           ELSE [completions EXCEPT ![r] = Append(@, "late")]
         /\ UNCHANGED streamVars

RunnerReturns(r) ==
    /\ Started(r) /\ ~runs[r].settled
    /\ Finish(r, "done", "result", TRUE)

\* The runner returned and onComplete threw, as it does when the account file cannot be
\* written: the run is done with nothing armed to evict it, and the finish() of the catch
\* around the runner has no effect.  An error is never written, so its onComplete returns.
ReturnUnrecorded(r) ==
    /\ Started(r) /\ ~runs[r].settled
    /\ Finish(r, "done", "failed", TRUE)

RunnerThrows(r) ==
    /\ Started(r) /\ ~runs[r].settled
    /\ Finish(r, "error", "error", TRUE)

\* The timer; clearTimeout disarms it when the run completes first.
TimesOut(r) ==
    /\ Started(r) /\ ~runs[r].done
    /\ Finish(r, "error", "error", runs[r].settled)

\* Mutant: eviction waits for a runner that may never settle.
EvictSettled(r) ==
    /\ runs[r].kept /\ runs[r].done /\ runs[r].settled
    /\ completions[r] # <<"failed">>
    /\ runs' = [runs EXCEPT ![r].kept = FALSE]
    /\ UNCHANGED <<completions, streamVars>>

\* The eviction timer, armed by the first finish once onComplete has returned.
Evict(r) ==
    /\ runs[r].kept /\ runs[r].done
    /\ completions[r] # <<"failed">>
    /\ runs' = [runs EXCEPT ![r].kept = FALSE]
    /\ UNCHANGED <<completions, streamVars>>

\* Mutant: a stream joins without the replay.
SubscribeLive(l, r, a) ==
    /\ following[l] = NoRun
    /\ runs[r].kept /\ runs[r].account = a
    /\ following' = [following EXCEPT ![l] = r]
    /\ attached' = IF runs[r].done THEN attached ELSE attached \cup {l}
    /\ UNCHANGED <<runs, completions, received>>

\* subscribe() by the run's owner: replay the buffer, then stay for live events
\* unless the run is done.  Anyone else, or an evicted run, is answered 404.
Subscribe(l, r, a) ==
    /\ following[l] = NoRun
    /\ runs[r].kept /\ runs[r].account = a
    /\ following' = [following EXCEPT ![l] = r]
    /\ received' = [received EXCEPT ![l] = runs[r].events]
    /\ attached' = IF runs[r].done THEN attached ELSE attached \cup {l}
    /\ UNCHANGED <<runs, completions>>

\* The page goes away: the closed stream drops what it is called with.
Disconnect(l) ==
    /\ l \in attached
    /\ attached' = attached \ {l}
    /\ UNCHANGED <<runs, completions, following, received>>

RegistryNext ==
    \/ \E r \in RunId :
         \/ \E a \in Account : StartRun(r, a)
         \/ EmitStep(r)
         \/ RunnerReturns(r)
         \/ ReturnUnrecorded(r)
         \/ RunnerThrows(r)
         \/ TimesOut(r)
         \/ Evict(r)
    \/ \E l \in Listener :
         \/ \E r \in RunId, a \in Account : Subscribe(l, r, a)
         \/ Disconnect(l)

\* Node fires a due timer; nothing makes a runner settle or a page reconnect.
RegistrySpec ==
    /\ RegistryInit
    /\ [][RegistryNext]_registryVars
    /\ \A r \in RunId : WF_registryVars(TimesOut(r)) /\ WF_registryVars(Evict(r))

-----------------------------------------------------------------------------
\* A run has exactly one terminal event, it is the last, and it is there from
\* the moment the run counts as done (finish's "completed", emit's guard).
OneTerminalEvent ==
    \A r \in RunId :
        LET events == runs[r].events
        IN  /\ \A k \in DOMAIN events : events[k] # "step" => k = Len(events)
            /\ runs[r].done <=> Len(events) > 0 /\ events[Len(events)] # "step"

\* A stream has received the run's events in order with no gap and no repeat,
\* whenever it was opened; all of them while it is attached (subscribe replays
\* before it adds the listener, #publish buffers before it fans out).
StreamFollowsRun ==
    \A l \in Listener :
        following[l] # NoRun =>
            LET events == runs[following[l]].events
            IN  /\ Len(received[l]) <= Len(events)
                /\ received[l] = SubSeq(events, 1, Len(received[l]))
                /\ l \in attached => received[l] = events /\ ~runs[following[l]].done

\* onComplete is called when the run completes, and a second time only to hand
\* over the result of a runner whose run had been reported as an error.
CompletionsOrdered ==
    \A r \in RunId :
        /\ completions[r] \in {<< >>, <<"result">>, <<"failed">>, <<"error">>,
                              <<"error", "late">>}
        /\ runs[r].done <=> completions[r] # << >>
        /\ completions[r] \in {<<"result">>, <<"failed">>} =>
             runs[r].settled /\ runs[r].events[Len(runs[r].events)] = "done"

\* A run has one outcome: one terminal event, and the completions that agree with it.
OneOutcome == RegistryTypeOK /\ OneTerminalEvent /\ CompletionsOrdered

\* No run pins its account for ever: whatever its runner does, a started run is
\* eventually done, and eventually leaves the registry (timeoutMs, retainMs) unless its
\* onComplete threw.
RunsEnd ==
    \A r \in RunId :
        Started(r) ~> runs[r].done /\ (completions[r] = <<"failed">> \/ ~runs[r].kept)

-----------------------------------------------------------------------------
(* What the repository says and the code does not meet: README, section 6. *)

\* "onComplete fires exactly once" (kyc-run.ts, start).
CompletesOnce == \A r \in RunId : Len(completions[r]) <= 1

\* "a finished run stays readable for retainMs ..., then is evicted" (kyc-run.ts, the
\* registry's doc).
FinishedRunsLeave == \A r \in RunId : runs[r].done ~> ~runs[r].kept
=============================================================================

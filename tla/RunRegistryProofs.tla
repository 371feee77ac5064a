-------------------------- MODULE RunRegistryProofs --------------------------
(***************************************************************************)
(* Proofs about the run registry, for every number of runs, accounts,      *)
(* streams and events: a run has one outcome, whatever its runner and its  *)
(* timer do, and every stream follows its run without a gap or a repeat.   *)
(***************************************************************************)
EXTENDS RunRegistry, SequenceTheorems, TLAPS

\* A run that start() has not been called for holds nothing.
UnstartedClean == \A r \in RunId : ~Started(r) => runs[r] = Unstarted

\* A run whose runner settled is done (finish publishes before it returns), and a
\* late result is handed over by the one settling of the runner, after which
\* nothing calls finish for it again.
SettledDone ==
    \A r \in RunId :
        /\ runs[r].settled => runs[r].done
        /\ completions[r] = <<"error", "late">> => runs[r].settled

OutcomeInv == OneOutcome /\ UnstartedClean /\ SettledDone

\* A stream in a listener set was subscribed to some run.
AttachedFollow == \A l \in attached : following[l] # NoRun

StreamInv == OneOutcome /\ AttachedFollow /\ StreamFollowsRun

-----------------------------------------------------------------------------
(* Short sequences.                                                        *)

\* A sequence of two is the pair of its members.
LEMMA PairOf ==
    ASSUME NEW S, NEW t \in Seq(S), Len(t) = 2
    PROVE  t = <<t[1], t[2]>>
OBVIOUS

\* A second call of onComplete makes the pair of the two.
LEMMA AppendToOne ==
    ASSUME NEW S, NEW s \in Seq(S), NEW a \in S, s = <<a>>, NEW b \in S
    PROVE  Append(s, b) = <<a, b>>
<1>1. Len(s) = 1 /\ s[1] = a
  OBVIOUS
<1>2. /\ Append(s, b) \in Seq(S) /\ Len(Append(s, b)) = Len(s) + 1
      /\ \A i \in 1..Len(s) : Append(s, b)[i] = s[i]
      /\ Append(s, b)[Len(s) + 1] = b
  BY ONLY AppendProperties, s \in Seq(S), b \in S
<1>3. Append(s, b)[1] = a /\ Append(s, b)[2] = b /\ Len(Append(s, b)) = 2
  BY ONLY <1>1, <1>2
<1>4. QED
  BY ONLY <1>2, <1>3, PairOf

-----------------------------------------------------------------------------
(* One outcome.                                                            *)

\* Before the first start() no run holds anything.
LEMMA InitOutcome == RegistryInit => OutcomeInv
BY RegistryAssumption
   DEF RegistryInit, OutcomeInv, OneOutcome, RegistryTypeOK, OneTerminalEvent, CompletionsOrdered,
       UnstartedClean, SettledDone, RunState, Unstarted, Started, Event, Completion

\* start() keeps the outcome: it takes a run that holds nothing.
LEMMA StartOutcome ==
    ASSUME OutcomeInv, NEW r \in RunId, NEW a \in Account, StartRun(r, a)
    PROVE  OutcomeInv'
<1>1. runs[r] = Unstarted
  BY DEF OutcomeInv, UnstartedClean, StartRun
<1>2. runs' = [runs EXCEPT ![r] = [Unstarted EXCEPT !.account = a, !.kept = TRUE]]
      /\ UNCHANGED <<completions, following, attached, received>>
  BY DEF StartRun, streamVars
<1>3. RegistryTypeOK'
  BY <1>1, <1>2 DEF OutcomeInv, OneOutcome, RegistryTypeOK, RunState, Unstarted
<1>4. \A s \in RunId : /\ runs'[s].events = runs[s].events
                       /\ runs'[s].done = runs[s].done
                       /\ runs'[s].settled = runs[s].settled
  BY <1>1, <1>2 DEF OutcomeInv, OneOutcome, RegistryTypeOK, RunState, Unstarted
<1>5. OneTerminalEvent'
  BY <1>4 DEF OutcomeInv, OneOutcome, OneTerminalEvent
<1>6. CompletionsOrdered' /\ SettledDone'
  BY <1>2, <1>4 DEF OutcomeInv, OneOutcome, CompletionsOrdered, SettledDone
<1>7. UnstartedClean'
  BY <1>1, <1>2, RegistryAssumption
     DEF OutcomeInv, OneOutcome, UnstartedClean, Started, Unstarted, RegistryTypeOK
<1>8. QED
  BY <1>3, <1>5, <1>6, <1>7 DEF OutcomeInv, OneOutcome

\* What #publish does to its run: one more event, done if that event is terminal.
LEMMA Published ==
    ASSUME RegistryTypeOK, NEW r \in RunId, NEW e \in Event, NEW settled \in BOOLEAN,
           Publish(r, e, settled)
    PROVE  /\ runs' \in [RunId -> RunState]
           /\ following' \in [Listener -> RunId \cup {NoRun}]
           /\ attached' \subseteq Listener
           /\ received' \in [Listener -> Seq(Event)]
           /\ \A s \in RunId \ {r} : runs'[s] = runs[s]
           /\ runs'[r].events = Append(runs[r].events, e)
           /\ runs'[r].account = runs[r].account
           /\ runs'[r].done = (runs[r].done \/ e # "step")
           /\ runs'[r].kept = runs[r].kept
           /\ runs'[r].settled = settled
<1>1. runs[r] \in RunState
  BY DEF RegistryTypeOK
<1>2. runs' = [runs EXCEPT ![r] = [runs[r] EXCEPT !.events = Append(@, e),
                                                  !.done = @ \/ e # "step",
                                                  !.settled = settled]]
  BY <1>1 DEF Publish, RegistryTypeOK, RunState
<1>3. Append(runs[r].events, e) \in Seq(Event)
  BY <1>1 DEF RunState
<1>4. runs' \in [RunId -> RunState]
  BY <1>1, <1>2, <1>3 DEF RegistryTypeOK, RunState
<1>5. received' \in [Listener -> Seq(Event)]
  <2>1. \A l \in Listener : received[l] \in Seq(Event) /\ Append(received[l], e) \in Seq(Event)
    BY DEF RegistryTypeOK
  <2>2. QED
    BY <2>1 DEF Publish
<1>6. attached' \subseteq Listener /\ following' \in [Listener -> RunId \cup {NoRun}]
  BY DEF Publish, RegistryTypeOK
<1>7. QED
  BY <1>1, <1>2, <1>3, <1>4, <1>5, <1>6 DEF RegistryTypeOK, RunState

\* An event appended to a run that is not done leaves it with at most one
\* terminal event, its last one.
LEMMA PublishedOneTerminal ==
    ASSUME RegistryTypeOK, OneTerminalEvent, NEW r \in RunId, NEW e \in Event,
           NEW settled \in BOOLEAN, ~runs[r].done, Publish(r, e, settled)
    PROVE  OneTerminalEvent'
<1> SUFFICES ASSUME NEW s \in RunId
             PROVE  LET events == runs'[s].events
                    IN  /\ \A k \in DOMAIN events : events[k] # "step" => k = Len(events)
                        /\ runs'[s].done <=> Len(events) > 0 /\ events[Len(events)] # "step"
  BY DEF OneTerminalEvent
<1>1. CASE s # r
  BY <1>1, Published DEF OneTerminalEvent
<1>2. CASE s = r
  <2>1. runs[r].events \in Seq(Event)
    BY DEF RegistryTypeOK, RunState
  <2>2. \A k \in DOMAIN runs[r].events : runs[r].events[k] = "step"
    BY <2>1 DEF OneTerminalEvent
  <2>3. runs'[r].events = Append(runs[r].events, e) /\ (runs'[r].done <=> e # "step")
    BY Published
  <2>4. QED
    BY <1>2, <2>1, <2>2, <2>3
<1>3. QED
  BY <1>1, <1>2

\* emit() keeps the outcome: it is refused once the run is done.
LEMMA EmitOutcome ==
    ASSUME OutcomeInv, NEW r \in RunId, EmitStep(r)
    PROVE  OutcomeInv'
<1>1. RegistryTypeOK /\ OneTerminalEvent /\ ~runs[r].done /\ Publish(r, "step", FALSE)
      /\ completions' = completions /\ "step" \in Event
  BY DEF OutcomeInv, OneOutcome, EmitStep, Event
<1>2. RegistryTypeOK' /\ OneTerminalEvent'
  BY <1>1, Published, PublishedOneTerminal DEF RegistryTypeOK
<1>3. /\ \A s \in RunId \ {r} : runs'[s] = runs[s]
      /\ runs'[r].done = runs[r].done /\ runs'[r].settled = FALSE
      /\ runs'[r].account = runs[r].account
  BY <1>1, Published DEF RegistryTypeOK, RunState
<1>4. completions[r] = << >> /\ Started(r)
  BY <1>1 DEF OutcomeInv, OneOutcome, CompletionsOrdered, EmitStep
<1>5. CompletionsOrdered' /\ SettledDone'
  BY <1>1, <1>3, <1>4 DEF OutcomeInv, OneOutcome, CompletionsOrdered, SettledDone
<1>6. UnstartedClean'
  BY <1>3, <1>4 DEF OutcomeInv, UnstartedClean, Started
<1>7. QED
  BY <1>2, <1>5, <1>6 DEF OutcomeInv, OneOutcome

\* The ways the runner settles and the one way the timer fires: a terminal event with its
\* completion, which fails for a result at most.
Ends(event, completion, settled) ==
    \/ event = "done" /\ completion \in {"result", "failed"} /\ settled = TRUE
    \/ event = "error" /\ completion = "error" /\ settled \in BOOLEAN

\* The first finish() publishes the terminal event and completes the run.
LEMMA FirstFinish ==
    ASSUME OutcomeInv, NEW r \in RunId, NEW e, NEW c, NEW settled, Ends(e, c, settled),
           Started(r), ~runs[r].done, Finish(r, e, c, settled)
    PROVE  OutcomeInv'
<1>1. /\ RegistryTypeOK /\ OneTerminalEvent /\ Publish(r, e, settled)
      /\ completions' = [completions EXCEPT ![r] = Append(@, c)]
      /\ e \in Event /\ e # "step" /\ settled \in BOOLEAN /\ c \in Completion
  BY DEF OutcomeInv, OneOutcome, Finish, Ends, Event, Completion
<1>2. completions[r] = << >> /\ completions \in [RunId -> Seq(Completion)]
  BY DEF OutcomeInv, OneOutcome, CompletionsOrdered, RegistryTypeOK
<1>3. completions' = [completions EXCEPT ![r] = <<c>>]
  BY <1>1, <1>2
<1>4. RegistryTypeOK' /\ OneTerminalEvent'
  <2>1. completions' \in [RunId -> Seq(Completion)]
    BY <1>1, <1>2, <1>3
  <2>2. QED
    BY <1>1, <2>1, Published, PublishedOneTerminal DEF RegistryTypeOK
<1>5. /\ \A s \in RunId \ {r} : runs'[s] = runs[s]
      /\ runs'[r].done /\ runs'[r].settled = settled
      /\ runs'[r].account = runs[r].account
      /\ runs'[r].events = Append(runs[r].events, e)
  BY <1>1, Published
<1>6. runs[r].events \in Seq(Event)
  BY <1>1 DEF RegistryTypeOK, RunState
<1>7. runs'[r].events[Len(runs'[r].events)] = e
  BY <1>5, <1>6
<1>8. CompletionsOrdered'
  <2>1. \A s \in RunId \ {r} : completions'[s] = completions[s]
    BY <1>2, <1>3
  <2>2. completions'[r] = <<c>>
    BY <1>2, <1>3
  <2>3. /\ c \in {"result", "failed", "error"} /\ <<c>> # << >>
        /\ <<c>> \in {<<"result">>, <<"failed">>} => settled /\ e = "done"
    BY DEF Ends
  <2>4. QED
    BY <1>5, <1>7, <2>1, <2>2, <2>3 DEF OutcomeInv, OneOutcome, CompletionsOrdered
<1>9. SettledDone'
  BY <1>2, <1>3, <1>5 DEF OutcomeInv, SettledDone
<1>10. UnstartedClean'
  BY <1>5 DEF OutcomeInv, UnstartedClean, Started
<1>11. QED
  BY <1>4, <1>8, <1>9, <1>10 DEF OutcomeInv, OneOutcome

\* A later finish() is the runner of a run that timed out: its result is handed
\* over, marked late, and its error is dropped.
LEMMA LaterFinish ==
    ASSUME OutcomeInv, NEW r \in RunId, NEW e, NEW c, Ends(e, c, TRUE),
           Started(r), ~runs[r].settled, runs[r].done, Finish(r, e, c, TRUE)
    PROVE  OutcomeInv'
<1>1. runs' = [runs EXCEPT ![r].settled = TRUE] /\ UNCHANGED streamVars
      /\ completions' = IF e = "error" THEN completions
                        ELSE [completions EXCEPT ![r] = Append(@, "late")]
  BY DEF Finish
<1>2. RegistryTypeOK /\ runs[r] \in RunState
  BY DEF OutcomeInv, OneOutcome, RegistryTypeOK
<1>3. completions[r] = <<"error">>
  BY DEF OutcomeInv, OneOutcome, CompletionsOrdered, SettledDone
<1>4. \/ completions' = completions
      \/ completions' = [completions EXCEPT ![r] = <<"error", "late">>]
  <2>1. Append(completions[r], "late") = <<"error", "late">>
    BY <1>2, <1>3, AppendToOne DEF RegistryTypeOK, Completion
  <2>2. QED
    BY <1>1, <1>3, <2>1
<1>5. RegistryTypeOK'
  <2>1. <<"error", "late">> \in Seq(Completion)
    BY DEF Completion
  <2>2. completions' \in [RunId -> Seq(Completion)]
    BY <1>2, <1>4, <2>1 DEF RegistryTypeOK
  <2>3. QED
    BY <1>1, <1>2, <2>2 DEF RegistryTypeOK, RunState, streamVars
<1>6. \A s \in RunId : /\ runs'[s].events = runs[s].events
                       /\ runs'[s].done = runs[s].done
                       /\ runs'[s].account = runs[s].account
                       /\ runs'[s].settled = (runs[s].settled \/ s = r)
                       /\ s # r => runs'[s] = runs[s]
  BY <1>1, <1>2 DEF RegistryTypeOK, RunState
<1>7. OneTerminalEvent'
  BY <1>6 DEF OutcomeInv, OneOutcome, OneTerminalEvent
<1>8. CompletionsOrdered' /\ SettledDone'
  <2>1. \A s \in RunId \ {r} : completions'[s] = completions[s]
    BY <1>2, <1>4 DEF RegistryTypeOK
  <2>2. completions'[r] \in {<<"error">>, <<"error", "late">>}
    BY <1>2, <1>3, <1>4 DEF RegistryTypeOK
  <2>3. completions'[r] \notin {<< >>, <<"result">>, <<"failed">>}
    BY <2>2
  <2>4. runs'[r].done /\ runs'[r].settled
    BY <1>6
  <2>5. \A s \in RunId \ {r} : /\ runs'[s].settled = runs[s].settled
                               /\ runs'[s].done = runs[s].done
                               /\ runs'[s].events = runs[s].events
    BY <1>6
  <2>6. CompletionsOrdered'
    BY <2>1, <2>2, <2>3, <2>4, <2>5 DEF OutcomeInv, OneOutcome, CompletionsOrdered
  <2>7. SettledDone'
    BY <2>1, <2>4, <2>5 DEF OutcomeInv, SettledDone
  <2>8. QED
    BY <2>6, <2>7
<1>9. UnstartedClean'
  BY <1>6 DEF OutcomeInv, UnstartedClean, Started
<1>10. QED
  BY <1>5, <1>7, <1>8, <1>9 DEF OutcomeInv, OneOutcome

\* Eviction only forgets the run.
LEMMA EvictOutcome ==
    ASSUME OutcomeInv, NEW r \in RunId, Evict(r)
    PROVE  OutcomeInv'
<1>1. RegistryTypeOK /\ runs[r] \in RunState
  BY DEF OutcomeInv, OneOutcome, RegistryTypeOK
<1>2. \A s \in RunId : /\ runs'[s].events = runs[s].events
                       /\ runs'[s].done = runs[s].done
                       /\ runs'[s].account = runs[s].account
                       /\ runs'[s].settled = runs[s].settled
                       /\ s # r => runs'[s] = runs[s]
  BY <1>1 DEF Evict, RegistryTypeOK, RunState
<1>3. RegistryTypeOK'
  BY <1>1 DEF Evict, RegistryTypeOK, RunState, streamVars
<1>4. Started(r)
  BY DEF OutcomeInv, UnstartedClean, Evict, Unstarted
<1>5. QED
  BY <1>2, <1>3, <1>4
     DEF OutcomeInv, OneOutcome, OneTerminalEvent, CompletionsOrdered, UnstartedClean, SettledDone,
         Started, Evict

\* subscribe() and a page that goes away leave the runs alone.
LEMMA ListenerOutcome ==
    ASSUME OutcomeInv, NEW l \in Listener,
           \/ \E r \in RunId, a \in Account : Subscribe(l, r, a)
           \/ Disconnect(l)
    PROVE  OutcomeInv'
<1>1. runs' = runs /\ completions' = completions
  BY DEF Subscribe, Disconnect
<1>2. RegistryTypeOK'
  <2>1. CASE \E r \in RunId, a \in Account : Subscribe(l, r, a)
    BY <2>1 DEF Subscribe, OutcomeInv, OneOutcome, RegistryTypeOK, RunState
  <2>2. CASE Disconnect(l)
    BY <2>2 DEF Disconnect, OutcomeInv, OneOutcome, RegistryTypeOK
  <2>3. QED
    BY <2>1, <2>2
<1>3. QED
  BY <1>1, <1>2
     DEF OutcomeInv, OneOutcome, OneTerminalEvent, CompletionsOrdered, UnstartedClean, SettledDone,
         Started

\* Every callback of the registry keeps the outcome of every run.
LEMMA StepOutcome == OutcomeInv /\ [RegistryNext]_registryVars => OutcomeInv'
<1> SUFFICES ASSUME OutcomeInv, [RegistryNext]_registryVars PROVE OutcomeInv'
  OBVIOUS
<1>1. ASSUME NEW r \in RunId, NEW a \in Account, StartRun(r, a) PROVE OutcomeInv'
  BY <1>1, StartOutcome
<1>2. ASSUME NEW r \in RunId, EmitStep(r) PROVE OutcomeInv'
  BY <1>2, EmitOutcome
<1>3. ASSUME NEW r \in RunId, RunnerReturns(r) \/ ReturnUnrecorded(r) PROVE OutcomeInv'
  BY <1>3, FirstFinish, LaterFinish DEF RunnerReturns, ReturnUnrecorded, Ends
<1>4. ASSUME NEW r \in RunId, RunnerThrows(r) PROVE OutcomeInv'
  BY <1>4, FirstFinish, LaterFinish DEF RunnerThrows, Ends
<1>5. ASSUME NEW r \in RunId, TimesOut(r) PROVE OutcomeInv'
  <2>1. runs[r].settled \in BOOLEAN
    BY DEF OutcomeInv, OneOutcome, RegistryTypeOK, RunState
  <2>2. QED
    BY <1>5, <2>1, FirstFinish DEF TimesOut, Ends
<1>6. ASSUME NEW r \in RunId, Evict(r) PROVE OutcomeInv'
  BY <1>6, EvictOutcome
<1>7. ASSUME NEW l \in Listener,
             (\E r \in RunId, a \in Account : Subscribe(l, r, a)) \/ Disconnect(l)
      PROVE  OutcomeInv'
  BY <1>7, ListenerOutcome
<1>8. CASE UNCHANGED registryVars
  BY <1>8 DEF registryVars, streamVars, OutcomeInv, OneOutcome, RegistryTypeOK, OneTerminalEvent,
              CompletionsOrdered, UnstartedClean, SettledDone, Started
<1>9. QED
  BY <1>1, <1>2, <1>3, <1>4, <1>5, <1>6, <1>7, <1>8 DEF RegistryNext

\* The invariant behind OneOutcome holds in every state of the registry.
LEMMA OutcomeInvariant == RegistrySpec => []OutcomeInv
BY InitOutcome, StepOutcome, PTL DEF RegistrySpec

\* A run ends once (finish's "completed"): one terminal event, the last of its
\* events, and the calls of onComplete that agree with it, although the runner of
\* a run that timed out settles later.
THEOREM RunHasOneOutcome == RegistrySpec => []OneOutcome
<1>1. OutcomeInv => OneOutcome
  BY DEF OutcomeInv
<1>2. QED
  BY <1>1, OutcomeInvariant, PTL

-----------------------------------------------------------------------------
(* Every stream follows its run.                                           *)

\* No stream is open before the first request.
LEMMA InitStream == RegistryInit => StreamInv
BY InitOutcome DEF RegistryInit, StreamInv, OutcomeInv, AttachedFollow, StreamFollowsRun

\* A prefix of a run's events stays one when the run gets another event.
LEMMA PrefixOfAppend ==
    ASSUME NEW s \in Seq(Event), NEW e \in Event, NEW n \in Nat, n <= Len(s)
    PROVE  n <= Len(Append(s, e)) /\ SubSeq(Append(s, e), 1, n) = SubSeq(s, 1, n)
<1>1. Append(s, e) = s \o <<e>> /\ Len(Append(s, e)) = Len(s) + 1
  BY AppendProperties, AppendIsConcat
<1>2. CASE n = 0
  BY <1>1, <1>2, SubSeqEmpty
<1>3. CASE n > 0
  <2>1. 1 \in 1..Len(s) /\ n \in 1..Len(s) /\ <<e>> \in Seq(Event)
    BY <1>3
  <2>2. SubSeq(s \o <<e>>, 1, n) = SubSeq(s, 1, n)
    BY ONLY <2>1, s \in Seq(Event), SubSeqOfConcat1
  <2>3. QED
    BY <1>1, <2>2
<1>4. QED
  BY <1>2, <1>3

\* #publish buffers the event and hands it to every stream of the run: the ones
\* that are attached stay level with it, the others keep the prefix they have.
LEMMA PublishStream ==
    ASSUME StreamInv, NEW r \in RunId, NEW e \in Event, NEW settled \in BOOLEAN,
           ~runs[r].done, Publish(r, e, settled)
    PROVE  AttachedFollow' /\ StreamFollowsRun'
<1>1. RegistryTypeOK /\ following' = following /\ attached' \subseteq attached
  BY DEF StreamInv, OneOutcome, Publish
<1>2. AttachedFollow'
  BY <1>1 DEF StreamInv, AttachedFollow
<1>3. SUFFICES ASSUME NEW l \in Listener, following[l] # NoRun
               PROVE  LET events == runs'[following[l]].events
                      IN  /\ Len(received'[l]) <= Len(events)
                          /\ received'[l] = SubSeq(events, 1, Len(received'[l]))
                          /\ l \in attached' => /\ received'[l] = events
                                                /\ ~runs'[following[l]].done
  BY <1>1, <1>2 DEF StreamFollowsRun
<1>4. following[l] \in RunId /\ received[l] \in Seq(Event) /\ runs[r].events \in Seq(Event)
  BY <1>1, <1>3 DEF RegistryTypeOK, RunState
<1>5. received'[l] = IF l \in ListenersOf(r) THEN Append(received[l], e) ELSE received[l]
  BY DEF Publish
<1>6. CASE following[l] # r
  <2>1. runs'[following[l]] = runs[following[l]]
    BY <1>1, <1>4, <1>6, Published
  <2>2. received'[l] = received[l]
    BY <1>5, <1>6 DEF ListenersOf
  <2>3. QED
    BY <1>1, <1>3, <2>1, <2>2 DEF StreamInv, StreamFollowsRun
<1>7. CASE following[l] = r /\ l \in attached
  <2>1. runs'[r].events = Append(runs[r].events, e) /\ runs'[r].done = (e # "step")
    BY <1>1, Published DEF RegistryTypeOK, RunState
  <2>2. received[l] = runs[r].events
    BY <1>3, <1>7 DEF StreamInv, StreamFollowsRun
  <2>3. received'[l] = Append(runs[r].events, e)
    BY <1>5, <1>7, <2>2 DEF ListenersOf
  <2>4. Append(runs[r].events, e) \in Seq(Event)
    BY <1>4
  <2>5. SubSeq(Append(runs[r].events, e), 1, Len(Append(runs[r].events, e)))
          = Append(runs[r].events, e)
    BY ONLY <2>4, SubSeqFull
  <2>6. l \in attached' => e = "step"
    BY <1>7 DEF Publish, ListenersOf
  <2>7. Len(Append(runs[r].events, e)) <= Len(Append(runs[r].events, e))
    BY <2>4
  <2>8. QED
    BY <1>7, <2>1, <2>3, <2>5, <2>6, <2>7
<1>8. CASE following[l] = r /\ l \notin attached
  <2>1. received'[l] = received[l] /\ l \notin attached'
    BY <1>1, <1>5, <1>8 DEF ListenersOf
  <2>2. runs'[r].events = Append(runs[r].events, e)
    BY <1>1, Published
  <2>3. /\ Len(received[l]) \in Nat /\ Len(received[l]) <= Len(runs[r].events)
        /\ received[l] = SubSeq(runs[r].events, 1, Len(received[l]))
    BY <1>3, <1>4, <1>8 DEF StreamInv, StreamFollowsRun
  <2>4. /\ Len(received[l]) <= Len(Append(runs[r].events, e))
        /\ SubSeq(Append(runs[r].events, e), 1, Len(received[l]))
             = SubSeq(runs[r].events, 1, Len(received[l]))
    BY <1>4, <2>3, PrefixOfAppend
  <2>5. QED
    BY <1>8, <2>1, <2>2, <2>3, <2>4
<1>9. QED
  BY <1>6, <1>7, <1>8

\* What a step that publishes nothing has to keep.
LEMMA QuietStream ==
    ASSUME StreamInv, streamVars' = streamVars,
           \A r \in RunId : runs'[r].events = runs[r].events /\ runs'[r].done = runs[r].done
    PROVE  AttachedFollow' /\ StreamFollowsRun'
<1>1. RegistryTypeOK /\ following' = following /\ attached' = attached /\ received' = received
  BY DEF StreamInv, OneOutcome, streamVars
<1>2. \A l \in Listener : following[l] # NoRun => following[l] \in RunId
  BY <1>1 DEF RegistryTypeOK
<1>3. QED
  BY <1>1, <1>2 DEF StreamInv, AttachedFollow, StreamFollowsRun

\* Both kinds of finish(): the first publishes, a later one only settles.
LEMMA FinishStream ==
    ASSUME StreamInv, NEW r \in RunId, NEW e \in Event, NEW c, NEW settled \in BOOLEAN,
           Finish(r, e, c, settled)
    PROVE  AttachedFollow' /\ StreamFollowsRun'
<1>1. CASE ~runs[r].done
  BY <1>1, PublishStream DEF Finish
<1>2. CASE runs[r].done
  <2>1. RegistryTypeOK
    BY DEF StreamInv, OneOutcome
  <2>2. runs' = [runs EXCEPT ![r].settled = settled] /\ streamVars' = streamVars
    BY <1>2 DEF Finish
  <2>3. \A s \in RunId : runs'[s].events = runs[s].events /\ runs'[s].done = runs[s].done
    BY <2>1, <2>2 DEF RegistryTypeOK, RunState
  <2>4. QED
    BY <2>2, <2>3, QuietStream
<1>3. QED
  BY <1>1, <1>2

\* subscribe() replays the buffer and stays only while the run goes on.
LEMMA SubscribeStream ==
    ASSUME StreamInv, NEW l \in Listener, NEW r \in RunId, NEW a \in Account,
           Subscribe(l, r, a)
    PROVE  AttachedFollow' /\ StreamFollowsRun'
<1>1. RegistryTypeOK /\ runs[r].events \in Seq(Event)
  BY DEF StreamInv, OneOutcome, RegistryTypeOK, RunState
<1>2. /\ runs' = runs
      /\ following' = [following EXCEPT ![l] = r]
      /\ received' = [received EXCEPT ![l] = runs[r].events]
      /\ attached' = IF runs[r].done THEN attached ELSE attached \cup {l}
      /\ following[l] = NoRun
  BY DEF Subscribe
<1>3. l \notin attached
  BY <1>2 DEF StreamInv, AttachedFollow
<1>4. /\ following'[l] = r /\ received'[l] = runs[r].events
      /\ l \in attached' => ~runs[r].done
      /\ \A m \in Listener \ {l} : /\ following'[m] = following[m]
                                   /\ received'[m] = received[m]
                                   /\ m \in attached' <=> m \in attached
  BY <1>1, <1>2, <1>3 DEF RegistryTypeOK
<1>5. SubSeq(runs[r].events, 1, Len(runs[r].events)) = runs[r].events
      /\ Len(runs[r].events) <= Len(runs[r].events)
  BY <1>1, SubSeqFull
<1>6. AttachedFollow'
  BY <1>1, <1>2, <1>3, <1>4, RegistryAssumption DEF StreamInv, AttachedFollow, RegistryTypeOK
<1>7. \A m \in Listener :
          following'[m] # NoRun =>
              LET events == runs[following'[m]].events
              IN  /\ Len(received'[m]) <= Len(events)
                  /\ received'[m] = SubSeq(events, 1, Len(received'[m]))
                  /\ m \in attached' => received'[m] = events /\ ~runs[following'[m]].done
  <2>1. SUFFICES ASSUME NEW m \in Listener, following'[m] # NoRun
                 PROVE  LET events == runs[following'[m]].events
                        IN  /\ Len(received'[m]) <= Len(events)
                            /\ received'[m] = SubSeq(events, 1, Len(received'[m]))
                            /\ m \in attached' => /\ received'[m] = events
                                                  /\ ~runs[following'[m]].done
    OBVIOUS
  <2>2. CASE m = l
    BY <1>4, <1>5, <2>2
  <2>3. CASE m # l
    BY <1>4, <2>1, <2>3 DEF StreamInv, StreamFollowsRun
  <2>4. QED
    BY <2>2, <2>3
<1>8. QED
  BY <1>2, <1>6, <1>7 DEF StreamFollowsRun

\* Every callback of the registry keeps every stream level with its run.
LEMMA StepStream ==
    OutcomeInv /\ OutcomeInv' /\ StreamInv /\ [RegistryNext]_registryVars => StreamInv'
<1> SUFFICES ASSUME OutcomeInv, OutcomeInv', StreamInv, [RegistryNext]_registryVars
             PROVE  AttachedFollow' /\ StreamFollowsRun'
  BY DEF OutcomeInv, StreamInv
<1>t. RegistryTypeOK
  BY DEF OutcomeInv, OneOutcome
<1>1. ASSUME NEW r \in RunId, NEW a \in Account, StartRun(r, a)
      PROVE  AttachedFollow' /\ StreamFollowsRun'
  <2>1. runs[r] = Unstarted
    BY <1>1 DEF OutcomeInv, UnstartedClean, StartRun
  <2>2. \A s \in RunId : runs'[s].events = runs[s].events /\ runs'[s].done = runs[s].done
    BY <1>1, <1>t, <2>1 DEF StartRun, RegistryTypeOK, RunState, Unstarted
  <2>3. QED
    BY <1>1, <2>2, QuietStream DEF StartRun
<1>2. ASSUME NEW r \in RunId, EmitStep(r) PROVE AttachedFollow' /\ StreamFollowsRun'
  BY <1>2, PublishStream DEF EmitStep, Event
<1>3. ASSUME NEW r \in RunId,
             RunnerReturns(r) \/ ReturnUnrecorded(r) \/ RunnerThrows(r) \/ TimesOut(r)
      PROVE  AttachedFollow' /\ StreamFollowsRun'
  <2>1. runs[r].settled \in BOOLEAN
    BY <1>t DEF RegistryTypeOK, RunState
  <2>2. QED
    BY <1>3, <2>1, FinishStream DEF RunnerReturns, ReturnUnrecorded, RunnerThrows, TimesOut, Event
<1>4. ASSUME NEW r \in RunId, Evict(r) PROVE AttachedFollow' /\ StreamFollowsRun'
  <2>1. \A s \in RunId : runs'[s].events = runs[s].events /\ runs'[s].done = runs[s].done
    BY <1>4, <1>t DEF Evict, RegistryTypeOK, RunState
  <2>2. QED
    BY <1>4, <2>1, QuietStream DEF Evict
<1>5. ASSUME NEW l \in Listener, NEW r \in RunId, NEW a \in Account, Subscribe(l, r, a)
      PROVE  AttachedFollow' /\ StreamFollowsRun'
  BY <1>5, SubscribeStream
<1>6. ASSUME NEW l \in Listener, Disconnect(l) PROVE AttachedFollow' /\ StreamFollowsRun'
  BY <1>6 DEF Disconnect, StreamInv, AttachedFollow, StreamFollowsRun
<1>7. CASE UNCHANGED registryVars
  BY <1>7, QuietStream DEF registryVars
<1>8. QED
  BY <1>1, <1>2, <1>3, <1>4, <1>5, <1>6, <1>7 DEF RegistryNext

\* The event stream of a run (subscribe, #publish, emit): whenever a page opens
\* it, it has received the run's events in order with no gap and no repeat, all of
\* them while it is attached, and it is not attached to a run that is done.
THEOREM StreamsFollowTheirRuns == RegistrySpec => []StreamFollowsRun
<1>1. RegistryInit /\ []OutcomeInv /\ [][RegistryNext]_registryVars => []StreamInv
  BY InitStream, StepStream, PTL
<1>2. StreamInv => StreamFollowsRun
  BY DEF StreamInv
<1>3. QED
  BY <1>1, <1>2, OutcomeInvariant, PTL DEF RegistrySpec

-----------------------------------------------------------------------------
(* What the registry's callbacks leave alone.                              *)

\* A run keeps its account, none becomes active without start(), and a runner
\* settles once.
RunsGoOn ==
    \A s \in RunId :
        /\ runs'[s].account = runs[s].account
        /\ runs'[s].kept /\ ~runs'[s].done => Active(s)
        /\ runs[s].settled => runs'[s].settled

\* finish(), called for a run that was started.
LEMMA FinishEffect ==
    ASSUME RegistryTypeOK, NEW r \in RunId, NEW e, NEW c, NEW settled, Ends(e, c, settled),
           Finish(r, e, c, settled), runs[r].settled => settled
    PROVE  RegistryTypeOK' /\ RunsGoOn /\ \A s \in RunId \ {r} : runs'[s] = runs[s]
<1>1. /\ e \in Event /\ c \in Completion /\ settled \in BOOLEAN /\ e # "step"
      /\ runs[r] \in RunState /\ "late" \in Completion /\ completions[r] \in Seq(Completion)
  BY DEF Ends, Event, Completion, RegistryTypeOK
<1>2. CASE ~runs[r].done
  <2>1. Publish(r, e, settled) /\ completions' = [completions EXCEPT ![r] = Append(@, c)]
    BY <1>2 DEF Finish
  <2>2. completions' \in [RunId -> Seq(Completion)]
    BY <1>1, <2>1 DEF RegistryTypeOK
  <2>3. RegistryTypeOK'
    BY <1>1, <2>1, <2>2, Published DEF RegistryTypeOK
  <2>4. RunsGoOn /\ \A s \in RunId \ {r} : runs'[s] = runs[s]
    BY <1>1, <2>1, Published DEF RunsGoOn, Active
  <2>5. QED
    BY <2>3, <2>4
<1>3. CASE runs[r].done
  <2>1. /\ runs' = [runs EXCEPT ![r].settled = settled] /\ UNCHANGED streamVars
        /\ completions' = IF e = "error" THEN completions
                          ELSE [completions EXCEPT ![r] = Append(@, "late")]
    BY <1>3 DEF Finish
  <2>2. completions' \in [RunId -> Seq(Completion)]
    BY <1>1, <2>1 DEF RegistryTypeOK
  <2>3. runs' \in [RunId -> RunState]
    BY <1>1, <2>1 DEF RegistryTypeOK, RunState
  <2>4. RegistryTypeOK'
    BY <2>1, <2>2, <2>3 DEF RegistryTypeOK, streamVars
  <2>5. RunsGoOn /\ \A s \in RunId \ {r} : runs'[s] = runs[s]
    BY <1>1, <2>1 DEF RunsGoOn, Active, RegistryTypeOK, RunState
  <2>6. QED
    BY <2>4, <2>5
<1>4. QED
  BY <1>2, <1>3

\* A runner that settles, a timer that fires, an eviction, or none of them.
LEMMA RegistryFrame ==
    ASSUME RegistryTypeOK, UnstartedClean, NEW r \in RunId,
           RunnerReturns(r) \/ RunnerThrows(r) \/ TimesOut(r) \/ Evict(r)
             \/ UNCHANGED registryVars
    PROVE  RegistryTypeOK' /\ UnstartedClean' /\ RunsGoOn
<1>1. CASE RunnerReturns(r) \/ RunnerThrows(r) \/ TimesOut(r)
  <2>1. runs[r].settled \in BOOLEAN /\ Started(r)
    BY <1>1 DEF RegistryTypeOK, RunState, RunnerReturns, RunnerThrows, TimesOut
  <2>2. RegistryTypeOK' /\ RunsGoOn /\ \A s \in RunId \ {r} : runs'[s] = runs[s]
    BY <1>1, <2>1, FinishEffect DEF RunnerReturns, RunnerThrows, TimesOut, Ends
  <2>3. QED
    BY <2>1, <2>2 DEF UnstartedClean, Started, RunsGoOn
<1>2. CASE Evict(r)
  <2>1. /\ runs[r] \in RunState /\ runs' = [runs EXCEPT ![r].kept = FALSE]
        /\ UNCHANGED <<completions, streamVars>> /\ Started(r)
    BY <1>2 DEF Evict, RegistryTypeOK, UnstartedClean, Unstarted
  <2>2. RegistryTypeOK'
    BY <2>1 DEF RegistryTypeOK, RunState, streamVars
  <2>3. RunsGoOn /\ \A s \in RunId \ {r} : runs'[s] = runs[s]
    BY <2>1 DEF RunsGoOn, Active, RegistryTypeOK, RunState
  <2>4. QED
    BY <2>1, <2>2, <2>3 DEF UnstartedClean, Started, RunsGoOn
<1>3. CASE UNCHANGED registryVars
  BY <1>3 DEF registryVars, streamVars, RegistryTypeOK, UnstartedClean, Started, RunsGoOn, Active
<1>4. QED
  BY <1>1, <1>2, <1>3

\* start() takes an unused run, which becomes active for its account.
LEMMA StartEffect ==
    ASSUME RegistryTypeOK, UnstartedClean, NEW r \in RunId, NEW a \in Account, StartRun(r, a)
    PROVE  /\ RegistryTypeOK' /\ UnstartedClean'
           /\ \A s \in RunId \ {r} : runs'[s] = runs[s]
           /\ runs'[r].account = a /\ runs'[r].kept /\ ~runs'[r].done
<1>1. runs' = [runs EXCEPT ![r] = [Unstarted EXCEPT !.account = a, !.kept = TRUE]]
      /\ UNCHANGED <<completions, following, attached, received>>
  BY DEF StartRun, streamVars
<1>2. RegistryTypeOK'
  <2>1. runs[r] = Unstarted /\ runs[r] \in RunState
    BY DEF UnstartedClean, StartRun, RegistryTypeOK
  <2>2. [Unstarted EXCEPT !.account = a, !.kept = TRUE] \in RunState
    BY <2>1 DEF RunState, Unstarted
  <2>3. QED
    BY <1>1, <2>2 DEF RegistryTypeOK
<1>3. /\ \A s \in RunId \ {r} : runs'[s] = runs[s]
      /\ runs'[r].account = a /\ runs'[r].kept /\ ~runs'[r].done
  BY <1>1 DEF RegistryTypeOK, Unstarted
<1>4. UnstartedClean'
  BY <1>3, RegistryAssumption DEF UnstartedClean, Started
<1>5. QED
  BY <1>2, <1>3, <1>4

\* A restart, in the words of both modules that model one: no run is active and no
\* runner at work after it.
LEMMA RestartFrame ==
    ASSUME RegistryTypeOK, UnstartedClean, UNCHANGED <<completions, streamVars>>,
           runs' = [r \in RunId |-> IF Started(r)
                                    THEN [runs[r] EXCEPT !.done = TRUE, !.kept = FALSE,
                                                         !.settled = TRUE]
                                    ELSE runs[r]]
    PROVE  RegistryTypeOK' /\ UnstartedClean' /\ RunsGoOn
<1>1. \A s \in RunId : runs[s] \in RunState
  BY DEF RegistryTypeOK
<1>2. \A s \in RunId : /\ runs'[s] \in RunState
                       /\ runs'[s].account = runs[s].account
                       /\ Started(s) => ~runs'[s].kept /\ runs'[s].settled
                       /\ ~Started(s) => runs'[s] = runs[s]
  BY <1>1 DEF RunState
<1>3. RegistryTypeOK'
  BY <1>2 DEF RegistryTypeOK, streamVars
<1>4. QED
  BY <1>2, <1>3 DEF UnstartedClean, Started, RunsGoOn, Active
=============================================================================

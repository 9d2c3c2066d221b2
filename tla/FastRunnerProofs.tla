-------------------------- MODULE FastRunnerProofs --------------------------
(***************************************************************************)
(* Theorems about FastRunner, for any runs, iterations and edits of the    *)
(* cookie file: a run places one batch and a real one only when it may,    *)
(* and the runs use the cache as MarkValueCache describes, so that its     *)
(* theorems hold of them.                                                  *)
(***************************************************************************)
EXTENDS FastRunner, SequenceTheorems, FiniteSetTheorems, TLAPS

\* A run is past its decision and was allowed to go on.
Decided == {"candidates", "starting_stream", "loop", "fetching", "analysis", "placing",
            "leaving", "mailing"}

Allowed(f) ==
    /\ f.run_day \/ f.forced
    /\ f.is_simulation = (~ f.near_noon \/ f.forced)

\* What the properties need of the type of a run.
RunShape ==
    [pc : PCs, forced : BOOLEAN, near_noon : BOOLEAN, run_day : BOOLEAN,
     is_simulation : BOOLEAN, cookies : Int, cookies_file_last_modtime : Int,
     is_cookies_surely_working : BOOLEAN, has_trading_ever_started : BOOLEAN,
     iterations : Int, refused : BOOLEAN]

Shapes ==
    /\ run \in [Runs -> RunShape]
    /\ cookies_file \in Int
    /\ batches \in Seq([run : Runs, is_simulation : BOOLEAN])

\* A run that waits to start has not traded; one that goes on was allowed to.
RunInv ==
    \A r \in Runs :
        /\ run[r].pc = "scheduled" => ~ run[r].has_trading_ever_started
        /\ run[r].pc \in Decided => Allowed(run[r])

\* A batch is of a run that remembers it.
BatchInv ==
    \A i \in DOMAIN batches : run[batches[i].run].has_trading_ever_started

IInv == Shapes /\ RunInv /\ BatchInv /\ OneBatchPerRun /\ LiveBatchesAllowed

-----------------------------------------------------------------------------
\* The batches are numbered, and each names its run.
LEMMA BatchesOfRuns ==
    ASSUME Shapes
    PROVE  /\ Len(batches) \in Nat
           /\ DOMAIN batches = 1..Len(batches)
           /\ \A i \in DOMAIN batches :
                 batches[i].run \in Runs /\ batches[i].is_simulation \in BOOLEAN
<1> DEFINE B == [run : Runs, is_simulation : BOOLEAN]
<1>1. batches \in Seq(B)
  BY DEF Shapes
<1>2. Len(batches) \in Nat /\ DOMAIN batches = 1..Len(batches)
  BY <1>1, LenProperties
<1>3. \A i \in DOMAIN batches : batches[i] \in B
  BY <1>1, <1>2, ElementOfSeq
<1> QED
  BY <1>2, <1>3

\* A run that goes on, without placing a batch and without a new decision.
LEMMA QuietStep ==
    ASSUME IInv, UNCHANGED batches, cookies_file' \in Int,
           NEW r \in Runs, NEW f \in RunShape,
           run' = [run EXCEPT ![r] = f],
           run[r].pc \in Decided, f.pc # "scheduled",
           f.forced = run[r].forced, f.near_noon = run[r].near_noon,
           f.run_day = run[r].run_day, f.is_simulation = run[r].is_simulation,
           f.has_trading_ever_started = run[r].has_trading_ever_started
    PROVE  IInv'
<1>1. Shapes'
  BY DEF IInv, Shapes
<1>2. \A q \in Runs : run'[q] = IF q = r THEN f ELSE run[q]
  BY DEF IInv, Shapes
<1>3. RunInv'
  BY <1>2 DEF IInv, RunInv, Allowed
<1>4. \A i \in DOMAIN batches : batches[i].run \in Runs
  BY BatchesOfRuns DEF IInv
<1>5. BatchInv'
  BY <1>2, <1>4 DEF IInv, BatchInv
<1>6. OneBatchPerRun'
  BY DEF IInv, OneBatchPerRun
<1>7. LiveBatchesAllowed'
  BY <1>2, <1>4 DEF IInv, LiveBatchesAllowed
<1> QED
  BY <1>1, <1>3, <1>5, <1>6, <1>7 DEF IInv

\* The first step of a run, which has placed nothing, makes or fails to make
\* the decision.
LEMMA FirstStep ==
    ASSUME IInv, UNCHANGED <<batches, cookies_file>>,
           NEW r \in Runs, NEW f \in RunShape,
           run' = [run EXCEPT ![r] = f],
           run[r].pc = "scheduled", f.pc # "scheduled",
           f.pc \in Decided => Allowed(f)
    PROVE  IInv'
<1>1. Shapes'
  BY DEF IInv, Shapes
<1>2. \A q \in Runs : run'[q] = IF q = r THEN f ELSE run[q]
  BY DEF IInv, Shapes
<1>3. RunInv'
  BY <1>2 DEF IInv, RunInv
<1>4. \A i \in DOMAIN batches : batches[i].run \in Runs /\ batches[i].run # r
  BY BatchesOfRuns DEF IInv, RunInv, BatchInv
<1>5. BatchInv'
  BY <1>2, <1>4 DEF IInv, BatchInv
<1>6. OneBatchPerRun'
  BY DEF IInv, OneBatchPerRun
<1>7. LiveBatchesAllowed'
  BY <1>2, <1>4 DEF IInv, LiveBatchesAllowed
<1> QED
  BY <1>1, <1>3, <1>5, <1>6, <1>7 DEF IInv

\* Trade() places a batch for a run that has placed none, or goes on.
LEMMA TradeStep ==
    ASSUME IInv, UNCHANGED cookies_file,
           NEW r \in Runs, NEW f \in RunShape, NEW events \in Published,
           run[r].pc \in Decided, f.pc \in Decided,
           f.forced = run[r].forced, f.near_noon = run[r].near_noon,
           f.run_day = run[r].run_day, f.is_simulation = run[r].is_simulation,
           f.has_trading_ever_started = run[r].has_trading_ever_started,
           Trade(r, f, events)
    PROVE  IInv'
<1>1. CASE events = "some" /\ ~ f.has_trading_ever_started
  <2> DEFINE g == [f EXCEPT !.pc = "placing", !.has_trading_ever_started = TRUE]
             b == [run |-> r, is_simulation |-> f.is_simulation]
  <2>1. run' = [run EXCEPT ![r] = g] /\ batches' = Append(batches, b)
    BY <1>1 DEF Trade
  <2>2. g \in RunShape /\ b \in [run : Runs, is_simulation : BOOLEAN]
    BY DEF RunShape, PCs
  <2>3. Shapes'
    BY <2>1, <2>2 DEF IInv, Shapes
  <2>4. \A q \in Runs : run'[q] = IF q = r THEN g ELSE run[q]
    BY <2>1 DEF IInv, Shapes
  <2> HIDE DEF b
  <2>5. /\ DOMAIN batches = 1..Len(batches) /\ DOMAIN batches' = 1..(Len(batches) + 1)
        /\ Len(batches) \in Nat
        /\ \A i \in DOMAIN batches : batches'[i] = batches[i]
        /\ batches'[Len(batches) + 1] = b
    BY <2>1, <2>2, BatchesOfRuns, AppendProperties DEF IInv, Shapes
  <2> USE DEF b
  <2>6. \A i \in DOMAIN batches : batches[i].run \in Runs /\ batches[i].run # r
    BY <1>1, BatchesOfRuns DEF IInv, BatchInv
  <2>7. \A i \in DOMAIN batches' :
           \/ i \in DOMAIN batches /\ batches'[i] = batches[i]
           \/ i = Len(batches) + 1 /\ batches'[i] = b
    BY <2>5
  <2>8. g.pc = "placing" /\ g.has_trading_ever_started /\ Allowed(g)
    BY DEF IInv, RunInv, Allowed, RunShape
  <2>9. RunInv'
    BY <2>4, <2>8 DEF IInv, RunInv
  <2>10. \A i \in DOMAIN batches' :
            \/ /\ i \in DOMAIN batches /\ batches'[i] = batches[i]
               /\ run'[batches'[i].run] = run[batches[i].run]
            \/ /\ batches'[i].is_simulation = g.is_simulation
               /\ run'[batches'[i].run] = g
    <3>1. b.run = r /\ b.is_simulation = g.is_simulation /\ run'[r] = g
      BY <2>4 DEF RunShape
    <3> HIDE DEF b, g
    <3> QED
      BY <2>4, <2>6, <2>7, <3>1
  <2>11. OneBatchPerRun'
    BY <2>6, <2>7 DEF IInv, OneBatchPerRun
  <2> HIDE DEF b, g
  <2>12. BatchInv'
    BY <2>8, <2>10 DEF IInv, BatchInv
  <2>13. LiveBatchesAllowed'
    <3>1. g.forced \in BOOLEAN /\ g.near_noon \in BOOLEAN
      BY <2>2 DEF RunShape
    <3> QED
      BY <2>8, <2>10, <3>1 DEF IInv, LiveBatchesAllowed, Allowed
  <2> QED
    BY <2>3, <2>9, <2>12, <2>11, <2>13 DEF IInv
<1>2. CASE ~ (events = "some" /\ ~ f.has_trading_ever_started)
  <2> DEFINE g == AfterIteration(f)
  <2>1. run' = [run EXCEPT ![r] = g] /\ UNCHANGED batches
    BY <1>2 DEF Trade
  <2>2. g \in RunShape /\ g.pc # "scheduled"
    BY DEF AfterIteration, RunShape, PCs
  <2>3. /\ g.forced = f.forced /\ g.near_noon = f.near_noon /\ g.run_day = f.run_day
        /\ g.is_simulation = f.is_simulation
        /\ g.has_trading_ever_started = f.has_trading_ever_started
    BY DEF AfterIteration, RunShape
  <2>4. cookies_file' \in Int
    BY DEF IInv, Shapes
  <2> HIDE DEF g
  <2> QED
    BY <2>1, <2>2, <2>3, <2>4, QuietStep
<1> QED
  BY <1>1, <1>2

-----------------------------------------------------------------------------
\* Every step of a run.
LEMMA RunStepKeepsIInv ==
    ASSUME IInv, NEW r \in Runs,
           \/ Starts(r) \/ InitPanics(r) \/ CandidatesMailed(r) \/ StartStream(r)
           \/ Iterate(r) \/ TimeUp(r) \/ Refused(r) \/ Answered(r) \/ AnalysisEnds(r)
           \/ Placed(r) \/ StopStream(r) \/ MailSent(r) \/ Panics(r)
    PROVE  IInv'
<1>1. run[r] \in RunShape /\ cookies_file \in Int /\ MaxEdits \in Int
  BY RunsAssumption DEF IInv, Shapes
<1>2. CASE Starts(r)
  <2>1. PICK forced, near_noon, run_day, mails \in BOOLEAN :
           /\ mails => r \in PqpRuns /\ (forced \/ ~ near_noon)
           /\ run' = [run EXCEPT ![r].forced = forced, ![r].near_noon = near_noon,
                                ![r].run_day = run_day,
                                ![r].is_simulation = Simulation(forced, near_noon),
                                ![r].pc = IF ~ run_day /\ ~ forced THEN "ended"
                                          ELSE IF mails THEN "candidates"
                                          ELSE "starting_stream"]
    BY <1>2, Zenon DEF Starts
  <2> DEFINE to == IF ~ run_day /\ ~ forced THEN "ended"
                   ELSE IF mails THEN "candidates"
                   ELSE "starting_stream"
             f == [run[r] EXCEPT
                     !.forced = forced, !.near_noon = near_noon, !.run_day = run_day,
                     !.is_simulation = Simulation(forced, near_noon), !.pc = to]
  <2>4. run' = [run EXCEPT ![r] = f]
    BY <1>1, <2>1 DEF IInv, Shapes
  <2>2. f \in RunShape /\ f.pc # "scheduled" /\ (f.pc \in Decided => Allowed(f))
    <3>1. /\ to \in {"ended", "candidates", "starting_stream"}
          /\ ~ run_day /\ ~ forced => to = "ended"
      OBVIOUS
    <3> HIDE DEF to
    <3>2. Simulation(forced, near_noon) \in BOOLEAN /\ to \in PCs
      BY <3>1 DEF Simulation, PCs
    <3>3. /\ f \in RunShape /\ f.pc = to
          /\ f.forced = forced /\ f.near_noon = near_noon /\ f.run_day = run_day
          /\ f.is_simulation = Simulation(forced, near_noon)
      BY <1>1, <3>2 DEF RunShape
    <3> HIDE DEF f
    <3> QED
      BY <3>1, <3>3 DEF Allowed, Simulation, Decided
  <2>3. run[r].pc = "scheduled" /\ UNCHANGED <<batches, cookies_file>>
    BY <1>2 DEF Starts
  <2> HIDE DEF f
  <2> QED
    BY <2>2, <2>3, <2>4, FirstStep
<1>3. CASE InitPanics(r)
  <2> DEFINE f == [run[r] EXCEPT !.pc = "panicked"]
  <2>1. f \in RunShape /\ f.pc \notin Decided /\ f.pc # "scheduled"
    BY <1>1 DEF RunShape, PCs, Decided
  <2>2. run' = [run EXCEPT ![r] = f]
    BY <1>3, <1>1 DEF InitPanics, IInv, Shapes
  <2>3. run[r].pc = "scheduled" /\ UNCHANGED <<batches, cookies_file>>
    BY <1>3 DEF InitPanics
  <2> HIDE DEF f
  <2> QED
    BY <2>1, <2>2, <2>3, FirstStep
<1>4. CASE \/ CandidatesMailed(r) \/ StartStream(r) \/ TimeUp(r)
            \/ StopStream(r) \/ MailSent(r) \/ Panics(r)
  <2>1. PICK pc \in PCs \ {"scheduled"} : run' = [run EXCEPT ![r].pc = pc]
    BY <1>4 DEF CandidatesMailed, StartStream, TimeUp, StopStream, MailSent, Panics, PCs
  <2> DEFINE f == [run[r] EXCEPT !.pc = pc]
  <2>2. /\ f \in RunShape /\ f.pc # "scheduled"
        /\ f.forced = run[r].forced /\ f.near_noon = run[r].near_noon
        /\ f.run_day = run[r].run_day /\ f.is_simulation = run[r].is_simulation
        /\ f.has_trading_ever_started = run[r].has_trading_ever_started
    BY <1>1 DEF RunShape, PCs
  <2>3. run' = [run EXCEPT ![r] = f]
    BY <1>1, <2>1 DEF IInv, Shapes
  <2>4. run[r].pc \in Decided /\ UNCHANGED batches /\ cookies_file' \in Int
    BY <1>1, <1>4 DEF CandidatesMailed, StartStream, TimeUp, StopStream, MailSent,
                      Panics, Decided
  <2> HIDE DEF f
  <2> QED
    BY <2>2, <2>3, <2>4, QuietStep
<1>5. CASE Iterate(r)
  <2>1. PICK read \in cookies_file..MaxEdits :
           /\ run' = [run EXCEPT ![r] =
                 [ForgetSurelyWorking(ensure_cookies_loaded(run[r], cookies_file, read))
                     EXCEPT !.pc = "fetching", !.iterations = @ + 1]]
           /\ cookies_file' = read
    BY <1>5 DEF Iterate
  <2> DEFINE e == ensure_cookies_loaded(run[r], cookies_file, read)
             d == ForgetSurelyWorking(e)
             n == d.iterations + 1
             f == [d EXCEPT !.pc = "fetching", !.iterations = n]
  <2>2. read \in Int
    BY <1>1
  <2>5. /\ e \in RunShape
        /\ e.forced = run[r].forced /\ e.near_noon = run[r].near_noon
        /\ e.run_day = run[r].run_day /\ e.is_simulation = run[r].is_simulation
        /\ e.has_trading_ever_started = run[r].has_trading_ever_started
    BY <1>1, <2>2 DEF RunShape, ensure_cookies_loaded
  <2> HIDE DEF e
  <2>6. /\ d \in RunShape
        /\ d.forced = run[r].forced /\ d.near_noon = run[r].near_noon
        /\ d.run_day = run[r].run_day /\ d.is_simulation = run[r].is_simulation
        /\ d.has_trading_ever_started = run[r].has_trading_ever_started
    BY <2>5 DEF RunShape, ForgetSurelyWorking
  <2>7. n \in Int
    BY <2>6 DEF RunShape
  <2> HIDE DEF d, n
  <2>3. /\ f \in RunShape /\ f.pc # "scheduled"
        /\ f.forced = run[r].forced /\ f.near_noon = run[r].near_noon
        /\ f.run_day = run[r].run_day /\ f.is_simulation = run[r].is_simulation
        /\ f.has_trading_ever_started = run[r].has_trading_ever_started
    BY <2>6, <2>7 DEF RunShape, PCs
  <2>4. run[r].pc \in Decided /\ UNCHANGED batches
    BY <1>5 DEF Iterate, Decided
  <2> HIDE DEF f
  <2> QED
    BY <2>1, <2>2, <2>3, <2>4, QuietStep DEF f, n, d, e
<1>6. CASE Refused(r)
  <2> DEFINE f == [run[r] EXCEPT !.refused = TRUE]
  <2>1. /\ f \in RunShape /\ f.pc = run[r].pc
        /\ f.forced = run[r].forced /\ f.near_noon = run[r].near_noon
        /\ f.run_day = run[r].run_day /\ f.is_simulation = run[r].is_simulation
        /\ f.has_trading_ever_started = run[r].has_trading_ever_started
    BY <1>1 DEF RunShape
  <2>2. Trade(r, f, "none") /\ UNCHANGED cookies_file
    BY <1>6 DEF Refused
  <2>3. run[r].pc \in Decided /\ "none" \in Published
    BY <1>6 DEF Refused, Decided, Published
  <2> HIDE DEF f
  <2> QED
    BY <2>1, <2>2, <2>3, TradeStep
<1>7. CASE Answered(r)
  <2>1. PICK content \in BOOLEAN, events \in Published :
           LET f == [run[r] EXCEPT !.refused = FALSE, !.is_cookies_surely_working = content]
           IN  IF r \in PqpRuns /\ events = "none"
                 THEN /\ run' = [run EXCEPT ![r] = [f EXCEPT !.pc = "analysis"]]
                      /\ UNCHANGED batches
                 ELSE Trade(r, f, events)
    BY <1>7 DEF Answered
  <2> DEFINE f == [run[r] EXCEPT !.refused = FALSE, !.is_cookies_surely_working = content]
             g == [f EXCEPT !.pc = "analysis"]
  <2>2. /\ f \in RunShape /\ f.pc = run[r].pc
        /\ f.forced = run[r].forced /\ f.near_noon = run[r].near_noon
        /\ f.run_day = run[r].run_day /\ f.is_simulation = run[r].is_simulation
        /\ f.has_trading_ever_started = run[r].has_trading_ever_started
    BY <1>1 DEF RunShape
  <2>3. /\ g \in RunShape /\ g.pc # "scheduled"
        /\ g.forced = run[r].forced /\ g.near_noon = run[r].near_noon
        /\ g.run_day = run[r].run_day /\ g.is_simulation = run[r].is_simulation
        /\ g.has_trading_ever_started = run[r].has_trading_ever_started
    BY <1>1 DEF RunShape, PCs
  <2>4. run[r].pc \in Decided /\ UNCHANGED cookies_file /\ cookies_file' \in Int
    BY <1>1, <1>7 DEF Answered, Decided
  <2>5. \/ run' = [run EXCEPT ![r] = g] /\ UNCHANGED batches
        \/ Trade(r, f, events)
    BY <2>1
  <2> HIDE DEF f, g
  <2>6. CASE run' = [run EXCEPT ![r] = g] /\ UNCHANGED batches
    BY <2>3, <2>4, <2>6, QuietStep
  <2>7. CASE Trade(r, f, events)
    BY <2>2, <2>4, <2>7, TradeStep
  <2> QED
    BY <2>5, <2>6, <2>7
<1>8. CASE AnalysisEnds(r)
  <2>1. PICK events \in Published : Trade(r, run[r], events)
    BY <1>8 DEF AnalysisEnds
  <2>2. run[r].pc \in Decided /\ UNCHANGED cookies_file
    BY <1>8 DEF AnalysisEnds, Decided
  <2> QED
    BY <1>1, <2>1, <2>2, TradeStep
<1>9. CASE Placed(r)
  <2> DEFINE f == AfterIteration(run[r])
  <2>1. /\ f \in RunShape /\ f.pc # "scheduled"
        /\ f.forced = run[r].forced /\ f.near_noon = run[r].near_noon
        /\ f.run_day = run[r].run_day /\ f.is_simulation = run[r].is_simulation
        /\ f.has_trading_ever_started = run[r].has_trading_ever_started
    BY <1>1 DEF RunShape, PCs, AfterIteration
  <2>2. /\ run' = [run EXCEPT ![r] = f] /\ UNCHANGED batches
        /\ run[r].pc \in Decided /\ cookies_file' \in Int
    BY <1>1, <1>9 DEF Placed, Decided
  <2> HIDE DEF f
  <2> QED
    BY <2>1, <2>2, QuietStep
<1> QED
  BY <1>2, <1>3, <1>4, <1>5, <1>6, <1>7, <1>8, <1>9

\* The steps of others leave runs and batches alone.
LEMMA OtherStepsKeepIInv ==
    ASSUME IInv, AdminEdits \/ StreamSteps \/ UNCHANGED vars
    PROVE  IInv'
<1>1. UNCHANGED <<run, batches>> /\ cookies_file' \in Int
  BY DEF IInv, Shapes, AdminEdits, StreamSteps, vars
<1> QED
  BY <1>1 DEF IInv, Shapes, RunInv, BatchInv, OneBatchPerRun, LiveBatchesAllowed

LEMMA InitIInv == Init => IInv
<1> SUFFICES ASSUME Init PROVE IInv
  OBVIOUS
<1>1. batches = <<>> /\ DOMAIN batches = {} /\ cookies_file = 0
  BY DEF Init
<1>2. run \in [Runs -> RunShape] /\ \A r \in Runs : run[r] = NewRun
  BY DEF Init, NewRun, RunShape, PCs, NoCookies
<1>3. Shapes
  BY <1>1, <1>2, EmptySeq DEF Shapes
<1>4. RunInv
  BY <1>2 DEF RunInv, NewRun, Decided
<1> QED
  BY <1>1, <1>3, <1>4 DEF IInv, BatchInv, OneBatchPerRun, LiveBatchesAllowed

\* The inductive invariant of the runs' decisions and batches.
THEOREM RunsInvariant == Spec => []IInv
<1>1. IInv /\ [Next]_vars => IInv'
  BY RunStepKeepsIInv, OtherStepsKeepIInv DEF Next
<1> QED
  BY InitIInv, <1>1, PTL DEF Spec

\* A run hands its orders to place_orders() at most once, however often its
\* loop finds them.
THEOREM OrdersHandedOnce == Spec => []OneBatchPerRun
  BY RunsInvariant, PTL DEF IInv

\* Real orders come only from an unforced run near noon on a run day.
THEOREM RealOrdersAllowed == Spec => []LiveBatchesAllowed
  BY RunsInvariant, PTL DEF IInv

-----------------------------------------------------------------------------
\* The runs use the mark value cache as MarkValueCache has its callers do:
\* with them as callers, FastRunner implements it.
THEOREM RunsAreCallers == Spec => Cache!Spec
<1>1. Init => Cache!Init
  BY DEF Init
<1>2. [Next]_vars => [Cache!Next]_(Cache!vars)
  <2> SUFFICES ASSUME [Next]_vars PROVE [Cache!Next]_(Cache!vars)
    OBVIOUS
  <2>1. ASSUME NEW r \in Runs,
               \/ Starts(r) \/ InitPanics(r) \/ CandidatesMailed(r) \/ Iterate(r)
               \/ TimeUp(r) \/ Refused(r) \/ Answered(r) \/ AnalysisEnds(r)
               \/ Placed(r) \/ MailSent(r)
        PROVE  UNCHANGED Cache!vars
    BY <2>1 DEF Starts, InitPanics, CandidatesMailed, Iterate, TimeUp, Refused, Answered,
                AnalysisEnds, Placed, MailSent, cacheVars, Cache!vars
  <2>2. ASSUME NEW r \in Runs, StartStream(r) \/ StopStream(r) \/ Panics(r)
        PROVE  Cache!Next
    BY <2>2 DEF StartStream, StopStream, Panics, Cache!Next
  <2>3. ASSUME AdminEdits \/ UNCHANGED vars
        PROVE  UNCHANGED Cache!vars
    BY <2>3 DEF AdminEdits, vars, cacheVars, Cache!vars
  <2>4. ASSUME StreamSteps
        PROVE  Cache!Next
    BY <2>4 DEF StreamSteps, Cache!Next
  <2> QED
    BY <2>1, <2>2, <2>3, <2>4 DEF Next
<1> QED
  BY <1>1, <1>2, PTL DEF Spec, Cache!Spec

-----------------------------------------------------------------------------
\* The theorems of MarkValueCache, of these runs.  Its definitions come in
\* twice, as Cache's and as CacheFacts'.
CacheFacts == INSTANCE MarkValueCacheProofs WITH Callers <- Runs

LEMMA CacheFactsApply ==
    /\ CacheFacts!StreamAssumption /\ CacheFacts!PriceAssumption
    /\ CacheFacts!FlagAssumption /\ CacheFacts!CallersAssumption
    /\ CacheFacts!MaxUsersAssumption
<1>1. /\ CacheFacts!StreamAssumption /\ CacheFacts!PriceAssumption
      /\ CacheFacts!FlagAssumption
  BY CacheAssumption DEF CacheFacts!StreamAssumption, CacheFacts!PriceAssumption,
                         CacheFacts!FlagAssumption
<1>2. CacheFacts!CallersAssumption /\ CacheFacts!MaxUsersAssumption
  BY CacheAssumption DEF CacheFacts!CallersAssumption, CacheFacts!MaxUsersAssumption,
                         CacheFacts!IsFiniteSet, IsFiniteSet,
                         CacheFacts!Cardinality, Cardinality
<1> QED
  BY <1>1, <1>2

LEMMA RunsAreCallersOfFacts == Spec => CacheFacts!Spec
<1>1. Init => CacheFacts!Init
  BY DEF Init, Cache!Init, CacheFacts!Init
<1>2. [Cache!Next]_(Cache!vars) => [CacheFacts!Next]_(CacheFacts!vars)
  <2>1. ASSUME NEW c \in Runs, Cache!start_quote_stream(c)
        PROVE  CacheFacts!start_quote_stream(c)
    BY <2>1 DEF Cache!start_quote_stream, CacheFacts!start_quote_stream,
                Cache!JoinRunningStream, CacheFacts!JoinRunningStream,
                Cache!SpawnStream, CacheFacts!SpawnStream,
                Cache!RollBackUser, CacheFacts!RollBackUser,
                Cache!DropHandle, CacheFacts!DropHandle,
                Cache!SaturatingAdd, CacheFacts!SaturatingAdd,
                Cache!SaturatingSub, CacheFacts!SaturatingSub,
                Cache!is_quote_stream_running, CacheFacts!is_quote_stream_running
  <2>2. ASSUME NEW c \in Runs, Cache!stop_quote_stream(c)
        PROVE  CacheFacts!stop_quote_stream(c)
    BY <2>2 DEF Cache!stop_quote_stream, CacheFacts!stop_quote_stream,
                Cache!StopWithoutUsers, CacheFacts!StopWithoutUsers,
                Cache!ReleaseUser, CacheFacts!ReleaseUser,
                Cache!ReleaseLastUser, CacheFacts!ReleaseLastUser,
                Cache!AbortTask, CacheFacts!AbortTask
  <2>3. ASSUME NEW c \in Runs, Cache!RunPanics(c)
        PROVE  CacheFacts!RunPanics(c)
    BY <2>3 DEF Cache!RunPanics, CacheFacts!RunPanics
  <2>4. ASSUME NEW s \in StreamIds, Cache!StreamReceives(s) \/ Cache!StreamEnds(s)
        PROVE  CacheFacts!StreamReceives(s) \/ CacheFacts!StreamEnds(s)
    BY <2>4 DEF Cache!StreamReceives, CacheFacts!StreamReceives,
                Cache!StreamEnds, CacheFacts!StreamEnds
  <2>5. Cache!Next => CacheFacts!Next
    BY <2>1, <2>2, <2>3, <2>4 DEF Cache!Next, CacheFacts!Next
  <2>6. UNCHANGED Cache!vars => UNCHANGED CacheFacts!vars
    BY DEF Cache!vars, CacheFacts!vars
  <2> QED
    BY <2>5, <2>6
<1> QED
  BY RunsAreCallers, <1>1, <1>2, PTL DEF Spec, Cache!Spec, CacheFacts!Spec

\* The runs, as they really call it, never leave the cache with a second
\* stream or with one that has no users.
THEOREM RunsShareOneStream == Spec => []OneSharedStream
<1>1. CacheFacts!Spec => []CacheFacts!OneStream
  BY CacheFacts!StreamIsUnique, CacheFactsApply
<1>2. CacheFacts!Spec => []CacheFacts!NoStreamWithoutUsers
  BY CacheFacts!LastStopEndsStream, CacheFactsApply
<1>3. CacheFacts!OneStream /\ CacheFacts!NoStreamWithoutUsers => OneSharedStream
  BY DEF OneSharedStream, CacheFacts!OneStream, Cache!OneStream,
         CacheFacts!NoStreamWithoutUsers, Cache!NoStreamWithoutUsers
<1> QED
  BY RunsAreCallersOfFacts, <1>1, <1>2, <1>3, PTL

\* The count of the cache never exceeds the runs that owe it a stop.
THEOREM RunsOweTheirUsers == Spec => []UsersOwed
<1>1. CacheFacts!Spec => []CacheFacts!IInv
  BY CacheFacts!CacheInvariant, CacheFactsApply
<1>2. CacheFacts!IInv => UsersOwed
  <2>1. CacheFacts!Holders = Cache!Holders
    BY DEF CacheFacts!Holders, Cache!Holders
  <2>2. CacheFacts!UsersNeverOvercounted <=> Cache!UsersNeverOvercounted
    BY <2>1 DEF CacheFacts!UsersNeverOvercounted, Cache!UsersNeverOvercounted,
                CacheFacts!Cardinality, Cache!Cardinality
  <2> QED
    BY <2>2 DEF UsersOwed, CacheFacts!IInv
<1> QED
  BY RunsAreCallersOfFacts, <1>1, <1>2, PTL

-----------------------------------------------------------------------------
\* A run that takes its cookies for working has some; it never does so behind
\* a refusal, nor while it waits for a page.
SoundCookies(f) ==
    /\ f \in RunType
    /\ f.pc \in {"fetching", "analysis", "placing"} => f.cookies # NoCookies
    /\ f.cookies_file_last_modtime <= f.cookies
    /\ f.is_cookies_surely_working => f.cookies # NoCookies
    /\ f.refused \/ f.pc = "fetching" => ~ f.is_cookies_surely_working

CookiesInv ==
    /\ cookies_file \in 0..MaxEdits
    /\ run \in [Runs -> RunType]
    /\ \A r \in Runs : SoundCookies(run[r])

\* What an iteration remembers before its request: cookies at least as new as
\* the file was, unless they are taken for working.
LEMMA CookiesLoaded ==
    ASSUME NEW f, SoundCookies(f), f.pc = "loop",
           cookies_file \in 0..MaxEdits, NEW read \in cookies_file..MaxEdits,
           f.iterations < MaxIterations
    PROVE  LET e == ForgetSurelyWorking(ensure_cookies_loaded(f, cookies_file, read))
               g == [e EXCEPT !.pc = "fetching", !.iterations = @ + 1]
           IN  /\ SoundCookies(g)
               /\ f.refused => g.cookies >= cookies_file
<1> DEFINE d == ensure_cookies_loaded(f, cookies_file, read)
           e == ForgetSurelyWorking(d)
           n == e.iterations + 1
           g == [e EXCEPT !.pc = "fetching", !.iterations = n]
<1>1. MaxEdits \in Nat /\ MaxIterations \in Nat /\ read \in 0..MaxEdits
  BY RunsAssumption
<1>2. /\ d \in RunType /\ d.iterations = f.iterations
      /\ d.cookies # NoCookies /\ d.cookies_file_last_modtime <= d.cookies
      /\ f.refused => d.cookies >= cookies_file
  <2>1. f \in RunType /\ f.cookies_file_last_modtime <= f.cookies
    BY DEF SoundCookies
  <2>2. CASE f.is_cookies_surely_working
    BY <2>1, <2>2 DEF SoundCookies, ensure_cookies_loaded
  <2>3. CASE /\ ~ f.is_cookies_surely_working
             /\ f.cookies # NoCookies /\ f.cookies_file_last_modtime = cookies_file
    <3>1. f.cookies \in Int /\ cookies_file \in Int
      BY <1>1, <2>1 DEF RunType, NoCookies
    <3> QED
      BY <2>1, <2>3, <3>1 DEF ensure_cookies_loaded
  <2>4. CASE /\ ~ f.is_cookies_surely_working
             /\ ~ (f.cookies # NoCookies /\ f.cookies_file_last_modtime = cookies_file)
    <3>1. d = [f EXCEPT !.cookies = read, !.cookies_file_last_modtime = cookies_file]
      BY <2>4 DEF ensure_cookies_loaded
    <3>2. read >= cookies_file /\ read # NoCookies
      BY <1>1 DEF NoCookies
    <3> QED
      BY <1>1, <2>1, <3>1, <3>2 DEF RunType
  <2> QED
    BY <2>2, <2>3, <2>4
<1> HIDE DEF d
<1>3. /\ e \in RunType /\ e.iterations = f.iterations
      /\ e.cookies = d.cookies
      /\ e.cookies_file_last_modtime = d.cookies_file_last_modtime
      /\ ~ e.is_cookies_surely_working
  BY <1>2 DEF ForgetSurelyWorking, RunType
<1> HIDE DEF e
<1>4. n \in 0..MaxIterations
  BY <1>1, <1>3 DEF SoundCookies, RunType
<1> HIDE DEF n
<1>5. /\ g \in RunType
      /\ g.cookies = d.cookies
      /\ g.cookies_file_last_modtime = d.cookies_file_last_modtime
      /\ ~ g.is_cookies_surely_working
  BY <1>3, <1>4 DEF RunType, PCs
<1>6. SoundCookies(g) /\ (f.refused => g.cookies >= cookies_file)
  BY <1>2, <1>5 DEF SoundCookies
<1> QED
  BY <1>6 DEF g, n, e, d

\* What a step must not do to the cookies of a refused run.
Rereads ==
    \A r \in Runs :
        run[r].refused /\ run'[r].iterations > run[r].iterations
            => run'[r].cookies >= cookies_file

\* One run goes on, with other cookies or the same.
LEMMA SoundStep ==
    ASSUME CookiesInv, NEW r \in Runs, NEW f, SoundCookies(f),
           run' = [run EXCEPT ![r] = f], cookies_file' \in 0..MaxEdits,
           f.iterations = run[r].iterations \/ (run[r].refused => f.cookies >= cookies_file)
    PROVE  CookiesInv' /\ Rereads
<1>1. f \in RunType
  BY DEF SoundCookies
<1>2. run' \in [Runs -> RunType] /\ \A q \in Runs : run'[q] = IF q = r THEN f ELSE run[q]
  BY <1>1 DEF CookiesInv
<1>3. \A q \in Runs : SoundCookies(run'[q])
  BY <1>2 DEF CookiesInv
<1>4. CookiesInv'
  BY <1>2, <1>3 DEF CookiesInv, SoundCookies
<1>5. \A q \in Runs : run[q].iterations \in Int
  BY RunsAssumption DEF CookiesInv, RunType
<1>6. Rereads
  BY <1>2, <1>5 DEF Rereads
<1> QED
  BY <1>4, <1>6

\* Trade() changes nothing of the cookies.
LEMMA SoundTrade ==
    ASSUME CookiesInv, UNCHANGED cookies_file, NEW r \in Runs,
           NEW f \in RunType, f.iterations = run[r].iterations,
           f.cookies # NoCookies, f.cookies_file_last_modtime <= f.cookies,
           f.refused => ~ f.is_cookies_surely_working, NEW events,
           Trade(r, f, events)
    PROVE  CookiesInv' /\ Rereads
<1> DEFINE g == [f EXCEPT !.pc = "placing", !.has_trading_ever_started = TRUE]
           h == AfterIteration(f)
<1>1. SoundCookies(g) /\ SoundCookies(h)
  BY DEF SoundCookies, AfterIteration, RunType, PCs
<1>2. g.iterations = f.iterations /\ h.iterations = f.iterations
  BY DEF SoundCookies, AfterIteration, RunType
<1>3. run' = [run EXCEPT ![r] = g] \/ run' = [run EXCEPT ![r] = h]
  BY DEF Trade
<1>4. cookies_file' \in 0..MaxEdits
  BY DEF CookiesInv
<1> HIDE DEF g, h
<1> QED
  BY <1>1, <1>2, <1>3, <1>4, SoundStep

LEMMA RunStepKeepsCookies ==
    ASSUME CookiesInv, NEW r \in Runs,
           \/ Starts(r) \/ InitPanics(r) \/ CandidatesMailed(r) \/ StartStream(r)
           \/ Iterate(r) \/ TimeUp(r) \/ Refused(r) \/ Answered(r) \/ AnalysisEnds(r)
           \/ Placed(r) \/ StopStream(r) \/ MailSent(r) \/ Panics(r)
    PROVE  CookiesInv' /\ Rereads
<1>1. SoundCookies(run[r]) /\ run[r] \in RunType /\ cookies_file \in 0..MaxEdits
  BY DEF CookiesInv
<1>2. CASE Starts(r)
  <2>1. PICK forced, near_noon, run_day, mails \in BOOLEAN :
           /\ mails => r \in PqpRuns /\ (forced \/ ~ near_noon)
           /\ run' = [run EXCEPT ![r].forced = forced, ![r].near_noon = near_noon,
                                ![r].run_day = run_day,
                                ![r].is_simulation = Simulation(forced, near_noon),
                                ![r].pc = IF ~ run_day /\ ~ forced THEN "ended"
                                          ELSE IF mails THEN "candidates"
                                          ELSE "starting_stream"]
    BY <1>2, Zenon DEF Starts
  <2> DEFINE simulation == Simulation(forced, near_noon)
             pc == IF ~ run_day /\ ~ forced THEN "ended"
                   ELSE IF mails THEN "candidates" ELSE "starting_stream"
             f == [run[r] EXCEPT !.forced = forced, !.near_noon = near_noon,
                                 !.run_day = run_day, !.is_simulation = simulation,
                                 !.pc = pc]
  <2>2. simulation \in BOOLEAN /\ pc \in {"ended", "candidates", "starting_stream"}
    BY DEF Simulation
  <2>3. run' = [run EXCEPT ![r] = f]
    BY <1>1, <2>1 DEF CookiesInv
  <2> HIDE DEF simulation, pc
  <2>4. SoundCookies(f) /\ f.iterations = run[r].iterations
    <3>1. /\ f.pc = pc /\ f.cookies = run[r].cookies
          /\ f.cookies_file_last_modtime = run[r].cookies_file_last_modtime
          /\ f.is_cookies_surely_working = run[r].is_cookies_surely_working
          /\ f.refused = run[r].refused /\ f.iterations = run[r].iterations
      BY <1>1 DEF RunType
    <3>2. f \in RunType
      BY <1>1, <2>2 DEF RunType, PCs
    <3> HIDE DEF f
    <3> QED
      BY <1>1, <2>2, <3>1, <3>2 DEF SoundCookies
  <2>5. cookies_file' \in 0..MaxEdits
    BY <1>1, <1>2 DEF Starts
  <2> HIDE DEF f
  <2> QED
    BY <2>3, <2>4, <2>5, SoundStep
<1>3. CASE \/ InitPanics(r) \/ CandidatesMailed(r) \/ StartStream(r) \/ TimeUp(r)
           \/ StopStream(r) \/ MailSent(r) \/ Panics(r)
  <2>1. PICK pc \in PCs \ {"fetching", "analysis", "placing"} :
           run' = [run EXCEPT ![r].pc = pc]
    BY <1>3 DEF InitPanics, CandidatesMailed, StartStream, TimeUp, StopStream, MailSent,
                Panics, PCs
  <2> DEFINE f == [run[r] EXCEPT !.pc = pc]
  <2>2. SoundCookies(f) /\ f.iterations = run[r].iterations
    BY <1>1 DEF SoundCookies, RunType, PCs
  <2>3. run' = [run EXCEPT ![r] = f]
    BY <1>1, <2>1 DEF CookiesInv
  <2>4. cookies_file' \in 0..MaxEdits
    BY <1>1, <1>3 DEF InitPanics, CandidatesMailed, StartStream, TimeUp, StopStream,
                      MailSent, Panics
  <2> HIDE DEF f
  <2> QED
    BY <2>2, <2>3, <2>4, SoundStep
<1>4. CASE Iterate(r)
  <2>1. PICK read \in cookies_file..MaxEdits :
           /\ run' = [run EXCEPT ![r] =
                 [ForgetSurelyWorking(ensure_cookies_loaded(run[r], cookies_file, read))
                     EXCEPT !.pc = "fetching", !.iterations = @ + 1]]
           /\ cookies_file' = read
    BY <1>4 DEF Iterate
  <2> DEFINE e == ForgetSurelyWorking(ensure_cookies_loaded(run[r], cookies_file, read))
             f == [e EXCEPT !.pc = "fetching", !.iterations = @ + 1]
  <2>2. SoundCookies(f) /\ (run[r].refused => f.cookies >= cookies_file)
    BY <1>1, <1>4, CookiesLoaded DEF Iterate
  <2>3. run' = [run EXCEPT ![r] = f]
    BY <2>1
  <2>4. cookies_file' \in 0..MaxEdits
    BY <1>1, <2>1, RunsAssumption
  <2> HIDE DEF f
  <2> QED
    BY <2>2, <2>3, <2>4, SoundStep
<1>5. CASE Refused(r)
  <2> DEFINE f == [run[r] EXCEPT !.refused = TRUE]
  <2>1. /\ f \in RunType /\ f.iterations = run[r].iterations
        /\ f.cookies # NoCookies /\ f.cookies_file_last_modtime <= f.cookies
        /\ ~ f.is_cookies_surely_working
    BY <1>1, <1>5 DEF Refused, SoundCookies, RunType
  <2>2. Trade(r, f, "none") /\ UNCHANGED cookies_file
    BY <1>5 DEF Refused
  <2> HIDE DEF f
  <2> QED
    BY <2>1, <2>2, SoundTrade
<1>6. CASE Answered(r)
  <2>1. PICK content \in BOOLEAN, events \in Published :
           LET f == [run[r] EXCEPT !.refused = FALSE, !.is_cookies_surely_working = content]
           IN  IF r \in PqpRuns /\ events = "none"
                 THEN /\ run' = [run EXCEPT ![r] = [f EXCEPT !.pc = "analysis"]]
                      /\ UNCHANGED batches
                 ELSE Trade(r, f, events)
    BY <1>6 DEF Answered
  <2> DEFINE f == [run[r] EXCEPT !.refused = FALSE, !.is_cookies_surely_working = content]
             g == [f EXCEPT !.pc = "analysis"]
  <2>2. run[r].pc = "fetching" /\ UNCHANGED cookies_file
    BY <1>6 DEF Answered
  <2>3. /\ f \in RunType /\ f.iterations = run[r].iterations
        /\ f.cookies # NoCookies /\ f.cookies_file_last_modtime <= f.cookies
        /\ ~ f.refused
    BY <1>1, <2>2 DEF SoundCookies, RunType
  <2>4. SoundCookies(g) /\ g.iterations = run[r].iterations
    BY <2>3 DEF SoundCookies, RunType, PCs
  <2>5. run' = [run EXCEPT ![r] = g] \/ Trade(r, f, events)
    BY <2>1
  <2>6. cookies_file' \in 0..MaxEdits
    BY <1>1, <2>2
  <2> HIDE DEF f, g
  <2>7. CASE run' = [run EXCEPT ![r] = g]
    BY <2>4, <2>6, <2>7, SoundStep
  <2>8. CASE Trade(r, f, events)
    BY <2>2, <2>3, <2>8, SoundTrade
  <2> QED
    BY <2>5, <2>7, <2>8
<1>7. CASE AnalysisEnds(r)
  <2>1. PICK events \in Published : Trade(r, run[r], events)
    BY <1>7 DEF AnalysisEnds
  <2>2. UNCHANGED cookies_file /\ run[r].cookies # NoCookies
    BY <1>1, <1>7 DEF AnalysisEnds, SoundCookies
  <2> QED
    BY <1>1, <2>1, <2>2, SoundTrade DEF SoundCookies
<1>8. CASE Placed(r)
  <2> DEFINE f == AfterIteration(run[r])
  <2>1. SoundCookies(f) /\ f.iterations = run[r].iterations
    BY <1>1 DEF AfterIteration, SoundCookies, RunType, PCs
  <2>2. run' = [run EXCEPT ![r] = f] /\ cookies_file' \in 0..MaxEdits
    BY <1>1, <1>8 DEF Placed
  <2> HIDE DEF f
  <2> QED
    BY <2>1, <2>2, SoundStep
<1> QED
  BY <1>2, <1>3, <1>4, <1>5, <1>6, <1>7, <1>8

LEMMA StepKeepsCookies ==
    ASSUME CookiesInv, [Next]_vars
    PROVE  CookiesInv' /\ Rereads
<1>1. CASE AdminEdits \/ StreamSteps \/ UNCHANGED vars
  <2>1. run' = run /\ cookies_file' \in 0..MaxEdits
    BY <1>1, RunsAssumption DEF CookiesInv, AdminEdits, StreamSteps, vars
  <2>2. \A q \in Runs : run[q].iterations \in Int
    BY RunsAssumption DEF CookiesInv, RunType
  <2> QED
    BY <2>1, <2>2 DEF CookiesInv, SoundCookies, Rereads
<1> QED
  BY <1>1, RunStepKeepsCookies DEF Next

\* The inductive invariant of the runs' cookies.
THEOREM CookiesInvariant == Spec => []CookiesInv
<1>1. Init => CookiesInv
  <2> SUFFICES ASSUME Init PROVE CookiesInv
    OBVIOUS
  <2>1. NewRun \in RunType /\ SoundCookies(NewRun)
    BY RunsAssumption DEF NewRun, RunType, PCs, NoCookies, SoundCookies
  <2> QED
    BY <2>1, RunsAssumption DEF Init, CookiesInv
<1> QED
  BY <1>1, StepKeepsCookies, PTL DEF Spec

\* Behind a refusal a run asks again with cookies at least as new as the file
\* was when the iteration began.
THEOREM RefusedRunsReread == Spec => RefusalRereadsCookies
<1>1. CookiesInv /\ [Next]_vars => [Rereads]_vars
  BY StepKeepsCookies
<1>2. Rereads <=> \A r \in Runs :
          run[r].refused /\ run'[r].iterations > run[r].iterations
             => run'[r].cookies >= cookies_file
  BY DEF Rereads
<1> QED
  BY CookiesInvariant, <1>1, <1>2, PTL DEF Spec, RefusalRereadsCookies

\* Cookies are loaded where the code expects them, and every variable keeps
\* its type.
THEOREM RunsTypeCorrect == Spec => []TypeOK
<1>1. CacheFacts!Spec => []CacheFacts!TypeOK
  BY CacheFacts!TypeCorrect, CacheFactsApply
<1>2. CacheFacts!TypeOK => Cache!TypeOK
  BY DEF CacheFacts!TypeOK, Cache!TypeOK, CacheFacts!CallerStates, Cache!CallerStates
<1>3. CookiesInv /\ IInv /\ Cache!TypeOK => TypeOK
  BY DEF CookiesInv, SoundCookies, IInv, Shapes, TypeOK
<1> QED
  BY RunsAreCallersOfFacts, CookiesInvariant, RunsInvariant, <1>1, <1>2, <1>3, PTL

-----------------------------------------------------------------------------
\* A run is a caller of the cache between its start and its stop only.
OutsideStream == {"scheduled", "candidates", "starting_stream", "mailing", "ended"}

CallersInv ==
    /\ caller \in [Runs -> Cache!CallerStates]
    /\ \A r \in Runs : run[r].pc \in OutsideStream => caller[r] = "idle"

\* Whatever Trade decides, the run is still to stop its stream.
LEMMA TradeStaysInside ==
    ASSUME CookiesInv, NEW r \in Runs, NEW f \in RunType, NEW events, Trade(r, f, events)
    PROVE  run'[r].pc \notin OutsideStream
<1>1. CASE run' = [run EXCEPT ![r] = AfterIteration(f)]
  <2>1. run'[r] = AfterIteration(f)
    BY <1>1 DEF CookiesInv
  <2>2. AfterIteration(f).pc \in {"leaving", "loop"}
    BY DEF AfterIteration, RunType
  <2> QED
    BY <2>1, <2>2 DEF OutsideStream
<1>2. CASE run' = [run EXCEPT ![r] = [f EXCEPT !.pc = "placing",
                                               !.has_trading_ever_started = TRUE]]
  BY <1>2 DEF CookiesInv, RunType, OutsideStream
<1> QED
  BY <1>1, <1>2 DEF Trade

LEMMA StepKeepsCallers ==
    ASSUME CookiesInv, CallersInv, [Next]_vars
    PROVE  CallersInv'
<1>1. ASSUME NEW r \in Runs, NEW pc, NEW state \in Cache!CallerStates,
             run' \in [Runs -> RunType],
             \A q \in Runs \ {r} : run'[q] = run[q],
             run'[r].pc = pc, pc \in OutsideStream => state = "idle",
             caller' = [caller EXCEPT ![r] = state]
      PROVE  CallersInv'
  BY <1>1 DEF CallersInv
<1>2. run' \in [Runs -> RunType]
  BY StepKeepsCookies DEF CookiesInv
<1>3. ASSUME NEW r \in Runs,
             \/ Starts(r) \/ InitPanics(r) \/ CandidatesMailed(r) \/ Iterate(r)
             \/ TimeUp(r) \/ Refused(r) \/ Answered(r) \/ AnalysisEnds(r)
             \/ Placed(r) \/ MailSent(r)
      PROVE  CallersInv'
  <2>1. \A q \in Runs \ {r} : run'[q] = run[q]
    <3>1. CASE Starts(r)
      <4>1. PICK forced, near_noon, run_day, mails \in BOOLEAN :
               /\ mails => r \in PqpRuns /\ (forced \/ ~ near_noon)
               /\ run' = [run EXCEPT ![r].forced = forced, ![r].near_noon = near_noon,
                                    ![r].run_day = run_day,
                                    ![r].is_simulation = Simulation(forced, near_noon),
                                    ![r].pc = IF ~ run_day /\ ~ forced THEN "ended"
                                              ELSE IF mails THEN "candidates"
                                              ELSE "starting_stream"]
        BY <3>1, Zenon DEF Starts
      <4> DEFINE to == IF ~ run_day /\ ~ forced THEN "ended"
                       ELSE IF mails THEN "candidates" ELSE "starting_stream"
                 f == [run[r] EXCEPT
                         !.forced = forced, !.near_noon = near_noon, !.run_day = run_day,
                         !.is_simulation = Simulation(forced, near_noon), !.pc = to]
      <4>2. run' = [run EXCEPT ![r] = f]
        BY <4>1 DEF CookiesInv
      <4> HIDE DEF f
      <4> QED
        BY <4>2 DEF CookiesInv
    <3>2. CASE Iterate(r) \/ TimeUp(r) \/ Refused(r)
      BY <3>2 DEF CookiesInv, Iterate, TimeUp, Refused, Trade
    <3>3. CASE Answered(r) \/ AnalysisEnds(r)
      BY <3>3 DEF CookiesInv, Answered, AnalysisEnds, Trade
    <3>4. CASE Placed(r)
      BY <3>4 DEF CookiesInv, Placed
    <3>5. CASE InitPanics(r) \/ CandidatesMailed(r) \/ MailSent(r)
      BY <3>5 DEF CookiesInv, InitPanics, CandidatesMailed, MailSent
    <3> QED
      BY <1>3, <3>1, <3>2, <3>3, <3>4, <3>5
  <2>2. run'[r].pc \in OutsideStream => run[r].pc \in OutsideStream
    <3>1. CASE Starts(r) \/ CandidatesMailed(r) \/ MailSent(r)
      BY <3>1 DEF Starts, CandidatesMailed, MailSent, OutsideStream
    <3>2. CASE InitPanics(r) \/ TimeUp(r)
      BY <3>2 DEF InitPanics, TimeUp, CookiesInv, RunType, OutsideStream
    <3>3. CASE Iterate(r)
      BY <3>3 DEF Iterate, CookiesInv, RunType, OutsideStream
    <3>4. CASE Refused(r)
      BY <3>4, TradeStaysInside DEF Refused, CookiesInv, RunType
    <3>5. CASE Answered(r)
      <4>1. PICK content \in BOOLEAN, events \in Published :
              LET f == [run[r] EXCEPT !.refused = FALSE,
                                      !.is_cookies_surely_working = content]
              IN  IF r \in PqpRuns /\ events = "none"
                    THEN run' = [run EXCEPT ![r] = [f EXCEPT !.pc = "analysis"]]
                    ELSE Trade(r, f, events)
        BY <3>5 DEF Answered
      <4> DEFINE f == [run[r] EXCEPT !.refused = FALSE,
                                     !.is_cookies_surely_working = content]
      <4>2. f \in RunType
        BY DEF CookiesInv, RunType
      <4>3. CASE r \in PqpRuns /\ events = "none"
        <5>1. run' = [run EXCEPT ![r] = [f EXCEPT !.pc = "analysis"]]
          BY <4>1, <4>3
        <5> HIDE DEF f
        <5> QED
          BY <4>2, <5>1 DEF CookiesInv, RunType, OutsideStream
      <4>4. CASE ~ (r \in PqpRuns /\ events = "none")
        <5>1. Trade(r, f, events)
          BY <4>1, <4>4
        <5> HIDE DEF f
        <5> QED
          BY <4>2, <5>1, TradeStaysInside
      <4> QED
        BY <4>3, <4>4
    <3>6. CASE AnalysisEnds(r)
      BY <3>6, TradeStaysInside DEF AnalysisEnds, CookiesInv
    <3>7. CASE Placed(r)
      BY <3>7 DEF Placed, AfterIteration, CookiesInv, RunType, OutsideStream
    <3> QED
      BY <1>3, <3>1, <3>2, <3>3, <3>4, <3>5, <3>6, <3>7
  <2>3. caller' = caller
    BY <1>3 DEF cacheVars, Starts, InitPanics, CandidatesMailed, Iterate, TimeUp, Refused,
                Answered, AnalysisEnds, Placed, MailSent
  <2> QED
    BY <1>2, <2>1, <2>2, <2>3 DEF CallersInv
<1>4. ASSUME NEW r \in Runs, StartStream(r) \/ StopStream(r) \/ Panics(r)
      PROVE  CallersInv'
  <2>1. \A q \in Runs \ {r} : run'[q] = run[q]
    BY <1>4 DEF CookiesInv, StartStream, StopStream, Panics
  <2>2. PICK state \in Cache!CallerStates :
           /\ caller' = [caller EXCEPT ![r] = state]
           /\ StopStream(r) => state = "idle"
    BY <1>4 DEF StartStream, StopStream, Panics, Cache!start_quote_stream,
                Cache!JoinRunningStream, Cache!SpawnStream, Cache!RollBackUser,
                Cache!stop_quote_stream, Cache!RunPanics, Cache!CallerStates
  <2>3. run'[r].pc \in OutsideStream => StopStream(r)
    BY <1>4 DEF StartStream, Panics, CookiesInv, RunType, OutsideStream
  <2> QED
    BY <1>1, <1>2, <2>1, <2>2, <2>3
<1>5. CASE AdminEdits \/ StreamSteps \/ UNCHANGED vars
  <2>1. UNCHANGED <<run, caller>>
    BY <1>5 DEF AdminEdits, StreamSteps, vars, cacheVars, Cache!StreamReceives,
                Cache!StreamEnds
  <2> QED
    BY <2>1 DEF CallersInv
<1> QED
  BY <1>3, <1>4, <1>5 DEF Next

\* When all runs are through without a panic, nobody's stream goes on.
THEOREM RunsLeaveNoStream == Spec => []NoStreamLeftBehind
<1>1. Init => CallersInv
  BY DEF Init, Cache!Init, CallersInv, Cache!CallerStates
<1>2. CookiesInv /\ CallersInv /\ [Next]_vars => CallersInv'
  BY StepKeepsCallers
<1>3. CallersInv /\ UsersOwed /\ OneSharedStream /\ TypeOK => NoStreamLeftBehind
  <2> SUFFICES ASSUME CallersInv, UsersOwed, OneSharedStream, TypeOK,
                      \A r \in Runs : Over(r), ~ Panicked
               PROVE  \A s \in StreamIds : stream[s] = "free"
    BY DEF NoStreamLeftBehind
  <2>1. \A r \in Runs : caller[r] = "idle"
    BY DEF CallersInv, OutsideStream, Over, Panicked
  <2>2. Cache!Holders = {}
    BY <2>1 DEF Cache!Holders
  <2>3. quote_stream_users <= Cache!Cardinality({})
    BY <2>2 DEF UsersOwed, Cache!UsersNeverOvercounted
  <2>4. Cache!Cardinality({}) = 0
    BY FS_EmptySet DEF Cache!Cardinality, Cardinality
  <2>5. quote_stream_users = 0
    BY <2>3, <2>4, CacheAssumption DEF TypeOK, Cache!TypeOK
  <2> QED
    BY <2>5 DEF OneSharedStream, Cache!NoStreamWithoutUsers
<1> QED
  BY CookiesInvariant, RunsOweTheirUsers, RunsShareOneStream, RunsTypeCorrect,
     <1>1, <1>2, <1>3, PTL DEF Spec
=============================================================================

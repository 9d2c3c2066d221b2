----------------------------- MODULE FastRunner -----------------------------
(***************************************************************************)
(* robotrader/fast_runner.rs and fast_runner_task.rs: the runs that look   *)
(* for new transactions around noon and trade on them, with the mark value *)
(* cache they share (MarkValueCache).  A run is one call of run(), by the  *)
(* scheduler or, forced, from the console; all share one thread, and a run *)
(* gives way where it awaits: each state below is such a point.            *)
(*                                                                         *)
(* The transactions found are abstracted to what the loop tells apart:     *)
(* "none", "some", or "too_many" to be right.  Seeking Alpha is external:  *)
(* a request may be refused (no permission, captcha) or answered, and any  *)
(* expect() on its way may panic.  place_orders() is BrokersWatcher's: it  *)
(* ends, panics, or never returns.                                         *)
(***************************************************************************)
EXTENDS Integers, FiniteSets, Sequences

CONSTANTS
    PqpRuns, ApRuns,       \* the runs of either task
    MaxIterations,         \* iterations that fit before loop_endtime (bound)
    MaxEdits,              \* how often the admin saves the cookie file (bound)
    StreamIds, Tickers, Prices, NaN, NoTask, MaxUsers, StartMayFail,
    RunsMayPanic

Runs == PqpRuns \cup ApRuns

ASSUME RunsAssumption ==
    /\ PqpRuns \cap ApRuns = {}
    /\ MaxIterations \in Nat \ {0} /\ MaxEdits \in Nat

\* What MarkValueCache assumes of its constants, of these runs.
ASSUME CacheAssumption ==
    /\ NoTask \notin StreamIds /\ NaN \notin Prices
    /\ {StartMayFail, RunsMayPanic} \subseteq BOOLEAN
    /\ IsFiniteSet(Runs)
    /\ MaxUsers \in Nat \ {0} /\ Cardinality(Runs) <= MaxUsers

VARIABLES
    quote_stream_task, quote_stream_users, stream, mark_timevalues, caller,
    cookies_file,    \* version (and modification time) of the cookie file
    run,             \* the locals of each run
    batches          \* history: the place_orders() calls: [run, is_simulation]

cacheVars ==
    <<quote_stream_task, quote_stream_users, stream, mark_timevalues, caller>>
vars == <<cacheVars, cookies_file, run, batches>>

Cache == INSTANCE MarkValueCache WITH Callers <- Runs

NoCookies == -1
Published == {"none", "some", "too_many"}

PCs == {"scheduled", "candidates", "starting_stream", "loop", "fetching", "analysis",
        "placing", "leaving", "mailing", "ended", "panicked"}

\* forced, near_noon and run_day are what the decision was taken from, and
\* refused (history) says whether the last page was a refusal.
RunType ==
    [pc : PCs, forced : BOOLEAN, near_noon : BOOLEAN, run_day : BOOLEAN,
     is_simulation : BOOLEAN, cookies : {NoCookies} \cup 0..MaxEdits,
     cookies_file_last_modtime : {NoCookies} \cup 0..MaxEdits,
     is_cookies_surely_working : BOOLEAN, has_trading_ever_started : BOOLEAN,
     iterations : 0..MaxIterations, refused : BOOLEAN]

\* Cookies are loaded, and as old as their modification time says or newer,
\* where expect("cookies not initialized") relies on them.
TypeOK ==
    /\ Cache!TypeOK
    /\ cookies_file \in 0..MaxEdits
    /\ run \in [Runs -> RunType]
    /\ \A r \in Runs :
          /\ run[r].pc \in {"fetching", "analysis", "placing"} => run[r].cookies # NoCookies
          /\ run[r].cookies_file_last_modtime <= run[r].cookies
    /\ batches \in Seq([run : Runs, is_simulation : BOOLEAN])

\* FastRunner::new()
NewRun ==
    [pc |-> "scheduled", forced |-> FALSE, near_noon |-> FALSE, run_day |-> FALSE,
     is_simulation |-> TRUE, cookies |-> NoCookies,
     cookies_file_last_modtime |-> NoCookies, is_cookies_surely_working |-> FALSE,
     has_trading_ever_started |-> FALSE, iterations |-> 0, refused |-> FALSE]

Init ==
    /\ Cache!Init
    /\ cookies_file = 0
    /\ run = [r \in Runs |-> NewRun]
    /\ batches = <<>>

-----------------------------------------------------------------------------
\* Mutant: the forced simulation is set before the clock decides.
SimulationByClock(forced, near_noon) == ~ near_noon

\* Real trading within 90 seconds of noon, never in a forced run.
Simulation(forced, near_noon) == ~ near_noon \/ forced

\* run() up to its first await behind init(): the decision; on another day the
\* run ends.  The first PQP run of the day, two hours or more from noon, and a
\* forced one, mail the candidate tickers if the configuration names an address.
Starts(r) ==
    /\ run[r].pc = "scheduled"
    /\ \E forced, near_noon, run_day, mails \in BOOLEAN :
          /\ mails => r \in PqpRuns /\ (forced \/ ~ near_noon)
          /\ run' = [run EXCEPT ![r].forced = forced, ![r].near_noon = near_noon,
                               ![r].run_day = run_day,
                               ![r].is_simulation = Simulation(forced, near_noon),
                               ![r].pc = IF ~ run_day /\ ~ forced THEN "ended"
                                         ELSE IF mails THEN "candidates"
                                         ELSE "starting_stream"]
    /\ UNCHANGED <<cacheVars, cookies_file, batches>>

\* The four downloads and the mail end: each failure gives an empty list, or no
\* mail, and the run goes on.  No time limit is set.
CandidatesMailed(r) ==
    /\ run[r].pc = "candidates"
    /\ run' = [run EXCEPT ![r].pc = "starting_stream"]
    /\ UNCHANGED <<cacheVars, cookies_file, batches>>

\* create_dir_all() of init() fails: an expect() before any user is counted.
InitPanics(r) ==
    /\ RunsMayPanic
    /\ run[r].pc = "scheduled"
    /\ run' = [run EXCEPT ![r].pc = "panicked"]
    /\ UNCHANGED <<cacheVars, cookies_file, batches>>

\* start_quote_stream(), and 20 seconds of warm-up whatever became of it.
StartStream(r) ==
    /\ run[r].pc = "starting_stream"
    /\ Cache!start_quote_stream(r)
    /\ run' = [run EXCEPT ![r].pc = "loop"]
    /\ UNCHANGED <<cookies_file, batches>>

\* Mutants: an unknown modification time does not ask for a reload; the flag
\* survives into the next iteration.
EnsureCookiesByModtime(f, stat, read) ==
    IF f.is_cookies_surely_working THEN f
    ELSE IF f.cookies_file_last_modtime \in {NoCookies, stat} THEN f
    ELSE [f EXCEPT !.cookies = read, !.cookies_file_last_modtime = stat]

FlagSurvives(f) == f

\* ensure_cookies_loaded(): nothing if the last answer proved the cookies;
\* else the file is read again if its modification time changed.
ensure_cookies_loaded(f, stat, read) ==
    IF f.is_cookies_surely_working THEN f
    ELSE IF f.cookies # NoCookies /\ f.cookies_file_last_modtime = stat THEN f
    ELSE [f EXCEPT !.cookies = read, !.cookies_file_last_modtime = stat]

\* m_is_cookies_surely_working = false
ForgetSurelyWorking(f) == [f EXCEPT !.is_cookies_surely_working = FALSE]

\* An iteration up to its request.  The admin's editor is another process: it
\* may save between the reading of the modification time and of the content.
\* Behind the warm-up the first iteration always takes place.
Iterate(r) ==
    /\ run[r].pc = "loop"
    /\ run[r].iterations < MaxIterations
    /\ \E read \in cookies_file..MaxEdits :
          LET f == ForgetSurelyWorking(ensure_cookies_loaded(run[r], cookies_file, read))
          IN  /\ run' = [run EXCEPT ![r] = [f EXCEPT !.pc = "fetching",
                                                     !.iterations = @ + 1]]
              /\ cookies_file' = read
    /\ UNCHANGED <<cacheVars, batches>>

\* loop_endtime has passed.
TimeUp(r) ==
    /\ run[r].pc = "loop"
    /\ run[r].iterations > 0
    /\ run' = [run EXCEPT ![r].pc = "leaving"]
    /\ UNCHANGED <<cacheVars, cookies_file, batches>>

\* The end of an iteration: a forced run does one only, and a run that has
\* started to trade is through.
AfterIteration(f) ==
    [f EXCEPT !.pc = IF f.forced \/ f.has_trading_ever_started THEN "leaving" ELSE "loop"]

\* Mutant: the run does not remember that it has started to trade.
TradeAgain(r, f, events) ==
    IF events = "some"
      THEN /\ run' = [run EXCEPT ![r] = [f EXCEPT !.pc = "placing"]]
           /\ batches' = Append(batches, [run |-> r, is_simulation |-> f.is_simulation])
      ELSE /\ run' = [run EXCEPT ![r] = AfterIteration(f)]
           /\ UNCHANGED batches

\* fastrunning_loop_{pqp,ap}_impl() behind the download: trade, once, if there
\* is something to trade and not too much of it.
Trade(r, f, events) ==
    IF events = "some" /\ ~ f.has_trading_ever_started
      THEN /\ run' = [run EXCEPT ![r] = [f EXCEPT !.pc = "placing",
                                                  !.has_trading_ever_started = TRUE]]
           /\ batches' = Append(batches, [run |-> r, is_simulation |-> f.is_simulation])
      ELSE /\ run' = [run EXCEPT ![r] = AfterIteration(f)]
           /\ UNCHANGED batches

\* The page is a refusal: no events, and PQP does not look at the analysis.
Refused(r) ==
    /\ run[r].pc = "fetching"
    /\ Trade(r, [run[r] EXCEPT !.refused = TRUE], "none")
    /\ UNCHANGED <<cacheVars, cookies_file>>

\* The page has content, which proves the cookies, or none.  PQP takes the
\* events of the analysis task when the history gives none.
Answered(r) ==
    /\ run[r].pc = "fetching"
    /\ \E content \in BOOLEAN, events \in Published :
          LET f == [run[r] EXCEPT !.refused = FALSE, !.is_cookies_surely_working = content]
          IN  /\ events # "none" => content
              /\ IF r \in PqpRuns /\ events = "none"
                   THEN /\ run' = [run EXCEPT ![r] = [f EXCEPT !.pc = "analysis"]]
                        /\ UNCHANGED batches
                   ELSE Trade(r, f, events)
    /\ UNCHANGED <<cacheVars, cookies_file>>

\* The analysis task ends; if it panicked there are no events.
AnalysisEnds(r) ==
    /\ run[r].pc = "analysis"
    /\ \E events \in Published : Trade(r, run[r], events)
    /\ UNCHANGED <<cacheVars, cookies_file>>

\* place_orders() returns.
Placed(r) ==
    /\ run[r].pc = "placing"
    /\ run' = [run EXCEPT ![r] = AfterIteration(run[r])]
    /\ UNCHANGED <<cacheVars, cookies_file, batches>>

\* Mutant: the break of a forced run leaves run() altogether.
ForcedRunReturns(r) ==
    /\ run[r].pc = "leaving"
    /\ IF run[r].forced THEN UNCHANGED cacheVars ELSE Cache!stop_quote_stream(r)
    /\ run' = [run EXCEPT ![r].pc = "ended"]
    /\ UNCHANGED <<cookies_file, batches>>

\* stop_quote_stream(), and the mail about the run if there is an address.
StopStream(r) ==
    /\ run[r].pc = "leaving"
    /\ Cache!stop_quote_stream(r)
    /\ \E pc \in {"mailing", "ended"} : run' = [run EXCEPT ![r].pc = pc]
    /\ UNCHANGED <<cookies_file, batches>>

\* RqEmail::send() returns: the mail is on its way, or an error is logged.
MailSent(r) ==
    /\ run[r].pc = "mailing"
    /\ run' = [run EXCEPT ![r].pc = "ended"]
    /\ UNCHANGED <<cacheVars, cookies_file, batches>>

\* An expect() on the way of an iteration: the cookie file, the request, the
\* JSON, the broker.  The task dies, and nobody calls stop_quote_stream().
Panics(r) ==
    /\ run[r].pc \in {"loop", "fetching", "placing"}
    /\ Cache!RunPanics(r)
    /\ run' = [run EXCEPT ![r].pc = "panicked"]
    /\ UNCHANGED <<cookies_file, batches>>

\* The admin saves new cookies.
AdminEdits ==
    /\ cookies_file < MaxEdits
    /\ cookies_file' = cookies_file + 1
    /\ UNCHANGED <<cacheVars, run, batches>>

StreamSteps ==
    /\ \E s \in StreamIds : Cache!StreamReceives(s) \/ Cache!StreamEnds(s)
    /\ UNCHANGED <<cookies_file, run, batches>>

Next ==
    \/ \E r \in Runs :
          \/ Starts(r) \/ InitPanics(r) \/ CandidatesMailed(r) \/ StartStream(r)
          \/ Iterate(r) \/ TimeUp(r) \/ Refused(r) \/ Answered(r) \/ AnalysisEnds(r)
          \/ Placed(r) \/ StopStream(r) \/ MailSent(r) \/ Panics(r)
    \/ AdminEdits
    \/ StreamSteps

Spec == Init /\ [][Next]_vars

-----------------------------------------------------------------------------
\* A run never hands its orders over a second time, whatever its later
\* iterations find.
OneBatchPerRun ==
    \A i, j \in DOMAIN batches : batches[i].run = batches[j].run => i = j

\* Real orders come only from an unforced run on its rebalance day that
\* started within 90 seconds of noon.
LiveBatchesAllowed ==
    \A i \in DOMAIN batches :
        LET r == run[batches[i].run] IN
        ~ batches[i].is_simulation => r.run_day /\ r.near_noon /\ ~ r.forced

\* "The admin can update the cookie file and the next iteration will notice
\* it": behind a refusal, a run asks again with cookies at least as new as the
\* file was when the iteration began.
RefusalRereadsCookies ==
    [][\A r \in Runs :
          run[r].refused /\ run'[r].iterations > run[r].iterations
             => run'[r].cookies >= cookies_file]_vars

\* Among the runs as they really call it the cache keeps its promises: one
\* stream, none without users, and never more users than runs that owe a stop.
OneSharedStream == Cache!OneStream /\ Cache!NoStreamWithoutUsers
UsersOwed == Cache!UsersNeverOvercounted

\* When all runs are through, none of them having panicked, the stream is
\* gone, even if some of their starts failed; a mail that hangs does not keep it.
Over(r) == run[r].pc \in {"mailing", "ended", "panicked"}
Panicked == \E r \in Runs : run[r].pc = "panicked"
NoStreamLeftBehind ==
    (\A r \in Runs : Over(r)) /\ ~ Panicked
        => \A s \in StreamIds : stream[s] = "free"
=============================================================================

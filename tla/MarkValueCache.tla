--------------------------- MODULE MarkValueCache ---------------------------
(***************************************************************************)
(* common/memdb/src/mark_value_cache.rs: the process-wide cache of mark    *)
(* values, filled by one background quote stream that the FastRunner runs  *)
(* share through a user count.                                             *)
(*                                                                         *)
(* Every method runs under the mutex RQ_MARK_VALUE_CACHE and awaits        *)
(* nothing, so each is one atomic action.  The stream task takes the same  *)
(* mutex for each value it stores.  Callers are the runs: each calls       *)
(* start_quote_stream, awaits its warm-up and its trading loop, and then   *)
(* calls stop_quote_stream whatever its start did (the method returns      *)
(* nothing).  A run that panics in between never calls stop.               *)
(***************************************************************************)
EXTENDS Integers, FiniteSets

CONSTANTS
    Callers,         \* the runs, one identity for each
    StreamIds,       \* identities of spawned stream tasks
    Tickers,         \* ticker_universe_csv, split at its commas
    Prices,          \* the prices Yahoo may send
    NaN,             \* the unknown value
    NoTask,          \* quote_stream_task = None
    MaxUsers,        \* u16::MAX, where saturating_add stops
    StartMayFail,    \* whether StreamBuilder::start() may return Err
    RunsMayPanic     \* whether a run may panic between start and stop

ASSUME StreamAssumption == NoTask \notin StreamIds
ASSUME PriceAssumption == NaN \notin Prices
ASSUME FlagAssumption == StartMayFail \in BOOLEAN /\ RunsMayPanic \in BOOLEAN
ASSUME CallersAssumption == IsFiniteSet(Callers)
ASSUME MaxUsersAssumption ==
    MaxUsers \in Nat \ {0} /\ Cardinality(Callers) <= MaxUsers

VARIABLES
    quote_stream_task,     \* the handle: a stream identity or NoTask
    quote_stream_users,    \* u16
    stream,                \* "free", "running" or "finished" for each identity
    mark_timevalues,       \* ticker -> last value stored, NaN if none
    caller                 \* where each run stands

vars == <<quote_stream_task, quote_stream_users, stream, mark_timevalues, caller>>

\* "refused": its start rolled its user back; "lost": panicked as a user.
CallerStates == {"idle", "using", "refused", "lost"}

TypeOK ==
    /\ quote_stream_task \in StreamIds \cup {NoTask}
    /\ quote_stream_users \in 0..MaxUsers
    /\ stream \in [StreamIds -> {"free", "running", "finished"}]
    /\ mark_timevalues \in [Tickers -> Prices \cup {NaN}]
    /\ caller \in [Callers -> CallerStates]

\* new() and then init(), which BrokersWatcher::init() calls before any task
\* is scheduled: every ticker of the universe is inserted with NaN.
Init ==
    /\ quote_stream_task = NoTask
    /\ quote_stream_users = 0
    /\ stream = [s \in StreamIds |-> "free"]
    /\ mark_timevalues = [t \in Tickers |-> NaN]
    /\ caller = [c \in Callers |-> "idle"]

-----------------------------------------------------------------------------
is_quote_stream_running ==
    /\ quote_stream_task # NoTask
    /\ stream[quote_stream_task] = "running"

\* get_mark_value: NaN for a ticker without a value.
get_mark_value(t) == IF t \in Tickers THEN mark_timevalues[t] ELSE NaN

SaturatingAdd(n) == IF n < MaxUsers THEN n + 1 ELSE MaxUsers
SaturatingSub(n) == IF n > 0 THEN n - 1 ELSE 0

\* Dropping the handle of a finished task; a running one would be detached.
DropHandle ==
    [s \in StreamIds |-> IF s = quote_stream_task /\ stream[s] = "finished"
                            THEN "free" ELSE stream[s]]

\* Aborting the task behind the handle, if there is one.
AbortTask == [s \in StreamIds |-> IF s = quote_stream_task THEN "free" ELSE stream[s]]

(***************************************************************************)
(* start_quote_stream(): count the user; return if a stream is running;    *)
(* else spawn one, unless the universe is empty or the builder fails, and  *)
(* then take the user back.                                                *)
(***************************************************************************)
\* Mutant: the early return comes before the count.
JoinUncounted(c) ==
    /\ is_quote_stream_running
    /\ caller' = [caller EXCEPT ![c] = "using"]
    /\ UNCHANGED <<quote_stream_task, quote_stream_users, stream>>

JoinRunningStream(c) ==
    /\ is_quote_stream_running
    /\ quote_stream_users' = SaturatingAdd(quote_stream_users)
    /\ caller' = [caller EXCEPT ![c] = "using"]
    /\ UNCHANGED <<quote_stream_task, stream>>

\* Mutant: no check that the stream of the handle still runs.
SpawnAlways(c) ==
    /\ Tickers # {}
    /\ \E s \in StreamIds :
          /\ stream[s] = "free"
          /\ quote_stream_task' = s
          /\ stream' = [DropHandle EXCEPT ![s] = "running"]
    /\ quote_stream_users' = SaturatingAdd(quote_stream_users)
    /\ caller' = [caller EXCEPT ![c] = "using"]

SpawnStream(c) ==
    /\ ~ is_quote_stream_running
    /\ Tickers # {}
    /\ \E s \in StreamIds :
          /\ stream[s] = "free"
          /\ quote_stream_task' = s
          /\ stream' = [DropHandle EXCEPT ![s] = "running"]
    /\ quote_stream_users' = SaturatingAdd(quote_stream_users)
    /\ caller' = [caller EXCEPT ![c] = "using"]

\* Mutant: the user of a failed start is not taken back.
KeepRefusedUser(c) ==
    /\ ~ is_quote_stream_running
    /\ Tickers = {} \/ StartMayFail
    /\ quote_stream_task' = NoTask
    /\ stream' = DropHandle
    /\ quote_stream_users' = SaturatingAdd(quote_stream_users)
    /\ caller' = [caller EXCEPT ![c] = "refused"]

RollBackUser(c) ==
    /\ ~ is_quote_stream_running
    /\ Tickers = {} \/ StartMayFail
    /\ quote_stream_task' = NoTask
    /\ stream' = DropHandle
    /\ quote_stream_users' = SaturatingSub(SaturatingAdd(quote_stream_users))
    /\ caller' = [caller EXCEPT ![c] = "refused"]

start_quote_stream(c) ==
    /\ caller[c] = "idle"
    /\ JoinRunningStream(c) \/ SpawnStream(c) \/ RollBackUser(c)
    /\ UNCHANGED mark_timevalues

(***************************************************************************)
(* stop_quote_stream(): nothing without users; else give one user back,    *)
(* and with the last one take the task and abort it.  The task is          *)
(* suspended at its recv() on the same single-threaded runtime, so it      *)
(* stores nothing after the abort.                                         *)
(***************************************************************************)
StopWithoutUsers ==
    /\ quote_stream_users = 0
    /\ UNCHANGED <<quote_stream_task, quote_stream_users, stream>>

\* Mutant: every stop aborts the task.
ReleaseAborts ==
    /\ quote_stream_users > 1
    /\ quote_stream_users' = quote_stream_users - 1
    /\ stream' = AbortTask
    /\ UNCHANGED quote_stream_task

ReleaseUser ==
    /\ quote_stream_users > 1
    /\ quote_stream_users' = quote_stream_users - 1
    /\ UNCHANGED <<quote_stream_task, stream>>

\* Mutant: the last handle is dropped instead of aborted.
ReleaseDetaches ==
    /\ quote_stream_users = 1
    /\ quote_stream_users' = 0
    /\ quote_stream_task' = NoTask
    /\ stream' = DropHandle

\* Mutant: the last user leaves before the stream is looked at.
ReleaseKeepsTask ==
    /\ quote_stream_users = 1
    /\ quote_stream_users' = 0
    /\ UNCHANGED <<quote_stream_task, stream>>

ReleaseLastUser ==
    /\ quote_stream_users = 1
    /\ quote_stream_users' = 0
    /\ quote_stream_task' = NoTask
    /\ stream' = AbortTask

stop_quote_stream(c) ==
    /\ caller[c] \in {"using", "refused"}
    /\ StopWithoutUsers \/ ReleaseUser \/ ReleaseLastUser
    /\ caller' = [caller EXCEPT ![c] = "idle"]
    /\ UNCHANGED mark_timevalues

-----------------------------------------------------------------------------
\* Mutants: a missing price stored as 0.0, and stored as NaN.
StreamStoresZero(s) ==
    /\ stream[s] = "running"
    /\ \E t \in Tickers, v \in Prices \cup {0} :
          mark_timevalues' = [mark_timevalues EXCEPT ![t] = v]
    /\ UNCHANGED <<quote_stream_task, quote_stream_users, stream, caller>>

StreamStoresNaN(s) ==
    /\ stream[s] = "running"
    /\ \E t \in Tickers, v \in Prices \cup {NaN} :
          mark_timevalues' = [mark_timevalues EXCEPT ![t] = v]
    /\ UNCHANGED <<quote_stream_task, quote_stream_users, stream, caller>>

\* One update of the stream: a NaN is skipped, a value replaces the last one.
StreamReceives(s) ==
    /\ stream[s] = "running"
    /\ \E t \in Tickers, v \in Prices \cup {NaN} :
          /\ v # NaN
          /\ mark_timevalues' = [mark_timevalues EXCEPT ![t] = v]
    /\ UNCHANGED <<quote_stream_task, quote_stream_users, stream, caller>>

\* The receiver ends; the handle stays until the next start or last stop.
StreamEnds(s) ==
    /\ stream[s] = "running"
    /\ stream' = [stream EXCEPT ![s] = "finished"]
    /\ UNCHANGED <<quote_stream_task, quote_stream_users, mark_timevalues, caller>>

\* A run panics (an expect() of its loop) between its start and its stop.
\* A refused one held nothing, so its identity may serve a later run.
RunPanics(c) ==
    /\ RunsMayPanic
    /\ caller[c] \in {"using", "refused"}
    /\ caller' = [caller EXCEPT ![c] = IF @ = "using" THEN "lost" ELSE "idle"]
    /\ UNCHANGED <<quote_stream_task, quote_stream_users, stream, mark_timevalues>>

Next ==
    \/ \E c \in Callers :
          start_quote_stream(c) \/ stop_quote_stream(c) \/ RunPanics(c)
    \/ \E s \in StreamIds : StreamReceives(s) \/ StreamEnds(s)

Spec == Init /\ [][Next]_vars

-----------------------------------------------------------------------------
\* The runs whose start counted a user that no stop of theirs gave back.
Holders == {c \in Callers : caller[c] \in {"using", "lost"}}

\* Only the stream behind the handle may exist: start_quote_stream never
\* loses a running task by overwriting its handle, so no second stream stores
\* prices that nobody can stop.
OneStream == \A s \in StreamIds : stream[s] # "free" => s = quote_stream_task

\* stop_quote_stream leaves no stream behind: with no user left no task is
\* alive, whatever starts failed and whatever streams ended before.
NoStreamWithoutUsers ==
    quote_stream_users = 0 => \A s \in StreamIds : stream[s] = "free"

\* The count never exceeds the runs that still owe a stop, so the stops of
\* those runs are enough to bring it to zero.
UsersNeverOvercounted == quote_stream_users <= Cardinality(Holders)

\* When no start fails the count is exact: it is the number of runs that
\* started and did not stop, the panicked ones included.
UsersExact == quote_stream_users = Cardinality(Holders)

\* A stream stops running under a run that uses it only by its own end,
\* never because another run called stop_quote_stream.
StreamKeptForUsers ==
    [][\A s \in StreamIds :
          stream[s] = "running" /\ stream'[s] = "free"
             => \A c \in Callers : caller'[c] # "using"]_vars

\* A ticker with a price never falls back to NaN: neither an update without
\* a price nor a stop and restart of the stream erases what is known.
KnownStaysKnown ==
    [][\A t \in Tickers : get_mark_value(t) # NaN => get_mark_value(t)' # NaN]_vars

\* The counted, handle-based cache implements the promise of SharedStream.
Promise == INSTANCE SharedStream
    WITH holders <- Holders,
         streaming <- \E s \in StreamIds : stream[s] = "running"
ImplementsSharedStream == Promise!Spec
=============================================================================

----------------------------- MODULE RqProcess -----------------------------
(***************************************************************************)
(* The life of the process: main.rs with its start, its console menu and   *)
(* its end, BrokersWatcher::init() and exit(), RoboTrader::init(), and the *)
(* locks of std::sync that their tasks share.                              *)
(*                                                                         *)
(* main(), the menu and the runs are tasks of one thread.  Each action is  *)
(* what a task does between two awaits; a lock it needs on its way must be *)
(* free.  A lock held by a task that awaits would stop the thread for      *)
(* ever.  Only /serverdiagnostics takes a lock on a thread of its own, a   *)
(* worker of the web server.  A panic with a lock held poisons it.         *)
(*                                                                         *)
(* Runs are cut down to the locks they take (FastRunner and BrokersWatcher *)
(* have the rest), the scheduler to its spawning of runs (RqTaskScheduler).*)
(* Interactive Brokers, Seeking Alpha and whoever types or signals are     *)
(* external.                                                               *)
(***************************************************************************)
EXTENDS Naturals, FiniteSets, Sequences

CONSTANTS
    ScheduledRuns,    \* the tasks whose runs the scheduler spawns
    Forced,           \* the run that the menu awaits
    DcMain, DcBlanzac, Gyantal

BrokerClients == {DcMain, DcBlanzac, Gyantal}
\* The order in which both init() go through them.
ClientList == <<DcMain, DcBlanzac, Gyantal>>
Runs == ScheduledRuns \cup {Forced}

ASSUME ProcessAssumption == Forced \notin ScheduledRuns /\ Cardinality(BrokerClients) = 3

VARIABLES
    main,               \* where main() stands
    next,               \* the client in hand, an index of ClientList
    gateways,           \* client -> "missing", "connected" or "failed"
    order_executions,   \* client -> "absent", or what was read of its executions
    scheduled_here,     \* this machine schedules the FastRunner tasks
    held,               \* who holds each lock across an await or on a thread
    poisoned,           \* the lock of the gateways is poisoned
    menu,               \* where console_menu_loop() stands
    run,                \* where the run of each task stands
    stop_asked          \* the server was told to stop

vars == <<main, next, gateways, order_executions, scheduled_here, held, poisoned,
          menu, run, stop_asked>>
mainVars == <<main, next, order_executions, scheduled_here>>

Locks == {"mark_value_cache", "gateways", "order_executions"}

\* A lock is held across awaits by main() only, while nothing else runs.
TypeOK ==
    /\ main \in {"connecting", "refreshing", "requesting", "streaming", "starting",
                 "serving", "ended", "failed"}
    /\ next \in DOMAIN ClientList
    /\ gateways \in [BrokerClients -> {"missing", "connected", "failed"}]
    /\ order_executions \in [BrokerClients -> {"absent", "nothing", "part", "all"}]
    /\ {scheduled_here, poisoned, stop_asked} \subseteq BOOLEAN
    /\ held \in [Locks -> {"free", "main", "visitor"}]
    /\ menu \in {"absent", "prompt", "asking", "testing", "forced", "stopping",
                 "closed", "panicked"}
    /\ run \in [Runs -> {"idle", "starting", "looking", "placing", "at_broker",
                         "leaving", "mailing"}]
    /\ menu = "forced" <=> run[Forced] # "idle"
    /\ main = "serving" =>
          \A c \in BrokerClients :
             /\ gateways[c] # "missing"
             /\ order_executions[c] # "absent"
             /\ order_executions[c] # "nothing" => gateways[c] = "connected"

\* BrokersWatcher::init() begins: both locks are held while the gateways connect.
Init ==
    /\ main = "connecting"
    /\ next = 1
    /\ gateways = [c \in BrokerClients |-> "missing"]
    /\ order_executions = [c \in BrokerClients |-> "absent"]
    /\ scheduled_here \in BOOLEAN
    /\ held = [l \in Locks |-> IF l = "order_executions" THEN "free" ELSE "main"]
    /\ poisoned = FALSE
    /\ menu = "absent"
    /\ run = [t \in Runs |-> "idle"]
    /\ stop_asked = FALSE

-----------------------------------------------------------------------------
Free(l) == held[l] = "free"
Client == ClientList[next]
Last == next = Len(ClientList)
Connected(c) == gateways[c] = "connected"

\* A gateway connects, or does not and stays without client.  Behind the third
\* BrokersWatcher::init() is over, and RoboTrader::init() begins.
GatewayInit ==
    /\ main = "connecting"
    /\ \E outcome \in {"connected", "failed"} :
          gateways' = [gateways EXCEPT ![Client] = outcome]
    /\ IF Last
         THEN /\ main' = "refreshing" /\ next' = 1
              /\ held' = [l \in Locks |-> IF l = "order_executions" THEN "main" ELSE "free"]
         ELSE /\ next' = next + 1
              /\ UNCHANGED <<main, held>>
    /\ UNCHANGED <<order_executions, scheduled_here, poisoned, menu, run, stop_asked>>

\* refresh_executions() stores what it read, and takes the next client.
Store(what) ==
    /\ order_executions' = [order_executions EXCEPT ![Client] = what]
    /\ IF Last
         THEN /\ main' = "starting"
              /\ held' = [held EXCEPT !["order_executions"] = "free"]
              /\ UNCHANGED next
         ELSE /\ main' = "refreshing"
              /\ next' = next + 1
              /\ UNCHANGED held

\* get_order_executions() up to its first await; without a client it is over.
get_order_executions ==
    /\ main = "refreshing"
    /\ Free("gateways")
    /\ IF Connected(Client)
         THEN main' = "requesting" /\ UNCHANGED <<next, order_executions, held>>
         ELSE Store("nothing")
    /\ UNCHANGED <<gateways, scheduled_here, poisoned, menu, run, stop_asked>>

\* Mutant: the early return leaves refresh_executions().
RequestFailsForAll ==
    /\ main = "requesting"
    /\ \/ main' = "streaming" /\ UNCHANGED <<next, order_executions, held>>
       \/ /\ main' = "starting" /\ held' = [held EXCEPT !["order_executions"] = "free"]
          /\ UNCHANGED <<next, order_executions>>
    /\ UNCHANGED <<gateways, scheduled_here, poisoned, menu, run, stop_asked>>

\* The request is accepted or fails.
ExecutionsRequested ==
    /\ main = "requesting"
    /\ \/ main' = "streaming" /\ UNCHANGED <<next, order_executions, held>>
       \/ Store("nothing")
    /\ UNCHANGED <<gateways, scheduled_here, poisoned, menu, run, stop_asked>>

\* The stream ends, or breaks off with an error; what came until then is kept.
ExecutionsEnd ==
    /\ main = "streaming"
    /\ \E what \in {"part", "all"} : Store(what)
    /\ UNCHANGED <<gateways, scheduled_here, poisoned, menu, run, stop_asked>>

\* main() from there to the server's await: the tasks are scheduled, the
\* scheduler, the server and the menu started; or a certificate, a port or the
\* name of the machine is missing, and the process ends as it is.
StartServices ==
    /\ main = "starting"
    /\ \/ main' = "serving" /\ menu' = "prompt"
       \/ main' = "failed" /\ UNCHANGED menu
    /\ UNCHANGED <<next, gateways, order_executions, scheduled_here, held, poisoned,
                   run, stop_asked>>

\* Ctrl-C, which the server takes as an order to stop.
Signal ==
    /\ main = "serving"
    /\ stop_asked' = TRUE
    /\ UNCHANGED <<mainVars, gateways, held, poisoned, menu, run>>

\* Mutant: lock().unwrap() for lock_ignore_poison().
ExitUnwraps ==
    /\ main = "serving" /\ stop_asked
    /\ Free("gateways")
    /\ IF poisoned
         THEN main' = "failed" /\ UNCHANGED gateways
         ELSE main' = "ended" /\ gateways' = [c \in BrokerClients |-> "missing"]
    /\ UNCHANGED <<next, order_executions, scheduled_here, held, poisoned, menu, run,
                   stop_asked>>

\* The server has stopped: exit() drops the clients, and main() returns.  The
\* runtime drops the tasks where they stand.
exit ==
    /\ main = "serving" /\ stop_asked
    /\ Free("gateways")
    /\ gateways' = [c \in BrokerClients |-> "missing"]
    /\ main' = "ended"
    /\ UNCHANGED <<next, order_executions, scheduled_here, held, poisoned, menu, run,
                   stop_asked>>

-----------------------------------------------------------------------------
\* Mutant: the scheduler is started before the brokers.
ServicesFromTheStart == main \notin {"ended", "failed"}

\* The scheduler and the menu have been spawned and get the thread.
ServicesUp == main = "serving"

\* Choices that ask somebody and print the answer: those of 1 and 2 end in any
\* case, the downloads of 51 and 52 may panic.
MenuAsks ==
    /\ ServicesUp /\ menu = "prompt"
    /\ menu' \in {"asking", "testing"}
    /\ UNCHANGED <<mainVars, gateways, held, poisoned, run, stop_asked>>

\* 42 and 43 take a client with the lock held: lock().unwrap() panics if it is
\* poisoned, and expect() poisons it if there is no client.
MenuTakesClient ==
    /\ ServicesUp /\ menu = "prompt"
    /\ Free("gateways")
    /\ \E c \in {Gyantal, DcMain} :
          LET works == ~ poisoned /\ Connected(c)
          IN  /\ menu' = IF works THEN "testing" ELSE "panicked"
              /\ poisoned' = (poisoned \/ ~ works)
    /\ UNCHANGED <<mainVars, gateways, held, run, stop_asked>>

\* 53 and 54 await a run of their own.
MenuForces ==
    /\ ServicesUp /\ menu = "prompt"
    /\ menu' = "forced"
    /\ run' = [run EXCEPT ![Forced] = "starting"]
    /\ UNCHANGED <<mainVars, gateways, held, poisoned, stop_asked>>

MenuAnswered ==
    /\ ServicesUp /\ menu \in {"asking", "testing"}
    /\ menu' = "prompt"
    /\ UNCHANGED <<mainVars, gateways, held, poisoned, run, stop_asked>>

\* An expect() behind the answer: the menu is gone, the server goes on.
MenuPanics ==
    /\ ServicesUp /\ menu = "testing"
    /\ menu' = "panicked"
    /\ UNCHANGED <<mainVars, gateways, held, poisoned, run, stop_asked>>

\* 9, or the end of the input.
MenuStops ==
    /\ ServicesUp /\ menu = "prompt"
    /\ \/ menu' = "stopping" /\ stop_asked' = TRUE
       \/ menu' = "closed" /\ UNCHANGED stop_asked
    /\ UNCHANGED <<mainVars, gateways, held, poisoned, run>>

-----------------------------------------------------------------------------
\* The scheduler spawns a run, which has to trade today.
TriggerFires(t) ==
    /\ ServicesUp /\ scheduled_here
    /\ t \in ScheduledRuns /\ run[t] = "idle"
    /\ run' = [run EXCEPT ![t] = "starting"]
    /\ UNCHANGED <<mainVars, gateways, held, poisoned, menu, stop_asked>>

\* A step of a run that needs these locks for a moment.
RunStep(t, from, to, locks) ==
    /\ ServicesUp
    /\ run[t] = from
    /\ \A l \in locks : Free(l)
    /\ run' = [run EXCEPT ![t] = to]

StartsStream(t) ==
    /\ RunStep(t, "starting", "looking", {"mark_value_cache"})
    /\ UNCHANGED <<mainVars, gateways, held, poisoned, menu, stop_asked>>

\* The loop finds something to trade, or its time is up.
Looks(t) ==
    /\ \E to \in {"placing", "leaving"} : RunStep(t, "looking", to, {})
    /\ UNCHANGED <<mainVars, gateways, held, poisoned, menu, stop_asked>>

Ready == Connected(Gyantal) /\ Connected(DcMain)

\* Mutant: lock().unwrap() for lock_ignore_poison().
PlaceUnwraps(t) ==
    /\ RunStep(t, "placing",
               IF poisoned THEN "idle" ELSE IF Ready THEN "at_broker" ELSE "leaving",
               {"mark_value_cache", "gateways"})
    /\ menu' = IF t = Forced /\ poisoned THEN "panicked" ELSE menu
    /\ UNCHANGED <<mainVars, gateways, held, poisoned, stop_asked>>

\* place_orders() reads the cache and takes both clients, poisoned or not.
place_orders(t) ==
    /\ RunStep(t, "placing", IF Ready THEN "at_broker" ELSE "leaving",
               {"mark_value_cache", "gateways"})
    /\ UNCHANGED <<mainVars, gateways, held, poisoned, menu, stop_asked>>

BrokerAnswers(t) ==
    /\ RunStep(t, "at_broker", "leaving", {})
    /\ UNCHANGED <<mainVars, gateways, held, poisoned, menu, stop_asked>>

StopsStream(t) ==
    /\ RunStep(t, "leaving", "mailing", {"mark_value_cache"})
    /\ UNCHANGED <<mainVars, gateways, held, poisoned, menu, stop_asked>>

\* The mail is sent or not; the menu goes on behind its run.
RunEnds(t) ==
    /\ RunStep(t, "mailing", "idle", {})
    /\ menu' = IF t = Forced THEN "prompt" ELSE menu
    /\ UNCHANGED <<mainVars, gateways, held, poisoned, stop_asked>>

\* An expect() of a run fails, without a lock held; it takes the menu with it
\* if it is the menu's.
RunPanics(t) ==
    /\ \E from \in {"starting", "looking", "at_broker"} : RunStep(t, from, "idle", {})
    /\ menu' = IF t = Forced THEN "panicked" ELSE menu
    /\ UNCHANGED <<mainVars, gateways, held, poisoned, stop_asked>>

-----------------------------------------------------------------------------
\* /serverdiagnostics holds the lock of the gateways while it prints them; if
\* it is poisoned the page is an error.
server_diagnostics ==
    /\ main = "serving" /\ ~ poisoned
    /\ Free("gateways")
    /\ held' = [held EXCEPT !["gateways"] = "visitor"]
    /\ UNCHANGED <<mainVars, gateways, poisoned, menu, run, stop_asked>>

DiagnosticsPrinted ==
    /\ held["gateways"] = "visitor"
    /\ held' = [held EXCEPT !["gateways"] = "free"]
    /\ UNCHANGED <<mainVars, gateways, poisoned, menu, run, stop_asked>>

RunSteps(t) ==
    \/ TriggerFires(t) \/ StartsStream(t) \/ Looks(t) \/ place_orders(t)
    \/ BrokerAnswers(t) \/ StopsStream(t) \/ RunEnds(t) \/ RunPanics(t)

Next ==
    \/ GatewayInit \/ get_order_executions \/ ExecutionsRequested \/ ExecutionsEnd
    \/ StartServices \/ Signal \/ exit
    \/ MenuAsks \/ MenuTakesClient \/ MenuForces \/ MenuAnswered \/ MenuPanics \/ MenuStops
    \/ \E t \in Runs : RunSteps(t)
    \/ server_diagnostics \/ DiagnosticsPrinted

\* A page is printed at once; the thread serves every task, and gets the lock
\* of the gateways between two pages.
Fairness ==
    /\ WF_vars(DiagnosticsPrinted)
    /\ SF_vars(exit)
    /\ \A t \in Runs : SF_vars(place_orders(t))

Spec == Init /\ [][Next]_vars /\ Fairness

-----------------------------------------------------------------------------
\* The locks that the next step of a task needs.
RunNeeds(t) ==
    CASE run[t] \in {"starting", "leaving"} -> {"mark_value_cache"}
      [] run[t] = "placing" -> {"mark_value_cache", "gateways"}
      [] OTHER -> {}
MenuNeeds == IF menu = "prompt" THEN {"gateways"} ELSE {}

\* main() awaits with locks of std::sync held.  No other task of its thread is
\* about to take one of them: it would block the thread, and with it main().
NoTaskBlocksThread ==
    \A l \in Locks : held[l] = "main" =>
        l \notin MenuNeeds \cup UNION {RunNeeds(t) : t \in Runs}

\* A run that places its orders gets past it, to the broker if its clients are
\* there and else back to release its stream: no page that is printed, and no
\* menu test that panicked with the lock of the gateways held, is in the way.
RunsGetPastPlacing ==
    \A t \in Runs :
        run[t] = "placing"
            ~> run[t] = (IF Ready THEN "at_broker" ELSE "leaving") \/ main = "ended"

\* Told to stop, by the menu or by Ctrl-C, the process comes to its orderly end
\* with the gateways disconnected, whatever became of the menu and the runs.
StopEnds ==
    stop_asked ~> main = "ended" /\ \A c \in BrokerClients : gateways[c] = "missing"
=============================================================================

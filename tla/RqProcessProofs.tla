-------------------------- MODULE RqProcessProofs --------------------------
(***************************************************************************)
(* Theorems about RqProcess, for any set of scheduled tasks.               *)
(***************************************************************************)
EXTENDS RqProcess, TLAPS

\* main() with a lock in hand across its awaits.
Holding == {"connecting", "refreshing", "requesting", "streaming"}

Types ==
    /\ main \in Holding \cup {"starting", "serving", "ended", "failed"}
    /\ next \in 1..3
    /\ gateways \in [BrokerClients -> {"missing", "connected", "failed"}]
    /\ order_executions \in [BrokerClients -> {"absent", "nothing", "part", "all"}]
    /\ {scheduled_here, poisoned, stop_asked} \subseteq BOOLEAN
    /\ held \in [Locks -> {"free", "main", "visitor"}]
    /\ menu \in {"absent", "prompt", "asking", "testing", "forced", "stopping",
                 "closed", "panicked"}
    /\ run \in [Runs -> {"idle", "starting", "looking", "placing", "at_broker",
                         "leaving", "mailing"}]
    /\ menu = "forced" <=> run[Forced] # "idle"

\* Until the services are up nothing else runs; from then on main() holds no
\* lock.  get_order_executions() finds the lock of the gateways given back.
LocksInv ==
    /\ main \notin {"serving", "ended"} =>
          menu = "absent" /\ \A t \in Runs : run[t] = "idle"
    /\ main \notin Holding => \A l \in Locks : held[l] # "main"
    /\ main \in Holding \ {"connecting"} =>
          held["gateways"] # "main" /\ held["mark_value_cache"] # "main"

\* The clients are gone through in order, each by both init().
ClientsInv ==
    /\ main = "connecting" => \A i \in 1..(next - 1) : gateways[ClientList[i]] # "missing"
    /\ main \in Holding \ {"connecting"} =>
          \A i \in 1..(next - 1) : order_executions[ClientList[i]] # "absent"
    /\ main \in {"requesting", "streaming"} => gateways[ClientList[next]] = "connected"
    /\ main \in (Holding \ {"connecting"}) \cup {"starting", "serving"} =>
          \A c \in BrokerClients :
             /\ gateways[c] # "missing"
             /\ order_executions[c] \in {"part", "all"} => gateways[c] = "connected"
    /\ main = "connecting" => \A c \in BrokerClients : order_executions[c] = "absent"
    /\ main \in {"starting", "serving"} =>
          \A c \in BrokerClients : order_executions[c] # "absent"

IInv == Types /\ LocksInv /\ ClientsInv

-----------------------------------------------------------------------------
LEMMA ClientListFacts ==
    /\ Len(ClientList) = 3
    /\ \A i \in 1..3 : ClientList[i] \in BrokerClients
    /\ \A c \in BrokerClients : \E i \in 1..3 : ClientList[i] = c
  BY DEF ClientList, BrokerClients

LEMMA InitEstablishes == Init => IInv
<1> SUFFICES ASSUME Init PROVE IInv
  OBVIOUS
<1>1. Types
  <2>1. {scheduled_here, poisoned, stop_asked} \subseteq BOOLEAN
    BY Zenon DEF Init
  <2>2. held \in [Locks -> {"free", "main", "visitor"}]
    BY DEF Init
  <2>3. menu = "forced" <=> run[Forced] # "idle"
    BY DEF Init, Runs
  <2> QED
    BY <2>1, <2>2, <2>3 DEF Init, Types, Holding
<1>2. LocksInv
  BY DEF Init, LocksInv, Holding
<1>3. ClientsInv
  BY DEF Init, ClientsInv, Holding
<1> QED
  BY <1>1, <1>2, <1>3 DEF IInv

\* main() connects a gateway.
LEMMA GatewayInitPreserves == IInv /\ GatewayInit => IInv'
<1> SUFFICES ASSUME IInv, GatewayInit PROVE IInv'
  OBVIOUS
<1> USE ClientListFacts
<1>1. PICK outcome \in {"connected", "failed"} :
         gateways' = [gateways EXCEPT ![ClientList[next]] = outcome]
  BY DEF GatewayInit, Client
<1>2. /\ gateways' \in [BrokerClients -> {"missing", "connected", "failed"}]
      /\ gateways'[ClientList[next]] # "missing"
      /\ \A c \in BrokerClients : gateways[c] # "missing" => gateways'[c] # "missing"
  BY <1>1 DEF IInv, Types
<1>3. CASE next = 3
  <2>1. main' = "refreshing" /\ next' = 1
        /\ held' = [l \in Locks |-> IF l = "order_executions" THEN "main" ELSE "free"]
    BY <1>3 DEF GatewayInit, Last
  <2>2. \A c \in BrokerClients : gateways'[c] # "missing"
    <3>1. \A i \in 1..3 : gateways'[ClientList[i]] # "missing"
      BY <1>2, <1>3 DEF IInv, ClientsInv, GatewayInit
    <3> QED
      BY <3>1
  <2>3. Types'
    BY <1>2, <2>1 DEF IInv, Types, GatewayInit, Holding
  <2>4. LocksInv'
    BY <2>1 DEF IInv, LocksInv, GatewayInit, Holding, Locks
  <2>5. ClientsInv'
    BY <2>1, <2>2 DEF IInv, ClientsInv, GatewayInit, Holding
  <2> QED
    BY <2>3, <2>4, <2>5 DEF IInv
<1>4. CASE next # 3
  <2>1. main' = main /\ next' = next + 1 /\ held' = held /\ next \in 1..2
    BY <1>4 DEF GatewayInit, Last, IInv, Types
  <2>2. \A i \in 1..(next' - 1) : gateways'[ClientList[i]] # "missing"
    BY <1>2, <2>1 DEF IInv, ClientsInv, GatewayInit
  <2>3. Types'
    BY <1>2, <2>1 DEF IInv, Types, GatewayInit, Holding
  <2>4. LocksInv'
    BY <2>1 DEF IInv, LocksInv, GatewayInit, Holding, Locks
  <2>5. ClientsInv'
    BY <2>1, <2>2 DEF IInv, ClientsInv, GatewayInit, Holding
  <2> QED
    BY <2>3, <2>4, <2>5 DEF IInv
<1> QED
  BY <1>3, <1>4

\* What was read of a client's executions is stored.
LEMMA StorePreserves ==
    ASSUME IInv, NEW what \in {"nothing", "part", "all"}, Store(what),
           main \in Holding \ {"connecting"},
           what # "nothing" => gateways[ClientList[next]] = "connected",
           UNCHANGED <<gateways, scheduled_here, poisoned, menu, run, stop_asked>>
    PROVE  IInv'
<1> USE ClientListFacts
<1>1. order_executions' = [order_executions EXCEPT ![ClientList[next]] = what]
  BY DEF Store, Client
<1>2. /\ order_executions' \in [BrokerClients -> {"absent", "nothing", "part", "all"}]
      /\ order_executions'[ClientList[next]] = what
      /\ \A c \in BrokerClients : order_executions[c] # "absent" => order_executions'[c] # "absent"
      /\ \A c \in BrokerClients :
            order_executions'[c] \in {"part", "all"} => gateways[c] = "connected"
  BY <1>1 DEF IInv, Types, ClientsInv
<1>3. \A i \in 1..next : order_executions'[ClientList[i]] # "absent"
  BY <1>2 DEF IInv, Types, ClientsInv
<1>4. CASE next = 3
  <2>1. main' = "starting" /\ held' = [held EXCEPT !["order_executions"] = "free"] /\ next' = next
    BY <1>4 DEF Store, Last
  <2>2. Types'
    BY <1>2, <2>1 DEF IInv, Types, Locks
  <2>3. LocksInv'
    BY <2>1 DEF IInv, Types, LocksInv, Holding, Locks
  <2>4. ClientsInv'
    BY <1>2, <1>3, <1>4, <2>1 DEF IInv, ClientsInv, Holding
  <2> QED
    BY <2>2, <2>3, <2>4 DEF IInv
<1>5. CASE next # 3
  <2>1. main' = "refreshing" /\ held' = held /\ next' = next + 1 /\ next \in 1..2
    BY <1>5 DEF Store, Last, IInv, Types
  <2>2. Types'
    BY <1>2, <2>1 DEF IInv, Types, Holding
  <2>3. LocksInv'
    BY <2>1 DEF IInv, LocksInv, Holding, Locks
  <2>4. ClientsInv'
    BY <1>2, <1>3, <2>1 DEF IInv, ClientsInv, Holding
  <2> QED
    BY <2>2, <2>3, <2>4 DEF IInv
<1> QED
  BY <1>4, <1>5

\* A client's executions are asked for, or there is no client to ask.
LEMMA ExecutionsPreserve ==
    IInv /\ (get_order_executions \/ ExecutionsRequested \/ ExecutionsEnd) => IInv'
<1>1. ASSUME IInv, main \in {"refreshing", "requesting"}, gateways[ClientList[next]] = "connected",
             main' \in {"requesting", "streaming"},
             UNCHANGED <<next, order_executions, held, gateways, scheduled_here,
                         poisoned, menu, run, stop_asked>>
      PROVE  IInv'
  <2>1. Types'
    BY <1>1 DEF IInv, Types, Holding
  <2>2. LocksInv'
    BY <1>1 DEF IInv, LocksInv, Holding
  <2>3. ClientsInv'
    BY <1>1 DEF IInv, ClientsInv, Holding
  <2> QED
    BY <2>1, <2>2, <2>3 DEF IInv
<1>2. ASSUME IInv, get_order_executions PROVE IInv'
  <2>1. CASE Connected(Client)
    BY <1>1, <1>2, <2>1 DEF get_order_executions, Connected, Client
  <2>2. CASE ~ Connected(Client)
    BY <1>2, <2>2, StorePreserves DEF get_order_executions, Holding
  <2> QED
    BY <2>1, <2>2
<1>3. ASSUME IInv, ExecutionsRequested PROVE IInv'
  <2>1. gateways[ClientList[next]] = "connected"
    BY <1>3 DEF IInv, ClientsInv, ExecutionsRequested
  <2>2. CASE main' = "streaming" /\ UNCHANGED <<next, order_executions, held>>
    BY <1>1, <1>3, <2>1, <2>2 DEF ExecutionsRequested
  <2>3. CASE Store("nothing")
    BY <1>3, <2>3, StorePreserves DEF ExecutionsRequested, Holding
  <2> QED
    BY <1>3, <2>2, <2>3 DEF ExecutionsRequested
<1>4. ASSUME IInv, ExecutionsEnd PROVE IInv'
  <2>1. gateways[ClientList[next]] = "connected"
    BY <1>4 DEF IInv, ClientsInv, ExecutionsEnd
  <2>2. PICK what \in {"part", "all"} : Store(what)
    BY <1>4 DEF ExecutionsEnd
  <2> QED
    BY <1>4, <2>1, <2>2, StorePreserves DEF ExecutionsEnd, Holding
<1> QED
  BY <1>2, <1>3, <1>4

\* The services start, or the process fails; nobody holds a lock.
LEMMA StartPreserves == IInv /\ StartServices => IInv'
<1> SUFFICES ASSUME IInv, StartServices PROVE IInv'
  OBVIOUS
<1>1. Types'
  BY DEF IInv, Types, LocksInv, StartServices, Holding, Runs
<1>2. LocksInv'
  BY DEF IInv, LocksInv, StartServices, Holding
<1>3. ClientsInv'
  BY DEF IInv, ClientsInv, StartServices, Holding
<1> QED
  BY <1>1, <1>2, <1>3 DEF IInv

\* Steps under server.await, which leave to main() what is its own.
LEMMA ServingPreserves ==
    ASSUME IInv, main = "serving", UNCHANGED <<mainVars, gateways>>,
           Types', \A l \in Locks : held'[l] # "main"
    PROVE  IInv'
<1>1. LocksInv'
  BY DEF LocksInv, mainVars, Holding
<1>2. ClientsInv'
  BY DEF IInv, ClientsInv, mainVars, Holding
<1> QED
  BY <1>1, <1>2 DEF IInv

LEMMA MenuPreserves ==
    IInv /\ (Signal \/ MenuAsks \/ MenuTakesClient \/ MenuForces \/ MenuAnswered
             \/ MenuPanics \/ MenuStops) => IInv'
<1> SUFFICES ASSUME IInv, Signal \/ MenuAsks \/ MenuTakesClient \/ MenuForces
                          \/ MenuAnswered \/ MenuPanics \/ MenuStops
             PROVE  IInv'
  OBVIOUS
<1>1. main = "serving" /\ UNCHANGED <<mainVars, gateways>> /\ held' = held
  BY DEF Signal, MenuAsks, MenuTakesClient, MenuForces, MenuAnswered, MenuPanics,
         MenuStops, ServicesUp
<1>2. \A l \in Locks : held'[l] # "main"
  BY <1>1 DEF IInv, LocksInv, Holding
<1>3. Types'
  <2>1. CASE Signal
    BY <2>1 DEF Signal, IInv, Types, mainVars
  <2>2. CASE MenuAsks
    BY <2>2 DEF MenuAsks, IInv, Types, mainVars
  <2>3. CASE MenuTakesClient
    <3>1. PICK c \in {Gyantal, DcMain} :
             LET works == ~ poisoned /\ Connected(c)
             IN  /\ menu' = IF works THEN "testing" ELSE "panicked"
                 /\ poisoned' = (poisoned \/ ~ works)
      BY <2>3 DEF MenuTakesClient
    <3>2. poisoned' \in BOOLEAN /\ menu' \in {"testing", "panicked"}
      BY <3>1
    <3> QED
      BY <2>3, <3>2 DEF MenuTakesClient, IInv, Types, mainVars
  <2>4. CASE MenuForces
    BY <2>4 DEF MenuForces, IInv, Types, mainVars, Runs
  <2>5. CASE MenuAnswered
    BY <2>5 DEF MenuAnswered, IInv, Types, mainVars
  <2>6. CASE MenuPanics
    BY <2>6 DEF MenuPanics, IInv, Types, mainVars
  <2>7. CASE MenuStops
    BY <2>7 DEF MenuStops, IInv, Types, mainVars
  <2> QED
    BY <2>1, <2>2, <2>3, <2>4, <2>5, <2>6, <2>7
<1> QED
  BY <1>1, <1>2, <1>3, ServingPreserves

\* A step of a run between two of its states other than "idle".
LEMMA RunsPreserve == \A t \in Runs : IInv /\ RunSteps(t) => IInv'
<1> SUFFICES ASSUME NEW t \in Runs, IInv, RunSteps(t) PROVE IInv'
  OBVIOUS
<1>1. main = "serving" /\ UNCHANGED <<mainVars, gateways>> /\ held' = held
      /\ poisoned' = poisoned /\ stop_asked' = stop_asked
  BY DEF RunSteps, TriggerFires, StartsStream, Looks, place_orders, BrokerAnswers,
         StopsStream, RunEnds, RunPanics, RunStep, ServicesUp
<1>2. \A l \in Locks : held'[l] # "main"
  BY <1>1 DEF IInv, LocksInv, Holding
<1>3. ASSUME NEW pc \in {"starting", "looking", "placing", "at_broker", "leaving", "mailing"},
             run' = [run EXCEPT ![t] = pc], menu' = menu, run[t] # "idle" \/ t # Forced
      PROVE  Types'
  BY <1>1, <1>3 DEF IInv, Types, mainVars, Runs
<1>4. ASSUME run' = [run EXCEPT ![t] = "idle"], run[t] # "idle",
             \/ menu' = IF t = Forced THEN "prompt" ELSE menu
             \/ menu' = IF t = Forced THEN "panicked" ELSE menu
      PROVE  Types'
  BY <1>1, <1>4 DEF IInv, Types, mainVars, Runs
<1>5. Types'
  <2>1. CASE TriggerFires(t)
    BY <1>3, <2>1, ProcessAssumption DEF TriggerFires
  <2>2. CASE StartsStream(t) \/ BrokerAnswers(t) \/ StopsStream(t) \/ place_orders(t)
    BY <1>3, <2>2 DEF StartsStream, BrokerAnswers, StopsStream, place_orders, RunStep
  <2>3. CASE Looks(t)
    BY <1>3, <2>3 DEF Looks, RunStep
  <2>4. CASE RunEnds(t) \/ RunPanics(t)
    BY <1>4, <2>4 DEF RunEnds, RunPanics, RunStep
  <2> QED
    BY <2>1, <2>2, <2>3, <2>4 DEF RunSteps
<1> QED
  BY <1>1, <1>2, <1>5, ServingPreserves

\* A page takes and gives back the lock of the gateways.
LEMMA PagesPreserve == IInv /\ (server_diagnostics \/ DiagnosticsPrinted) => IInv'
<1> SUFFICES ASSUME IInv, server_diagnostics \/ DiagnosticsPrinted PROVE IInv'
  OBVIOUS
<1>1. PICK who \in {"visitor", "free"} : held' = [held EXCEPT !["gateways"] = who]
  BY DEF server_diagnostics, DiagnosticsPrinted
<1>2. UNCHANGED <<mainVars, gateways, poisoned, menu, run, stop_asked>>
  BY DEF server_diagnostics, DiagnosticsPrinted
<1>3. Types'
  BY <1>1, <1>2 DEF IInv, Types, Locks, mainVars
<1>4. LocksInv'
  BY <1>1, <1>2 DEF IInv, Types, LocksInv, Locks, mainVars
<1>5. ClientsInv'
  BY <1>2 DEF IInv, ClientsInv, mainVars
<1> QED
  BY <1>3, <1>4, <1>5 DEF IInv

\* exit() clears the gateways, and main() returns.
LEMMA ExitPreserves == IInv /\ exit => IInv'
<1> SUFFICES ASSUME IInv, exit PROVE IInv'
  OBVIOUS
<1>1. Types'
  BY DEF IInv, Types, exit
<1>2. LocksInv' /\ ClientsInv'
  BY DEF IInv, LocksInv, ClientsInv, exit, Holding
<1> QED
  BY <1>1, <1>2 DEF IInv

-----------------------------------------------------------------------------
\* The inductive invariant of the process: what main() holds, and what it has
\* brought up, where it stands.
THEOREM ProcessInvariant == Spec => []IInv
<1>1. IInv /\ [Next]_vars => IInv'
  <2> SUFFICES ASSUME IInv, [Next]_vars PROVE IInv'
    OBVIOUS
  <2>1. CASE UNCHANGED vars
    BY <2>1 DEF vars, IInv, Types, LocksInv, ClientsInv
  <2> QED
    BY <2>1, GatewayInitPreserves, ExecutionsPreserve, StartPreserves, MenuPreserves,
       RunsPreserve, PagesPreserve, ExitPreserves DEF Next
<1> QED
  BY InitEstablishes, <1>1, PTL DEF Spec

\* The state keeps its types, the menu awaits its forced run as long as that
\* goes on, and whoever is served finds every gateway tried and the
\* executions of every client stored, whatever failed on the way.
THEOREM ProcessTypeCorrect == Spec => []TypeOK
<1>1. IInv => TypeOK
  BY ClientListFacts DEF IInv, Types, ClientsInv, TypeOK, Holding, ClientList
<1> QED
  BY ProcessInvariant, <1>1, PTL

\* No task is about to take a lock that main() holds across an await: the
\* thread of all tasks is never blocked for ever.
THEOREM ThreadNeverBlocked == Spec => []NoTaskBlocksThread
<1>1. IInv => NoTaskBlocksThread
  <2> SUFFICES ASSUME IInv, NEW l \in Locks, held[l] = "main"
               PROVE  l \notin MenuNeeds \cup UNION {RunNeeds(t) : t \in Runs}
    BY DEF NoTaskBlocksThread
  <2>1. menu = "absent" /\ \A t \in Runs : run[t] = "idle"
    BY DEF IInv, LocksInv, Holding
  <2>2. MenuNeeds = {} /\ \A t \in Runs : RunNeeds(t) = {}
    BY <2>1 DEF MenuNeeds, RunNeeds
  <2> QED
    BY <2>2
<1> QED
  BY ProcessInvariant, <1>1, PTL
=============================================================================

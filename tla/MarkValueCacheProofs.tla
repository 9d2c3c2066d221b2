------------------------ MODULE MarkValueCacheProofs ------------------------
(***************************************************************************)
(* Theorems about MarkValueCache, for any number of runs, streams, tickers *)
(* and prices.  IInv is the inductive invariant of the cache as it is,     *)
(* with starts that fail; Exact adds what holds when none does.            *)
(***************************************************************************)
EXTENDS MarkValueCache, FiniteSetTheorems, TLAPS

\* The handle names the one live stream, and there is none without users.
HandleInv ==
    /\ OneStream
    /\ quote_stream_task # NoTask => stream[quote_stream_task] # "free"
    /\ quote_stream_users = 0 => quote_stream_task = NoTask

IInv == TypeOK /\ HandleInv /\ UsersNeverOvercounted

-----------------------------------------------------------------------------
\* The holders are finitely many, whatever the runs do.
LEMMA HoldersFinite ==
    /\ IsFiniteSet(Holders)
    /\ Cardinality(Holders) \in Nat
    /\ Cardinality(Holders) <= Cardinality(Callers)
    /\ Cardinality(Callers) \in Nat
<1>1. Holders \in SUBSET Callers
  BY DEF Holders
<1>2. IsFiniteSet(Holders) /\ Cardinality(Holders) <= Cardinality(Callers)
  BY <1>1, CallersAssumption, FS_Subset
<1> QED
  BY <1>2, CallersAssumption, FS_CardinalityType

\* A run that becomes a user is one holder more.
LEMMA HolderJoins ==
    ASSUME TypeOK, NEW c \in Callers, caller[c] \notin {"using", "lost"},
           caller' = [caller EXCEPT ![c] = "using"]
    PROVE  /\ Holders' = Holders \cup {c}
           /\ c \notin Holders
           /\ Cardinality(Holders') = Cardinality(Holders) + 1
<1>1. Holders' = Holders \cup {c} /\ c \notin Holders
  BY DEF Holders, TypeOK
<1> QED
  BY <1>1, HoldersFinite, FS_AddElement

\* A user that stops is one holder less.
LEMMA HolderLeaves ==
    ASSUME TypeOK, NEW c \in Callers, caller[c] = "using",
           caller' = [caller EXCEPT ![c] = "idle"]
    PROVE  /\ Holders' = Holders \ {c}
           /\ c \in Holders
           /\ Cardinality(Holders') = Cardinality(Holders) - 1
<1>1. Holders' = Holders \ {c} /\ c \in Holders
  BY DEF Holders, TypeOK
<1> QED
  BY <1>1, HoldersFinite, FS_RemoveElement

\* Moving a run between states on the same side leaves the holders alone.
LEMMA HoldersKept ==
    ASSUME TypeOK, NEW c \in Callers, NEW q,
           caller' = [caller EXCEPT ![c] = q],
           caller[c] \in {"using", "lost"} <=> q \in {"using", "lost"}
    PROVE  Holders' = Holders
  BY DEF Holders, TypeOK

-----------------------------------------------------------------------------
(***************************************************************************)
(* The inductive step, one lemma for each method.                          *)
(***************************************************************************)
\* start_quote_stream, its three ways out.
LEMMA StartKeepsIInv ==
    ASSUME IInv, NEW c \in Callers, start_quote_stream(c)
    PROVE  IInv'
<1> USE StreamAssumption, MaxUsersAssumption, HoldersFinite
<1>1. TypeOK /\ HandleInv /\ UsersNeverOvercounted
  BY DEF IInv
<1>2. caller[c] = "idle" /\ UNCHANGED mark_timevalues
  BY DEF start_quote_stream
<1>3. CASE JoinRunningStream(c)
  <2>1. Cardinality(Holders') = Cardinality(Holders) + 1
    BY <1>1, <1>2, <1>3, HolderJoins DEF JoinRunningStream
  <2>2. TypeOK'
    BY <1>1, <1>2, <1>3 DEF TypeOK, JoinRunningStream, SaturatingAdd, CallerStates
  <2>3. HandleInv'
    BY <1>1, <1>2, <1>3
    DEF HandleInv, TypeOK, OneStream, JoinRunningStream, SaturatingAdd
  <2>4. UsersNeverOvercounted'
    BY <1>1, <1>3, <2>1
    DEF UsersNeverOvercounted, TypeOK, JoinRunningStream, SaturatingAdd
  <2> QED
    BY <2>2, <2>3, <2>4 DEF IInv
<1>4. CASE SpawnStream(c)
  <2>1. Cardinality(Holders') = Cardinality(Holders) + 1
    BY <1>1, <1>2, <1>4, HolderJoins DEF SpawnStream
  <2>2. TypeOK'
    BY <1>1, <1>2, <1>4
    DEF TypeOK, SpawnStream, DropHandle, SaturatingAdd, CallerStates
  <2>3. HandleInv'
    BY <1>1, <1>2, <1>4
    DEF HandleInv, TypeOK, OneStream, SpawnStream, DropHandle, SaturatingAdd,
        is_quote_stream_running
  <2>4. UsersNeverOvercounted'
    BY <1>1, <1>4, <2>1
    DEF UsersNeverOvercounted, TypeOK, SpawnStream, SaturatingAdd
  <2> QED
    BY <2>2, <2>3, <2>4 DEF IInv
<1>5. CASE RollBackUser(c)
  <2>1. Holders' = Holders
    BY <1>1, <1>2, <1>5, HoldersKept DEF RollBackUser
  <2>2. TypeOK'
    BY <1>1, <1>2, <1>5
    DEF TypeOK, RollBackUser, DropHandle, SaturatingAdd, SaturatingSub, CallerStates
  <2>3. HandleInv'
    BY <1>1, <1>2, <1>5
    DEF HandleInv, TypeOK, OneStream, RollBackUser, DropHandle, is_quote_stream_running
  <2>4. UsersNeverOvercounted'
    BY <1>1, <1>5, <2>1
    DEF UsersNeverOvercounted, TypeOK, RollBackUser, SaturatingAdd, SaturatingSub
  <2> QED
    BY <2>2, <2>3, <2>4 DEF IInv
<1> QED
  BY <1>3, <1>4, <1>5 DEF start_quote_stream

\* stop_quote_stream, called by a user or by a run whose start was refused.
LEMMA StopKeepsIInv ==
    ASSUME IInv, NEW c \in Callers, stop_quote_stream(c)
    PROVE  IInv'
<1> USE StreamAssumption, MaxUsersAssumption, HoldersFinite
<1>1. TypeOK /\ HandleInv /\ UsersNeverOvercounted
  BY DEF IInv
<1>2. caller' = [caller EXCEPT ![c] = "idle"] /\ UNCHANGED mark_timevalues
  BY DEF stop_quote_stream
<1>3. \/ Cardinality(Holders') = Cardinality(Holders) - 1
      \/ Cardinality(Holders') = Cardinality(Holders)
  <2>1. CASE caller[c] = "using"
    BY <1>1, <1>2, <2>1, HolderLeaves
  <2>2. CASE caller[c] = "refused"
    <3>1. Holders' = Holders
      BY <1>1, <1>2, <2>2, HoldersKept
    <3> QED
      BY <3>1
  <2> QED
    BY <2>1, <2>2 DEF stop_quote_stream
<1>4. Cardinality(Holders') \in Nat
  <2>1. Holders' \in SUBSET Callers
    BY DEF Holders
  <2> QED
    BY <2>1, CallersAssumption, FS_Subset, FS_CardinalityType
<1>5. CASE StopWithoutUsers
  BY <1>1, <1>2, <1>4, <1>5
  DEF IInv, TypeOK, HandleInv, OneStream, UsersNeverOvercounted, StopWithoutUsers,
      CallerStates
<1>6. CASE ReleaseUser
  BY <1>1, <1>2, <1>3, <1>4, <1>6
  DEF IInv, TypeOK, HandleInv, OneStream, UsersNeverOvercounted, ReleaseUser,
      CallerStates
<1>7. CASE ReleaseLastUser
  BY <1>1, <1>2, <1>4, <1>7
  DEF IInv, TypeOK, HandleInv, OneStream, UsersNeverOvercounted, ReleaseLastUser,
      AbortTask, CallerStates
<1> QED
  BY <1>5, <1>6, <1>7 DEF stop_quote_stream

\* The stream's own steps and the panic of a run change no count.
LEMMA OtherStepsKeepIInv ==
    ASSUME IInv,
           \/ \E c \in Callers : RunPanics(c)
           \/ \E s \in StreamIds : StreamReceives(s) \/ StreamEnds(s)
           \/ UNCHANGED vars
    PROVE  IInv'
<1>1. TypeOK /\ HandleInv /\ UsersNeverOvercounted
  BY DEF IInv
<1>2. ASSUME NEW c \in Callers, RunPanics(c)
      PROVE  IInv'
  <2>1. Holders' = Holders
    BY <1>1, <1>2 DEF RunPanics, Holders, TypeOK
  <2> QED
    BY <1>1, <1>2, <2>1
    DEF IInv, TypeOK, HandleInv, OneStream, UsersNeverOvercounted, RunPanics,
        CallerStates
<1>3. ASSUME NEW s \in StreamIds, StreamReceives(s) \/ StreamEnds(s)
      PROVE  IInv'
  <2>1. Holders' = Holders
    BY <1>3 DEF StreamReceives, StreamEnds, Holders
  <2> QED
    BY <1>1, <1>3, <2>1
    DEF IInv, TypeOK, HandleInv, OneStream, UsersNeverOvercounted, StreamReceives,
        StreamEnds
<1>4. CASE UNCHANGED vars
  BY <1>1, <1>4
  DEF IInv, TypeOK, HandleInv, OneStream, UsersNeverOvercounted, vars, Holders
<1> QED
  BY <1>2, <1>3, <1>4

LEMMA InitIInv == Init => IInv
<1> SUFFICES ASSUME Init PROVE IInv
  OBVIOUS
<1>1. Holders = {}
  BY DEF Init, Holders
<1>2. Cardinality(Holders) = 0
  BY <1>1, FS_EmptySet
<1> QED
  BY <1>2, StreamAssumption, MaxUsersAssumption
  DEF Init, IInv, TypeOK, HandleInv, OneStream, UsersNeverOvercounted, CallerStates

\* The invariant holds in every state, with starts that fail and runs that die.
THEOREM CacheInvariant == Spec => []IInv
<1>1. IInv /\ [Next]_vars => IInv'
  BY StartKeepsIInv, StopKeepsIInv, OtherStepsKeepIInv DEF Next
<1> QED
  BY InitIInv, <1>1, PTL DEF Spec

\* Type correctness of the cache, its handle and its callers.
THEOREM TypeCorrect == Spec => []TypeOK
  BY CacheInvariant, PTL DEF IInv

\* A ticker that has a price keeps one: neither a stream that ends or is aborted
\* nor a NaN it brings takes the price away, whatever starts fail.
THEOREM PricesStayKnown == Spec => KnownStaysKnown
<1> DEFINE Kept == \A t \in Tickers : get_mark_value(t) # NaN => get_mark_value(t)' # NaN
<1>1. TypeOK /\ [Next]_vars => [Kept]_vars
  <2> SUFFICES ASSUME TypeOK, Next PROVE Kept
    OBVIOUS
  <2>1. CASE \E s \in StreamIds : StreamReceives(s)
    BY <2>1 DEF StreamReceives, get_mark_value, TypeOK
  <2>2. CASE ~ \E s \in StreamIds : StreamReceives(s)
    <3>1. UNCHANGED mark_timevalues
      BY <2>2 DEF Next, start_quote_stream, stop_quote_stream, RunPanics, StreamEnds
    <3> QED
      BY <3>1 DEF get_mark_value
  <2> QED
    BY <2>1, <2>2
<1> QED
  BY <1>1, TypeCorrect, PTL DEF Spec, KnownStaysKnown

\* start_quote_stream never loses a live stream: at most one exists.
THEOREM StreamIsUnique == Spec => []OneStream
  BY CacheInvariant, PTL DEF IInv, HandleInv

\* stop_quote_stream by the last user leaves no stream alive.
THEOREM LastStopEndsStream == Spec => []NoStreamWithoutUsers
<1>1. IInv => NoStreamWithoutUsers
  BY StreamAssumption DEF IInv, HandleInv, OneStream, NoStreamWithoutUsers
<1> QED
  BY <1>1, CacheInvariant, PTL

-----------------------------------------------------------------------------
(***************************************************************************)
(* When StreamBuilder never fails, no run is refused, the count is exact   *)
(* and the cache keeps the promise of SharedStream.                        *)
(***************************************************************************)
StartsSucceed == StartMayFail = FALSE /\ Tickers # {}

Exact ==
    /\ IInv
    /\ UsersExact
    /\ \A c \in Callers : caller[c] # "refused"

\* What a start does to the holders and to the count when it cannot fail.
LEMMA ExactStart ==
    ASSUME StartsSucceed, Exact, NEW c \in Callers, start_quote_stream(c)
    PROVE  /\ Exact'
           /\ c \notin Holders
           /\ Holders' = Holders \cup {c}
           /\ is_quote_stream_running'
           /\ \A s \in StreamIds : stream[s] = "running" => stream'[s] = "running"
<1> USE StreamAssumption, MaxUsersAssumption, HoldersFinite
<1>1. IInv'
  BY StartKeepsIInv DEF Exact
<1>2. TypeOK /\ HandleInv /\ UsersExact
  BY DEF Exact, IInv
<1>3. caller[c] = "idle" /\ ~ RollBackUser(c)
  BY DEF start_quote_stream, RollBackUser, StartsSucceed
<1>4. /\ caller' = [caller EXCEPT ![c] = "using"]
      /\ quote_stream_users' = SaturatingAdd(quote_stream_users)
  BY <1>3 DEF start_quote_stream, JoinRunningStream, SpawnStream
<1>5. /\ Holders' = Holders \cup {c}
      /\ c \notin Holders
      /\ Cardinality(Holders') = Cardinality(Holders) + 1
  BY <1>2, <1>3, <1>4, HolderJoins
<1>6. Cardinality(Holders) + 1 <= MaxUsers
  <2>1. Holders' \in SUBSET Callers
    BY DEF Holders
  <2>2. Cardinality(Holders') <= Cardinality(Callers) /\ Cardinality(Holders') \in Nat
    BY <2>1, CallersAssumption, FS_Subset, FS_CardinalityType
  <2> QED
    BY <2>2, <1>5
<1>7. UsersExact'
  BY <1>2, <1>4, <1>5, <1>6 DEF UsersExact, SaturatingAdd
<1>8. \A d \in Callers : caller'[d] # "refused"
  BY <1>2, <1>4 DEF Exact, TypeOK
<1>9. /\ is_quote_stream_running'
      /\ \A s \in StreamIds : stream[s] = "running" => stream'[s] = "running"
  <2>1. CASE JoinRunningStream(c)
    BY <2>1, <1>2 DEF JoinRunningStream, is_quote_stream_running
  <2>2. CASE SpawnStream(c)
    BY <2>2, <1>2
    DEF SpawnStream, DropHandle, is_quote_stream_running, TypeOK
  <2> QED
    BY <2>1, <2>2, <1>3 DEF start_quote_stream
<1> QED
  BY <1>1, <1>5, <1>7, <1>8, <1>9 DEF Exact

\* What a stop does: the stream ends exactly with the last holder.
LEMMA ExactStop ==
    ASSUME StartsSucceed, Exact, NEW c \in Callers, stop_quote_stream(c)
    PROVE  /\ Exact'
           /\ c \in Holders
           /\ Holders' = Holders \ {c}
           /\ \/ Holders' # {} /\ stream' = stream
              \/ Holders' = {} /\ \A s \in StreamIds : stream'[s] = "free"
<1> USE StreamAssumption, MaxUsersAssumption, HoldersFinite
<1>1. IInv'
  BY StopKeepsIInv DEF Exact
<1>2. TypeOK /\ HandleInv /\ UsersExact
  BY DEF Exact, IInv
<1>3. caller[c] = "using" /\ caller' = [caller EXCEPT ![c] = "idle"]
  BY DEF stop_quote_stream, Exact
<1>4. /\ Holders' = Holders \ {c}
      /\ c \in Holders
      /\ Cardinality(Holders') = Cardinality(Holders) - 1
  BY <1>2, <1>3, HolderLeaves
<1>5. quote_stream_users >= 1 /\ quote_stream_users \in Nat
  <2>1. Cardinality(Holders) # 0
    BY <1>4, FS_EmptySet
  <2> QED
    BY <2>1, <1>2 DEF UsersExact
<1>6. IsFiniteSet(Holders')
  BY <1>4, FS_RemoveElement
<1>7. Holders' = {} <=> Cardinality(Holders') = 0
  BY <1>6, FS_EmptySet
<1>8. \A d \in Callers : caller'[d] # "refused"
  BY <1>2, <1>3 DEF Exact, TypeOK
<1>9. CASE ReleaseUser
  <2>1. UsersExact' /\ Holders' # {} /\ stream' = stream
    BY <1>2, <1>4, <1>5, <1>7, <1>9 DEF ReleaseUser, UsersExact
  <2> QED
    BY <2>1, <1>1, <1>4, <1>8 DEF Exact
<1>10. CASE ReleaseLastUser
  <2>1. UsersExact' /\ Holders' = {}
    BY <1>2, <1>4, <1>5, <1>7, <1>10 DEF ReleaseLastUser, UsersExact
  <2>2. \A s \in StreamIds : stream'[s] = "free"
    BY <1>2, <1>10 DEF ReleaseLastUser, AbortTask, HandleInv, OneStream
  <2> QED
    BY <2>1, <2>2, <1>1, <1>4, <1>8 DEF Exact
<1> QED
  BY <1>5, <1>9, <1>10 DEF stop_quote_stream, StopWithoutUsers

\* The remaining steps leave the holders alone.
LEMMA ExactOther ==
    ASSUME Exact,
           \/ \E c \in Callers : RunPanics(c)
           \/ \E s \in StreamIds : StreamReceives(s) \/ StreamEnds(s)
           \/ UNCHANGED vars
    PROVE  Exact' /\ Holders' = Holders
<1>1. IInv'
  BY OtherStepsKeepIInv DEF Exact
<1>2. TypeOK /\ UsersExact
  BY DEF Exact, IInv
<1>3. CASE \E c \in Callers : RunPanics(c)
  <2>1. Holders' = Holders
    BY <1>2, <1>3 DEF RunPanics, Holders, TypeOK
  <2> QED
    BY <2>1, <1>1, <1>2, <1>3 DEF RunPanics, Exact, UsersExact, TypeOK
<1>4. CASE UNCHANGED vars \/ \E s \in StreamIds : StreamReceives(s) \/ StreamEnds(s)
  <2>1. caller' = caller /\ quote_stream_users' = quote_stream_users
    BY <1>4 DEF StreamReceives, StreamEnds, vars
  <2>2. Holders' = Holders
    BY <2>1 DEF Holders
  <2> QED
    BY <2>1, <2>2, <1>1, <1>2 DEF Exact, UsersExact
<1> QED
  BY <1>3, <1>4

LEMMA ExactInvariant ==
    ASSUME StartsSucceed
    PROVE  Spec => []Exact
<1>1. Init => Exact
  <2> SUFFICES ASSUME Init PROVE Exact
    OBVIOUS
  <2>1. Holders = {}
    BY DEF Init, Holders
  <2> QED
    BY <2>1, InitIInv, FS_EmptySet DEF Init, Exact, UsersExact
<1>2. Exact /\ [Next]_vars => Exact'
  BY StartsSucceed, ExactStart, ExactStop, ExactOther DEF Next
<1> QED
  BY <1>1, <1>2, PTL DEF Spec

\* Without failed starts the count is the number of runs that owe a stop.
THEOREM CountIsExact ==
    ASSUME StartsSucceed
    PROVE  Spec => []UsersExact
<1>1. Spec => []Exact
  BY StartsSucceed, ExactInvariant
<1> QED
  BY <1>1, PTL DEF Exact

\* Without failed starts no stop aborts the stream of another run.
THEOREM StreamIsKept ==
    ASSUME StartsSucceed
    PROVE  Spec => StreamKeptForUsers
<1> DEFINE Kept == \A s \in StreamIds :
                      stream[s] = "running" /\ stream'[s] = "free"
                         => \A c \in Callers : caller'[c] # "using"
<1>1. Exact /\ [Next]_vars => [Kept]_vars
  <2> SUFFICES ASSUME Exact, Next PROVE Kept
    OBVIOUS
  <2>1. CASE \E c \in Callers : start_quote_stream(c)
    BY <2>1, StartsSucceed, ExactStart
  <2>2. ASSUME NEW c \in Callers, stop_quote_stream(c)
        PROVE  Kept
    BY <2>2, StartsSucceed, ExactStop DEF Holders
  <2>3. CASE \E c \in Callers : RunPanics(c)
    BY <2>3 DEF RunPanics
  <2>4. CASE \E s \in StreamIds : StreamReceives(s) \/ StreamEnds(s)
    BY <2>4 DEF StreamReceives, StreamEnds, Exact, IInv, TypeOK
  <2> QED
    BY <2>1, <2>2, <2>3, <2>4 DEF Next
<1>2. Spec => []Exact
  BY StartsSucceed, ExactInvariant
<1> QED
  BY <1>1, <1>2, PTL DEF Spec, StreamKeptForUsers

\* Without failed starts the counted handle implements the shared stream:
\* every step maps to an acquire, a release, an end of the stream or a stutter.
THEOREM ImplementsPromise ==
    ASSUME StartsSucceed
    PROVE  Spec => ImplementsSharedStream
<1> DEFINE on == \E s \in StreamIds : stream[s] = "running"
<1>1. Init => Promise!Init
  BY DEF Init, Promise!Init, Holders
<1>2. Exact /\ [Next]_vars => [Promise!Next]_(Promise!vars)
  <2> SUFFICES ASSUME Exact, [Next]_vars
               PROVE  Promise!Next \/ UNCHANGED Promise!vars
    OBVIOUS
  <2> USE DEF Promise!Next, Promise!vars
  <2>1. ASSUME NEW c \in Callers, start_quote_stream(c)
        PROVE  Promise!Acquire(c)
    <3>1. on'
      BY <2>1, StartsSucceed, ExactStart, StreamAssumption
      DEF is_quote_stream_running, Exact, IInv, TypeOK
    <3> QED
      BY <3>1, <2>1, StartsSucceed, ExactStart DEF Promise!Acquire
  <2>2. ASSUME NEW c \in Callers, stop_quote_stream(c)
        PROVE  Promise!Release(c)
    <3>1. on' <=> on /\ Holders' # {}
      BY <2>2, StartsSucceed, ExactStop
    <3> QED
      BY <3>1, <2>2, StartsSucceed, ExactStop DEF Promise!Release
  <2>3. CASE \E c \in Callers : RunPanics(c)
    BY <2>3, ExactOther DEF RunPanics
  <2>4. CASE \E s \in StreamIds : StreamReceives(s)
    BY <2>4, ExactOther DEF StreamReceives
  <2>5. CASE \E s \in StreamIds : StreamEnds(s)
    <3>1. on /\ ~ on'
      BY <2>5 DEF StreamEnds, Exact, IInv, TypeOK, HandleInv, OneStream
    <3> QED
      BY <3>1, <2>5, ExactOther DEF Promise!Ends
  <2>6. CASE UNCHANGED vars
    BY <2>6 DEF vars, Holders
  <2> QED
    BY <2>1, <2>2, <2>3, <2>4, <2>5, <2>6 DEF Next
<1>3. Spec => []Exact
  BY StartsSucceed, ExactInvariant
<1> QED
  BY <1>1, <1>2, <1>3, PTL DEF Spec, ImplementsSharedStream, Promise!Spec
=============================================================================

-------------------------- MODULE HttpRequestLogs --------------------------
(***************************************************************************)
(* middleware/http_request_logger.rs: the last requests the web server     *)
(* answered, kept in a ring that all its workers share, and the page       *)
(* /httprequestactivitylog that prints them.                               *)
(*                                                                         *)
(* The workers are threads, each with many requests under way.  What the   *)
(* logger wraps is external: the handlers may answer, change the session   *)
(* on their way, end with an error that is no response, or be dropped with *)
(* the connection of a client that leaves.  Of an entry the model keeps    *)
(* what the concurrency could spoil, the request and its user; the rest of *)
(* its fields are copies of the request and of the response.               *)
(***************************************************************************)
EXTENDS Naturals, SequencesExt

CONSTANTS
    Requests,     \* identities of requests, each used once (bound)
    PageRequests, \* those for /httprequestactivitylog
    Users,        \* the e-mails, the empty one of an anonymous user among them
    Capacity      \* 50

ASSUME RequestsAssumption == PageRequests \subseteq Requests
ASSUME CapacityAssumption == Capacity \in Nat \ {0}

VARIABLES
    http_request_logs,   \* the VecDeque, oldest first
    request,             \* where each request stands
    session,             \* the session in the extensions of each request
    user_email,          \* the local of the middleware
    logs,                \* the clone of the ring that a page prints
    answered,            \* history: the entries due, in the order of completion
    arrival,             \* history: [user, completions before] of each request
    pages                \* history: the pages printed

vars == <<http_request_logs, request, session, user_email, logs,
          answered, arrival, pages>>

Entry == [request : Requests, client_user_email : Users]
PCs == {"unsent", "inner", "printing", "answering", "logged", "gone"}

\* A request that is through has its entry, or has given way to newer ones.
TypeOK ==
    /\ http_request_logs \in Seq(Entry) /\ Len(http_request_logs) <= Capacity
    /\ request \in [Requests -> PCs]
    /\ {session, user_email} \subseteq [Requests -> Users]
    /\ logs \in [Requests -> Seq(Entry)]
    /\ answered \in Seq(Entry)
    /\ arrival \in [Requests -> [user : Users, seen : Nat]]
    /\ \A p \in pages : p.rows \in Seq(Entry)
    /\ \A q \in Requests : request[q] = "logged" =>
          \/ \E i \in DOMAIN http_request_logs : http_request_logs[i].request = q
          \/ Len(http_request_logs) = Capacity

Init ==
    /\ http_request_logs = <<>>
    /\ request = [q \in Requests |-> "unsent"]
    /\ session \in {[q \in Requests |-> u] : u \in Users}
    /\ user_email = session
    /\ logs = [q \in Requests |-> <<>>]
    /\ answered = <<>>
    /\ arrival = [q \in Requests |-> [user |-> session[q], seen |-> 0]]
    /\ pages = {}

-----------------------------------------------------------------------------
\* The middleware up to its await: what the entry says of the request is read
\* before the handlers see it.
Arrives(q) ==
    /\ request[q] = "unsent"
    /\ request' = [request EXCEPT ![q] = "inner"]
    /\ \E u \in Users :
          /\ session' = [session EXCEPT ![q] = u]
          /\ user_email' = [user_email EXCEPT ![q] = u]
          /\ arrival' = [arrival EXCEPT ![q] = [user |-> u, seen |-> Len(answered)]]
    /\ UNCHANGED <<http_request_logs, logs, answered, pages>>

\* A handler of another page answers; a login or a logout changes the session.
Handled(q) ==
    /\ request[q] = "inner"
    /\ q \notin PageRequests
    /\ request' = [request EXCEPT ![q] = "answering"]
    /\ \E u \in Users : session' = [session EXCEPT ![q] = u]
    /\ UNCHANGED <<http_request_logs, user_email, logs, answered, arrival, pages>>

\* http_request_activity() clones the ring under its lock ...
ClonesLogs(q) ==
    /\ request[q] = "inner"
    /\ q \in PageRequests
    /\ request' = [request EXCEPT ![q] = "printing"]
    /\ logs' = [logs EXCEPT ![q] = http_request_logs]
    /\ UNCHANGED <<http_request_logs, session, user_email, answered, arrival, pages>>

\* Mutant: .rev() is missing.
OldestFirst(entries) == entries

NewestFirst(entries) == Reverse(entries)

\* ... and prints the clone while others go on.
Prints(q) ==
    /\ request[q] = "printing"
    /\ request' = [request EXCEPT ![q] = "answering"]
    /\ logs' = [logs EXCEPT ![q] = <<>>]
    /\ pages' = pages \cup {[request |-> q, rows |-> NewestFirst(logs[q]),
                             upto |-> Len(answered)]}
    /\ UNCHANGED <<http_request_logs, session, user_email, answered, arrival>>

\* The inner service returns an error (the ? of the middleware), or the client
\* leaves while it is awaited: no entry is written.
Fails(q) ==
    /\ request[q] = "inner"
    /\ request' = [request EXCEPT ![q] = "gone"]
    /\ UNCHANGED <<http_request_logs, session, user_email, logs, answered, arrival, pages>>

\* Mutant: the capacity is tested for more than.
PushOneMore(entries, e) ==
    IF Len(entries) > Capacity THEN Append(Tail(entries), e) ELSE Append(entries, e)

\* pop_front() when full, and push_back().
Push(entries, e) ==
    IF Len(entries) >= Capacity THEN Append(Tail(entries), e) ELSE Append(entries, e)

\* Mutant: the session is read behind the await.
LogsUserAfter(q) ==
    /\ request[q] = "answering"
    /\ request' = [request EXCEPT ![q] = "logged"]
    /\ http_request_logs' =
          Push(http_request_logs, [request |-> q, client_user_email |-> session[q]])
    /\ answered' =
          Append(answered, [request |-> q, client_user_email |-> arrival[q].user])
    /\ UNCHANGED <<session, user_email, logs, arrival, pages>>

\* Behind the await: the entry is written under the lock, in the order in which
\* the requests complete.
Logs(q) ==
    /\ request[q] = "answering"
    /\ request' = [request EXCEPT ![q] = "logged"]
    /\ http_request_logs' =
          Push(http_request_logs, [request |-> q, client_user_email |-> user_email[q]])
    /\ answered' =
          Append(answered, [request |-> q, client_user_email |-> arrival[q].user])
    /\ UNCHANGED <<session, user_email, logs, arrival, pages>>

Next ==
    \E q \in Requests :
        Arrives(q) \/ Handled(q) \/ ClonesLogs(q) \/ Prints(q) \/ Fails(q) \/ Logs(q)

Spec == Init /\ [][Next]_vars

-----------------------------------------------------------------------------
\* The last Capacity of the first n completions.
LastOf(n) == SubSeq(answered, IF n > Capacity THEN n - Capacity + 1 ELSE 1, n)

\* However the workers interleave, the ring is the end of the history of
\* completed requests, each with the user it arrived with, whatever its own
\* handler did to the session.
LogIsEndOfHistory == http_request_logs = LastOf(Len(answered))

\* A page shows the ring as it was at one moment while its request was under
\* way, the newest entry first: nothing that completed before it was asked for
\* is missing, unless newer requests have replaced it.
PageIsRecentPast ==
    \A p \in pages :
        \E n \in arrival[p.request].seen..p.upto : p.rows = Reverse(LastOf(n))
=============================================================================

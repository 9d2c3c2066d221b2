----------------------- MODULE HttpRequestLogsProofs -----------------------
(***************************************************************************)
(* Theorems about HttpRequestLogs, for any set of requests, any users and  *)
(* a ring of any capacity.                                                 *)
(***************************************************************************)
EXTENDS HttpRequestLogs, SequenceTheorems, TLAPS

\* The last Capacity of the first n elements of a sequence.
EndOf(s, n) == SubSeq(s, IF n > Capacity THEN n - Capacity + 1 ELSE 1, n)

Types ==
    /\ http_request_logs \in Seq(Entry)
    /\ request \in [Requests -> PCs]
    /\ session \in [Requests -> Users]
    /\ user_email \in [Requests -> Users]
    /\ logs \in [Requests -> Seq(Entry)]
    /\ answered \in Seq(Entry)
    /\ arrival \in [Requests -> [user : Users, seen : Nat]]
    /\ \A p \in pages : p.request \in Requests /\ p.rows \in Seq(Entry)

\* The local of the middleware is the user of the arrival.
ArrivalInv ==
    \A q \in Requests : request[q] # "unsent" =>
        user_email[q] = arrival[q].user /\ arrival[q].seen <= Len(answered)

\* A clone waiting to be printed was the ring at a moment since the arrival.
CloneInv ==
    \A q \in Requests : request[q] = "printing" =>
        \E n \in arrival[q].seen..Len(answered) : logs[q] = LastOf(n)

PagesInv ==
    \A p \in pages :
        /\ request[p.request] # "unsent"
        /\ p.upto \in Nat /\ p.upto <= Len(answered)

\* Every request that is through has its entry among the completions.
LoggedInv ==
    /\ Len(http_request_logs) <= Capacity
    /\ \A q \in Requests : request[q] = "logged" =>
          \/ \E i \in DOMAIN http_request_logs : http_request_logs[i].request = q
          \/ Len(http_request_logs) = Capacity

IInv ==
    /\ Types /\ ArrivalInv /\ CloneInv /\ PagesInv /\ LoggedInv
    /\ LogIsEndOfHistory /\ PageIsRecentPast

-----------------------------------------------------------------------------
\* The end of a sequence: its length and its elements.
LEMMA EndOfProperties ==
    ASSUME NEW S, NEW s \in Seq(S), NEW n \in 0..Len(s)
    PROVE  /\ EndOf(s, n) \in Seq(S)
           /\ Len(EndOf(s, n)) = IF n > Capacity THEN Capacity ELSE n
           /\ \A i \in 1..Len(EndOf(s, n)) :
                 EndOf(s, n)[i] = IF n > Capacity THEN s[n - Capacity + i] ELSE s[i]
<1> DEFINE m == IF n > Capacity THEN n - Capacity + 1 ELSE 1
<1>1. Len(s) \in Nat /\ m \in Nat \ {0} /\ m <= n + 1 /\ n \in Nat
  BY LenProperties, CapacityAssumption
<1>2. \A i \in m..n : s[i] \in S
  BY <1>1, ElementOfSeq
<1>3. EndOf(s, n) = SubSeq(s, m, n)
  BY DEF EndOf
<1> HIDE DEF m
<1>4. /\ SubSeq(s, m, n) \in Seq(S)
      /\ Len(SubSeq(s, m, n)) = IF m <= n THEN n - m + 1 ELSE 0
      /\ \A i \in 1..(n - m + 1) : SubSeq(s, m, n)[i] = s[m + i - 1]
  BY <1>1, <1>2, SubSeqProperties
<1>5. Len(EndOf(s, n)) = n - m + 1
  BY <1>1, <1>3, <1>4
<1>6. \A i \in 1..Len(EndOf(s, n)) : EndOf(s, n)[i] = s[m + i - 1]
  BY <1>3, <1>4, <1>5
<1> QED
  BY <1>1, <1>3, <1>4, <1>5, <1>6, CapacityAssumption DEF m

\* What comes behind does not change the end of the first n.
LEMMA EndOfKept ==
    ASSUME NEW S, NEW s \in Seq(S), NEW e \in S, NEW n \in 0..Len(s)
    PROVE  EndOf(Append(s, e), n) = EndOf(s, n)
<1>1. /\ Append(s, e) \in Seq(S) /\ Len(Append(s, e)) = Len(s) + 1
      /\ \A i \in 1..Len(s) : Append(s, e)[i] = s[i]
      /\ Len(s) \in Nat
  BY AppendProperties, LenProperties
<1>2. n \in 0..Len(Append(s, e))
  BY <1>1
<1>3. /\ EndOf(s, n) \in Seq(S) /\ EndOf(Append(s, e), n) \in Seq(S)
      /\ Len(EndOf(Append(s, e), n)) = Len(EndOf(s, n))
  BY <1>1, <1>2, EndOfProperties
<1>4. ASSUME NEW i \in 1..Len(EndOf(s, n))
      PROVE  EndOf(Append(s, e), n)[i] = EndOf(s, n)[i]
  <2>1. Len(EndOf(s, n)) = IF n > Capacity THEN Capacity ELSE n
    BY EndOfProperties
  <2>2. EndOf(s, n)[i] = IF n > Capacity THEN s[n - Capacity + i] ELSE s[i]
    BY EndOfProperties
  <2>3. EndOf(Append(s, e), n)[i] =
          IF n > Capacity THEN Append(s, e)[n - Capacity + i] ELSE Append(s, e)[i]
    BY <1>1, <1>2, <1>3, EndOfProperties
  <2>4. IF n > Capacity THEN n - Capacity + i \in 1..Len(s) ELSE i \in 1..Len(s)
    BY <1>1, <2>1, CapacityAssumption
  <2> QED
    BY <1>1, <2>2, <2>3, <2>4
<1> QED
  BY <1>3, <1>4, SeqEqual

\* pop_front() and push_back() on the end of a sequence make the end of the
\* longer one.
LEMMA PushIsEndOfAppend ==
    ASSUME NEW S, NEW s \in Seq(S), NEW e \in S
    PROVE  Push(EndOf(s, Len(s)), e) = EndOf(Append(s, e), Len(s) + 1)
<1> DEFINE ring == EndOf(s, Len(s))
           longer == Append(s, e)
<1>1. /\ longer \in Seq(S) /\ Len(longer) = Len(s) + 1 /\ Len(s) \in Nat
      /\ \A i \in 1..Len(s) : longer[i] = s[i]
      /\ longer[Len(s) + 1] = e
  BY AppendProperties, LenProperties
<1>2. /\ ring \in Seq(S)
      /\ Len(ring) = IF Len(s) > Capacity THEN Capacity ELSE Len(s)
      /\ \A i \in 1..Len(ring) :
            ring[i] = IF Len(s) > Capacity THEN s[Len(s) - Capacity + i] ELSE s[i]
  BY <1>1, EndOfProperties
<1>3. /\ EndOf(longer, Len(s) + 1) \in Seq(S)
      /\ Len(EndOf(longer, Len(s) + 1)) =
            IF Len(s) + 1 > Capacity THEN Capacity ELSE Len(s) + 1
      /\ \A i \in 1..Len(EndOf(longer, Len(s) + 1)) : EndOf(longer, Len(s) + 1)[i] =
            IF Len(s) + 1 > Capacity THEN longer[Len(s) + 1 - Capacity + i] ELSE longer[i]
  <2> HIDE DEF longer
  <2> DEFINE n == Len(s) + 1
  <2>1. n \in 0..Len(longer)
    BY <1>1
  <2> HIDE DEF n
  <2>2. /\ EndOf(longer, n) \in Seq(S)
        /\ Len(EndOf(longer, n)) = IF n > Capacity THEN Capacity ELSE n
        /\ \A i \in 1..Len(EndOf(longer, n)) : EndOf(longer, n)[i] =
              IF n > Capacity THEN longer[n - Capacity + i] ELSE longer[i]
    BY <1>1, <2>1, EndOfProperties
  <2> QED
    BY <2>2 DEF n
<1> HIDE DEF ring, longer
<1>4. CASE Len(ring) >= Capacity
  <2>1. Len(s) >= Capacity /\ Len(ring) = Capacity
    BY <1>1, <1>2, <1>4, CapacityAssumption
  <2>2. ring # <<>>
    BY <2>1, EmptySeq, CapacityAssumption
  <2>3. /\ Tail(ring) \in Seq(S) /\ Len(Tail(ring)) = Capacity - 1
        /\ \A i \in 1..(Capacity - 1) : Tail(ring)[i] = ring[i + 1]
    BY <1>2, <2>1, <2>2, HeadTailProperties
  <2>4. /\ Append(Tail(ring), e) \in Seq(S)
        /\ Len(Append(Tail(ring), e)) = Capacity
        /\ \A i \in 1..(Capacity - 1) : Append(Tail(ring), e)[i] = ring[i + 1]
        /\ Append(Tail(ring), e)[Capacity] = e
    <3>1. /\ Append(Tail(ring), e) \in Seq(S)
          /\ Len(Append(Tail(ring), e)) = Len(Tail(ring)) + 1
          /\ \A i \in 1..Len(Tail(ring)) : Append(Tail(ring), e)[i] = Tail(ring)[i]
          /\ Append(Tail(ring), e)[Len(Tail(ring)) + 1] = e
      BY <2>3, AppendProperties
    <3> QED
      BY <2>3, <3>1, CapacityAssumption
  <2>5. ASSUME NEW i \in 1..Capacity
        PROVE  Append(Tail(ring), e)[i] = EndOf(longer, Len(s) + 1)[i]
    <3>1. EndOf(longer, Len(s) + 1)[i] = longer[Len(s) + 1 - Capacity + i]
      BY <1>1, <1>3, <2>1, CapacityAssumption
    <3>2. CASE i = Capacity
      <4>1. Len(s) + 1 - Capacity + i = Len(s) + 1
        BY <1>1, <3>2, CapacityAssumption
      <4> QED
        BY <1>1, <2>4, <3>1, <3>2, <4>1
    <3>3. CASE i # Capacity
      <4>1. i \in 1..(Capacity - 1) /\ i + 1 \in 1..Len(ring)
        BY <2>1, <3>3, CapacityAssumption
      <4>2. ring[i + 1] = s[Len(s) - Capacity + (i + 1)]
        <5>1. CASE Len(s) > Capacity
          BY <1>2, <4>1, <5>1
        <5>2. CASE Len(s) = Capacity
          <6>1. ring[i + 1] = s[i + 1] /\ Len(s) - Capacity + (i + 1) = i + 1
            BY <1>2, <4>1, <5>2, CapacityAssumption
          <6> QED
            BY <6>1
        <5> QED
          BY <1>1, <2>1, <5>1, <5>2, CapacityAssumption
      <4>3. /\ Len(s) - Capacity + (i + 1) = Len(s) + 1 - Capacity + i
            /\ Len(s) + 1 - Capacity + i \in 1..Len(s)
        BY <1>1, <2>1, <4>1, CapacityAssumption
      <4> QED
        BY <1>1, <2>4, <3>1, <4>1, <4>2, <4>3
    <3> QED
      BY <3>2, <3>3
  <2>6. Append(Tail(ring), e) = EndOf(longer, Len(s) + 1)
    BY <1>1, <1>3, <2>1, <2>4, <2>5, SeqEqual, CapacityAssumption
  <2> QED
    BY <1>4, <2>6 DEF Push, ring, longer
<1>5. CASE ~ Len(ring) >= Capacity
  <2>1. Len(s) < Capacity /\ Len(ring) = Len(s)
    BY <1>1, <1>2, <1>5, CapacityAssumption
  <2>2. /\ Append(ring, e) \in Seq(S) /\ Len(Append(ring, e)) = Len(s) + 1
        /\ \A i \in 1..Len(s) : Append(ring, e)[i] = ring[i]
        /\ Append(ring, e)[Len(s) + 1] = e
    BY <1>2, <2>1, AppendProperties
  <2>3. ASSUME NEW i \in 1..(Len(s) + 1)
        PROVE  Append(ring, e)[i] = EndOf(longer, Len(s) + 1)[i]
    <3>1. EndOf(longer, Len(s) + 1)[i] = longer[i]
      BY <1>1, <1>3, <2>1, CapacityAssumption
    <3>2. CASE i = Len(s) + 1
      BY <1>1, <2>2, <3>1, <3>2
    <3>3. CASE i # Len(s) + 1
      <4>1. i \in 1..Len(s)
        BY <1>1, <3>3
      <4>2. ring[i] = s[i]
        BY <1>1, <1>2, <2>1, <4>1, CapacityAssumption
      <4> QED
        BY <1>1, <2>2, <3>1, <4>1, <4>2
    <3> QED
      BY <3>2, <3>3
  <2>4. Append(ring, e) = EndOf(longer, Len(s) + 1)
    BY <1>1, <1>3, <2>1, <2>2, <2>3, SeqEqual, CapacityAssumption
  <2> QED
    BY <1>5, <2>4 DEF Push, ring, longer
<1> QED
  BY <1>4, <1>5

-----------------------------------------------------------------------------
LEMMA LastOfIsEndOf == \A n : LastOf(n) = EndOf(answered, n)
  BY DEF LastOf, EndOf

LEMMA InitEstablishes == Init => IInv
<1> SUFFICES ASSUME Init PROVE IInv
  OBVIOUS
<1>1. Types
  BY EmptySeq DEF Init, Types, PCs
<1>2. ArrivalInv /\ CloneInv /\ PagesInv
  BY DEF Init, ArrivalInv, CloneInv, PagesInv
<1>3. LoggedInv /\ PageIsRecentPast
  BY EmptySeq, CapacityAssumption DEF Init, LoggedInv, PageIsRecentPast
<1>4. LogIsEndOfHistory
  <2>1. <<>> \in Seq(Entry) /\ Len(<<>>) = 0
    BY EmptySeq
  <2>2. LastOf(0) = SubSeq(<<>>, 1, 0)
    BY CapacityAssumption DEF Init, LastOf
  <2>3. SubSeq(<<>>, 1, 0) = <<>>
    BY SubSeqEmpty
  <2> QED
    BY <2>1, <2>2, <2>3 DEF Init, LogIsEndOfHistory
<1> QED
  BY <1>1, <1>2, <1>3, <1>4 DEF IInv

\* A step that leaves the ring, the history, the clones and the pages alone.
LEMMA QuietPreserves ==
    ASSUME IInv, Types', ArrivalInv', NEW q \in Requests,
           UNCHANGED <<http_request_logs, answered, logs, pages>>,
           NEW pc \in {"inner", "answering", "gone"},
           request' = [request EXCEPT ![q] = pc],
           \A o \in Requests : request[o] # "unsent" => arrival'[o] = arrival[o]
    PROVE  IInv'
<1>1. \A n : LastOf(n)' = LastOf(n)
  BY DEF LastOf
<1>2. CloneInv'
  <2> SUFFICES ASSUME NEW o \in Requests, request'[o] = "printing"
               PROVE  \E n \in arrival'[o].seen..Len(answered') : logs'[o] = LastOf(n)'
    BY DEF CloneInv
  <2>1. request[o] = "printing" /\ arrival'[o] = arrival[o]
    BY DEF IInv, Types
  <2> QED
    BY <1>1, <2>1 DEF IInv, CloneInv
<1>3. PagesInv'
  BY DEF IInv, Types, PagesInv
<1>4. LoggedInv'
  BY DEF IInv, Types, LoggedInv
<1>5. LogIsEndOfHistory'
  BY <1>1 DEF IInv, LogIsEndOfHistory
<1>6. PageIsRecentPast'
  <2> SUFFICES ASSUME NEW p \in pages
               PROVE  \E n \in arrival'[p.request].seen..p.upto : p.rows = Reverse(LastOf(n)')
    BY DEF PageIsRecentPast
  <2>1. arrival'[p.request] = arrival[p.request]
    BY DEF IInv, Types, PagesInv
  <2> QED
    BY <1>1, <2>1 DEF IInv, PageIsRecentPast
<1> QED
  BY <1>2, <1>3, <1>4, <1>5, <1>6 DEF IInv

LEMMA ArrivesPreserves == \A q \in Requests : IInv /\ Arrives(q) => IInv'
<1> SUFFICES ASSUME NEW q \in Requests, IInv, Arrives(q) PROVE IInv'
  OBVIOUS
<1>1. PICK u \in Users :
         /\ session' = [session EXCEPT ![q] = u]
         /\ user_email' = [user_email EXCEPT ![q] = u]
         /\ arrival' = [arrival EXCEPT ![q] = [user |-> u, seen |-> Len(answered)]]
  BY DEF Arrives
<1>2. Len(answered) \in Nat
  BY LenProperties DEF IInv, Types
<1>3. Types'
  BY <1>1, <1>2 DEF IInv, Types, Arrives, PCs
<1>4. ArrivalInv'
  BY <1>1, <1>2 DEF IInv, Types, ArrivalInv, Arrives
<1> QED
  BY <1>1, <1>3, <1>4, QuietPreserves DEF Arrives, IInv, Types

LEMMA InnerPreserves == \A q \in Requests : IInv /\ (Handled(q) \/ Fails(q)) => IInv'
<1> SUFFICES ASSUME NEW q \in Requests, IInv, Handled(q) \/ Fails(q) PROVE IInv'
  OBVIOUS
<1>1. Types'
  BY DEF IInv, Types, Handled, Fails, PCs
<1>2. ArrivalInv'
  BY DEF IInv, Types, ArrivalInv, Handled, Fails
<1> QED
  BY <1>1, <1>2, QuietPreserves DEF Handled, Fails

LEMMA ClonesLogsPreserves == \A q \in Requests : IInv /\ ClonesLogs(q) => IInv'
<1> SUFFICES ASSUME NEW q \in Requests, IInv, ClonesLogs(q) PROVE IInv'
  OBVIOUS
<1>1. \A n : LastOf(n)' = LastOf(n)
  BY DEF LastOf, ClonesLogs
<1>2. Types'
  BY DEF IInv, Types, ClonesLogs, PCs
<1>3. ArrivalInv'
  BY DEF IInv, Types, ArrivalInv, ClonesLogs
<1>4. CloneInv'
  <2> SUFFICES ASSUME NEW o \in Requests, request'[o] = "printing"
               PROVE  \E n \in arrival[o].seen..Len(answered) : logs'[o] = LastOf(n)
    BY <1>1 DEF CloneInv, ClonesLogs
  <2>1. CASE o = q
    <3>1. logs'[q] = LastOf(Len(answered))
      BY DEF IInv, Types, LogIsEndOfHistory, ClonesLogs
    <3>2. Len(answered) \in arrival[q].seen..Len(answered)
      BY LenProperties DEF IInv, Types, ArrivalInv, ClonesLogs
    <3> QED
      BY <2>1, <3>1, <3>2
  <2>2. CASE o # q
    BY <2>2 DEF IInv, Types, CloneInv, ClonesLogs
  <2> QED
    BY <2>1, <2>2
<1>5. PagesInv' /\ LoggedInv'
  BY DEF IInv, Types, PagesInv, LoggedInv, ClonesLogs
<1>6. LogIsEndOfHistory' /\ PageIsRecentPast'
  BY <1>1 DEF IInv, LogIsEndOfHistory, PageIsRecentPast, ClonesLogs
<1> QED
  BY <1>2, <1>3, <1>4, <1>5, <1>6 DEF IInv

\* A clone is a page, whatever was written since.
LEMMA PrintsPreserves == \A q \in Requests : IInv /\ Prints(q) => IInv'
<1> SUFFICES ASSUME NEW q \in Requests, IInv, Prints(q) PROVE IInv'
  OBVIOUS
<1> DEFINE page == [request |-> q, rows |-> NewestFirst(logs[q]), upto |-> Len(answered)]
<1>1. pages' = pages \cup {page}
  BY DEF Prints
<1>2. \A n : LastOf(n)' = LastOf(n)
  BY DEF LastOf, Prints
<1>3. page.rows \in Seq(Entry)
  <2>1. logs[q] \in Seq(Entry)
    BY DEF IInv, Types
  <2>2. /\ Len(logs[q]) \in Nat
        /\ \A i \in 1..Len(logs[q]) : logs[q][i] \in Entry
    BY <2>1, LenProperties, ElementOfSeq
  <2>3. [i \in 1..Len(logs[q]) |-> logs[q][(Len(logs[q]) - i) + 1]]
           \in [1..Len(logs[q]) -> Entry]
    BY <2>2
  <2>4. NewestFirst(logs[q]) \in Seq(Entry)
    BY <2>2, <2>3, SeqDef DEF NewestFirst, Reverse
  <2> QED
    BY <2>4
<1>4. Len(answered) \in Nat
  BY LenProperties DEF IInv, Types
<1>5. Types'
  <2>1. \A p \in pages' : p.request \in Requests /\ p.rows \in Seq(Entry)
    BY <1>1, <1>3 DEF IInv, Types
  <2> QED
    BY <2>1, EmptySeq DEF IInv, Types, Prints, PCs
<1>6. ArrivalInv'
  BY DEF IInv, Types, ArrivalInv, Prints
<1>7. CloneInv'
  BY <1>2 DEF IInv, Types, CloneInv, Prints
<1>8. PagesInv'
  BY <1>1, <1>4 DEF IInv, Types, PagesInv, Prints
<1>9. LoggedInv' /\ LogIsEndOfHistory'
  BY <1>2 DEF IInv, Types, LoggedInv, LogIsEndOfHistory, Prints
<1>10. PageIsRecentPast'
  <2> SUFFICES ASSUME NEW p \in pages'
               PROVE  \E n \in arrival[p.request].seen..p.upto : p.rows = Reverse(LastOf(n))
    BY <1>2 DEF PageIsRecentPast, Prints
  <2>1. CASE p = page
    <3>1. PICK n \in arrival[q].seen..Len(answered) : logs[q] = LastOf(n)
      BY DEF IInv, CloneInv, Prints
    <3> QED
      BY <2>1, <3>1 DEF NewestFirst
  <2>2. CASE p \in pages
    BY <2>2 DEF IInv, PageIsRecentPast
  <2> QED
    BY <1>1, <2>1, <2>2
<1> QED
  BY <1>5, <1>6, <1>7, <1>8, <1>9, <1>10 DEF IInv

\* An entry is written: the end of the history moves on, and what older clones
\* and pages show stays the end of a shorter one.
LEMMA LogsPreserves == \A q \in Requests : IInv /\ Logs(q) => IInv'
<1> SUFFICES ASSUME NEW q \in Requests, IInv, Logs(q) PROVE IInv'
  OBVIOUS
<1> DEFINE e == [request |-> q, client_user_email |-> user_email[q]]
<1>1. /\ e \in Entry
      /\ http_request_logs' = Push(http_request_logs, e)
      /\ answered' = Append(answered, e)
      /\ answered \in Seq(Entry) /\ Len(answered) \in Nat
  BY LenProperties DEF IInv, Types, ArrivalInv, Logs, Entry
<1>2. answered' \in Seq(Entry) /\ Len(answered') = Len(answered) + 1
  BY <1>1, AppendProperties
<1>3. \A n \in 0..Len(answered) : LastOf(n)' = LastOf(n)
  <2> HIDE DEF e
  <2> QED
    BY <1>1, EndOfKept DEF LastOf, EndOf
<1>4. LogIsEndOfHistory'
  <2> HIDE DEF e
  <2>1. Push(EndOf(answered, Len(answered)), e) = EndOf(answered', Len(answered'))
    BY <1>1, <1>2, PushIsEndOfAppend
  <2> QED
    BY <1>1, <2>1 DEF IInv, LogIsEndOfHistory, LastOf, EndOf
<1>5. /\ http_request_logs' \in Seq(Entry)
      /\ Len(http_request_logs') =
            IF Len(http_request_logs) >= Capacity THEN Capacity
            ELSE Len(http_request_logs) + 1
      /\ Len(http_request_logs) < Capacity =>
            /\ \A i \in 1..Len(http_request_logs) :
                  http_request_logs'[i] = http_request_logs[i]
            /\ http_request_logs'[Len(http_request_logs) + 1] = e
  <2> HIDE DEF e
  <2>1. http_request_logs \in Seq(Entry) /\ Len(http_request_logs) \in 0..Capacity
    BY LenProperties, CapacityAssumption DEF IInv, Types, LoggedInv
  <2>2. CASE Len(http_request_logs) >= Capacity
    <3>1. http_request_logs # <<>> /\ Len(http_request_logs) = Capacity
      BY <2>1, <2>2, EmptySeq, CapacityAssumption
    <3>2. /\ Tail(http_request_logs) \in Seq(Entry)
          /\ Len(Tail(http_request_logs)) = Capacity - 1
      BY <2>1, <3>1, HeadTailProperties
    <3>3. /\ Append(Tail(http_request_logs), e) \in Seq(Entry)
          /\ Len(Append(Tail(http_request_logs), e)) = Len(Tail(http_request_logs)) + 1
      BY <1>1, <3>2, AppendProperties
    <3>4. Len(Append(Tail(http_request_logs), e)) = Capacity
      BY <3>2, <3>3, CapacityAssumption
    <3> QED
      BY <1>1, <2>2, <3>1, <3>3, <3>4, CapacityAssumption DEF Push
  <2>3. CASE Len(http_request_logs) < Capacity
    <3>1. http_request_logs' = Append(http_request_logs, e)
      BY <1>1, <2>1, <2>3, CapacityAssumption DEF Push
    <3> QED
      BY <1>1, <2>1, <2>3, <3>1, AppendProperties, CapacityAssumption
  <2> QED
    BY <2>1, <2>2, <2>3, CapacityAssumption
<1>6. Types'
  BY <1>2, <1>5 DEF IInv, Types, Logs, PCs
<1>7. ArrivalInv'
  <2> SUFFICES ASSUME NEW o \in Requests, request'[o] # "unsent"
               PROVE  user_email[o] = arrival[o].user /\ arrival[o].seen <= Len(answered')
    BY DEF ArrivalInv, Logs
  <2>1. request[o] # "unsent" /\ arrival[o].seen \in Nat
    BY DEF IInv, Types, Logs
  <2> QED
    BY <1>1, <1>2, <2>1 DEF IInv, ArrivalInv
<1>8. CloneInv'
  <2> SUFFICES ASSUME NEW o \in Requests, request'[o] = "printing"
               PROVE  \E n \in arrival[o].seen..Len(answered') : logs[o] = LastOf(n)'
    BY DEF CloneInv, Logs
  <2>1. request[o] = "printing" /\ arrival[o].seen \in Nat
    BY DEF IInv, Types, Logs
  <2>2. PICK n \in arrival[o].seen..Len(answered) : logs[o] = LastOf(n)
    BY <2>1 DEF IInv, CloneInv
  <2>3. n \in 0..Len(answered) /\ n \in arrival[o].seen..Len(answered')
    BY <1>1, <1>2, <2>1, <2>2
  <2> QED
    BY <1>3, <2>2, <2>3
<1>9. PagesInv'
  <2> SUFFICES ASSUME NEW p \in pages
               PROVE  /\ request'[p.request] # "unsent"
                      /\ p.upto \in Nat /\ p.upto <= Len(answered')
    BY DEF PagesInv, Logs
  <2> QED
    BY <1>1, <1>2 DEF IInv, Types, PagesInv, Logs
<1>10. LoggedInv'
  <2> HIDE DEF e
  <2>1. Len(http_request_logs) \in 0..Capacity /\ Len(http_request_logs) \in Nat
    BY LenProperties, CapacityAssumption DEF IInv, Types, LoggedInv
  <2>2. Len(http_request_logs') <= Capacity
    BY <1>5, <2>1, CapacityAssumption
  <2>3. ASSUME NEW o \in Requests, request'[o] = "logged"
        PROVE  \/ \E i \in DOMAIN http_request_logs' : http_request_logs'[i].request = o
               \/ Len(http_request_logs') = Capacity
    <3>1. CASE Len(http_request_logs) >= Capacity
      BY <1>5, <3>1
    <3>2. CASE Len(http_request_logs) < Capacity
      <4>1. DOMAIN http_request_logs' = 1..(Len(http_request_logs) + 1)
        BY <1>5, <2>1, <3>2, LenProperties, CapacityAssumption
      <4>2. CASE o = q
        <5>1. http_request_logs'[Len(http_request_logs) + 1].request = q
          BY <1>5, <3>2 DEF e
        <5>2. Len(http_request_logs) + 1 \in DOMAIN http_request_logs'
          BY <2>1, <4>1
        <5> QED
          BY <4>2, <5>1, <5>2
      <4>3. CASE o # q
        <5>1. request[o] = "logged"
          BY <2>3, <4>3 DEF IInv, Types, Logs
        <5>2. PICK i \in DOMAIN http_request_logs : http_request_logs[i].request = o
          BY <2>1, <3>2, <5>1, CapacityAssumption DEF IInv, LoggedInv
        <5>3. i \in 1..Len(http_request_logs)
          BY <5>2, LenProperties DEF IInv, Types
        <5>4. i \in DOMAIN http_request_logs' /\ http_request_logs'[i] = http_request_logs[i]
          BY <1>5, <2>1, <3>2, <4>1, <5>3
        <5> QED
          BY <5>2, <5>4
      <4> QED
        BY <4>2, <4>3
    <3> QED
      BY <2>1, <3>1, <3>2, CapacityAssumption
  <2> QED
    BY <2>2, <2>3 DEF LoggedInv
<1>11. PageIsRecentPast'
  <2> SUFFICES ASSUME NEW p \in pages
               PROVE  \E n \in arrival[p.request].seen..p.upto : p.rows = Reverse(LastOf(n)')
    BY DEF PageIsRecentPast, Logs
  <2>1. PICK n \in arrival[p.request].seen..p.upto : p.rows = Reverse(LastOf(n))
    BY DEF IInv, PageIsRecentPast
  <2>2. n \in 0..Len(answered)
    BY <1>1 DEF IInv, Types, PagesInv
  <2> QED
    BY <1>3, <2>1, <2>2
<1> QED
  BY <1>4, <1>6, <1>7, <1>8, <1>9, <1>10, <1>11 DEF IInv

-----------------------------------------------------------------------------
\* The inductive invariant of the log: the ring, the clones that wait to be
\* printed and the pages are ends of one history.
THEOREM LogInvariant == Spec => []IInv
<1>1. IInv /\ [Next]_vars => IInv'
  <2> SUFFICES ASSUME IInv, [Next]_vars PROVE IInv'
    OBVIOUS
  <2>1. CASE UNCHANGED vars
    BY <2>1 DEF vars, IInv, Types, ArrivalInv, CloneInv, PagesInv, LoggedInv,
                LogIsEndOfHistory, PageIsRecentPast, LastOf
  <2> QED
    BY <2>1, ArrivesPreserves, InnerPreserves, ClonesLogsPreserves, PrintsPreserves,
       LogsPreserves DEF Next
<1> QED
  BY InitEstablishes, <1>1, PTL DEF Spec

\* The variables keep their types, the ring its capacity, and a request that is
\* through has its entry or has given way to newer ones.
THEOREM LogTypeCorrect == Spec => []TypeOK
<1>1. IInv => TypeOK
  BY DEF IInv, Types, LoggedInv, TypeOK
<1> QED
  BY LogInvariant, <1>1, PTL

\* However the workers interleave, the ring is the end of the history of the
\* requests that completed.
THEOREM RingIsEndOfHistory == Spec => []LogIsEndOfHistory
<1>1. IInv => LogIsEndOfHistory
  BY DEF IInv
<1> QED
  BY LogInvariant, <1>1, PTL

\* A page shows the ring as it was at a moment of its request.
THEOREM PagesShowOneMoment == Spec => []PageIsRecentPast
<1>1. IInv => PageIsRecentPast
  BY DEF IInv
<1> QED
  BY LogInvariant, <1>1, PTL
=============================================================================

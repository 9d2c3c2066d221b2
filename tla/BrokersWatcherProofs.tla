------------------------ MODULE BrokersWatcherProofs ------------------------
(***************************************************************************)
(* Theorems about BrokersWatcher, for any event lists, tickers and prices. *)
(***************************************************************************)
EXTENDS BrokersWatcher, FiniteSetTheorems, WellFoundedInduction, TLAPS

Known == Nat \ {0}                     \* the prices there may be
AnyPrice == Known \cup {NaN}

\* The lists of orders a strategy may have to place.
OrdersOf(s) == {<<>>} \cup {OrdersToPlace(s, events) : events \in EventLists[s]}

Lists == {<<>>} \cup UNION {OrdersOf(s) : s \in Strategies}

Entry == [order : Nat, outcome : Outcomes, shares : Int, price : AnyPrice,
          from_cache : BOOLEAN]

Batch == [pc : PCs, orders : Lists, is_simulation : BOOLEAN,
          ticker_markvalues : [Tickers -> Prices \cup {NaN}],
          ahead : Seq(Nat), unknown_price_orders : Seq(Nat), price : AnyPrice,
          second_loop : BOOLEAN, trail : Seq(Entry)]

Distinct(q) == \A i, j \in DOMAIN q : q[i] = q[j] => i = j

\* The orders of a call are those with an outcome, those ahead in its loop
\* and, in the first loop, those put off; no order is in two of these places.
Partition(b) ==
    /\ IsFiniteSet(Handled(b)) /\ Cardinality(Handled(b)) = Len(b.trail)
    /\ Distinct(b.ahead) /\ Distinct(b.unknown_price_orders)
    /\ ToSet(b.ahead) \cap Handled(b) = {}
    /\ ToSet(b.unknown_price_orders) \subseteq DOMAIN b.orders
    /\ IF b.second_loop
         THEN DOMAIN b.orders = Handled(b) \cup ToSet(b.ahead)
         ELSE /\ ToSet(b.unknown_price_orders) \cap (Handled(b) \cup ToSet(b.ahead)) = {}
              /\ DOMAIN b.orders = Handled(b) \cup ToSet(b.ahead)
                                      \cup ToSet(b.unknown_price_orders)
    /\ b.pc = "done" => Handled(b) = DOMAIN b.orders

\* The order in hand, while the call awaits.
InHand(b) == b.orders[Head(b.ahead)]
Awaiting(b) ==
    /\ b.pc \in {"submitting", "requesting_bars", "awaiting_bar"} => b.ahead # <<>>
    /\ b.pc \in {"requesting_bars", "awaiting_bar"} => b.second_loop
    /\ b.pc = "submitting" =>
          /\ ~ b.is_simulation /\ b.price \in Known
          /\ NumShares(InHand(b).pos_market_value, b.price) \in 1..I32Max
          /\ ~ b.second_loop => b.price = CachedPrice(b, InHand(b).ticker)

\* What the trail says of each order.
EntryOK(b, e) ==
    /\ e.outcome = "submitted" => ~ b.is_simulation
    /\ e.outcome \in {"simulated", "submitted"} =>
          /\ e.shares \in 1..I32Max /\ e.price \in Known
          /\ e.shares = NumShares(b.orders[e.order].pos_market_value, e.price)
    /\ e.from_cache => e.price = CachedPrice(b, b.orders[e.order].ticker)

Trail(b) == \A k \in DOMAIN b.trail : EntryOK(b, b.trail[k])

BatchInv(b) == b \in Batch /\ Partition(b) /\ Awaiting(b) /\ Trail(b)

IInv ==
    /\ gateways \in [BrokerClients -> {"connected", "failed", "missing"}]
    /\ mark_timevalues \in [Tickers -> Prices \cup {NaN}]
    /\ batch \in [Strategies -> Batch]
    /\ \A s \in Strategies : BatchInv(batch[s])

-----------------------------------------------------------------------------
LEMMA ConstantFacts ==
    /\ NaN \notin Nat /\ Prices \subseteq Known
    /\ {PqpBuyPv, PqpSellPv, ApBuyPv} \subseteq Nat
    /\ \A s \in Strategies : \A events \in EventLists[s] :
          /\ events \in Seq(ToSet(events))
          /\ \A i \in DOMAIN events : /\ events[i].action \in {"buy", "sell"}
                                     /\ events[i].price \in AnyPrice
  BY OrdersAssumption, BrokersAssumption DEF Known, AnyPrice

\* A portfolio value is divided by a count that is not zero.
LEMMA PositionsSized ==
    ASSUME NEW s \in Strategies, NEW events \in EventLists[s], NEW i \in DOMAIN events
    PROVE  PositionMarketValue(s, events, events[i]) \in Nat
<1> DEFINE same == {j \in DOMAIN events : events[j].action = events[i].action}
<1>1. DOMAIN events = 1..Len(events) /\ Len(events) \in Nat
  BY ConstantFacts
<1>2. IsFiniteSet(DOMAIN events)
  BY <1>1, FS_Interval
<1>3. IsFiniteSet(same) /\ same # {}
  BY <1>2, FS_Subset
<1>4. Cardinality(same) \in Nat /\ Cardinality(same) # 0
  BY <1>3, FS_CardinalityType, FS_EmptySet
<1>5. count_order_types(events[i].action, events) = Cardinality(same)
  BY DEF count_order_types
<1>6. PortfolioValue(s, events[i].action) \in Nat
  BY ConstantFacts, OrdersAssumption, Zenon DEF PortfolioValue
<1> HIDE DEF same
<1> QED
  BY <1>4, <1>5, <1>6 DEF PositionMarketValue

\* What the calls place is a list of sized orders.
LEMMA ListFacts ==
    ASSUME NEW orders \in Lists
    PROVE  /\ \E n \in Nat : DOMAIN orders = 1..n
           /\ \A i \in DOMAIN orders : /\ orders[i].pos_market_value \in Nat
                                      /\ orders[i].known_last_price \in AnyPrice
<1>1. CASE orders = <<>>
  BY <1>1
<1>2. ASSUME NEW s \in Strategies, NEW events \in EventLists[s],
             orders = build_rqorders(s, events)
      PROVE  /\ \E n \in Nat : DOMAIN orders = 1..n
             /\ \A i \in DOMAIN orders : /\ orders[i].pos_market_value \in Nat
                                        /\ orders[i].known_last_price \in AnyPrice
  <2>1. DOMAIN events = 1..Len(events) /\ Len(events) \in Nat
    BY ConstantFacts
  <2>2. DOMAIN orders = DOMAIN events
    BY <1>2 DEF build_rqorders
  <2>3. \A i \in DOMAIN events :
           /\ orders[i].pos_market_value = PositionMarketValue(s, events, events[i])
           /\ orders[i].known_last_price = events[i].price
    BY <1>2 DEF build_rqorders
  <2> QED
    BY <2>1, <2>2, <2>3, PositionsSized, ConstantFacts
<1>3. CASE orders # <<>>
  <2>1. PICK s \in Strategies : \E events \in EventLists[s] : orders = OrdersToPlace(s, events)
    BY <1>3 DEF Lists, OrdersOf
  <2>2. \E events \in EventLists[s] : orders = build_rqorders(s, events)
    BY <1>3, <2>1 DEF OrdersToPlace
  <2> QED
    BY <1>2, <2>2
<1> QED
  BY <1>1, <1>3

-----------------------------------------------------------------------------
\* Lists of orders without repetition.
LEMMA TailFacts ==
    ASSUME NEW q \in Seq(Nat), q # <<>>, Distinct(q)
    PROVE  /\ Tail(q) \in Seq(Nat) /\ Distinct(Tail(q))
           /\ Head(q) \in Nat /\ Head(q) \in ToSet(q)
           /\ ToSet(Tail(q)) = ToSet(q) \ {Head(q)}
<1>1. /\ Len(q) \in Nat \ {0} /\ DOMAIN q = 1..Len(q)
      /\ Len(Tail(q)) = Len(q) - 1 /\ DOMAIN Tail(q) = 1..(Len(q) - 1)
      /\ Head(q) = q[1] /\ q[1] \in Nat /\ Tail(q) \in Seq(Nat)
      /\ \A i \in 1..(Len(q) - 1) : Tail(q)[i] = q[i + 1]
  OBVIOUS
<1>2. Distinct(Tail(q))
  BY <1>1 DEF Distinct
<1>3. ToSet(Tail(q)) = ToSet(q) \ {Head(q)}
  <2>1. ASSUME NEW x \in ToSet(Tail(q)) PROVE x \in ToSet(q) /\ x # Head(q)
    <3>1. PICK i \in 1..(Len(q) - 1) : Tail(q)[i] = x
      BY <1>1 DEF ToSet
    <3>2. i + 1 \in 1..Len(q) /\ i + 1 # 1 /\ 1 \in 1..Len(q) /\ q[i + 1] = x
      BY <1>1, <3>1
    <3>3. x # q[1]
      BY <1>1, <3>2 DEF Distinct
    <3> QED
      BY <1>1, <3>2, <3>3 DEF ToSet
  <2>2. ASSUME NEW x, x \in ToSet(q), x # Head(q) PROVE x \in ToSet(Tail(q))
    <3>1. PICK i \in 1..Len(q) : q[i] = x
      BY <1>1, <2>2 DEF ToSet
    <3>2. i - 1 \in 1..(Len(q) - 1) /\ Tail(q)[i - 1] = x
      BY <1>1, <2>2, <3>1
    <3> QED
      BY <1>1, <3>2 DEF ToSet
  <2> QED
    BY <2>1, <2>2
<1>4. Head(q) \in ToSet(q)
  <2>1. 1 \in DOMAIN q
    BY <1>1
  <2> QED
    BY <1>1, <2>1 DEF ToSet
<1> QED
  BY <1>1, <1>2, <1>3, <1>4

LEMMA AppendFacts ==
    ASSUME NEW q \in Seq(Nat), Distinct(q), NEW x \in Nat, x \notin ToSet(q)
    PROVE  /\ Append(q, x) \in Seq(Nat) /\ Distinct(Append(q, x))
           /\ ToSet(Append(q, x)) = ToSet(q) \cup {x}
<1>1. /\ Len(q) \in Nat /\ DOMAIN q = 1..Len(q)
      /\ DOMAIN Append(q, x) = 1..(Len(q) + 1) /\ Append(q, x) \in Seq(Nat)
      /\ \A i \in 1..Len(q) : Append(q, x)[i] = q[i]
      /\ Append(q, x)[Len(q) + 1] = x
  OBVIOUS
<1>2. Distinct(Append(q, x))
  BY <1>1 DEF Distinct, ToSet
<1>3. ToSet(Append(q, x)) = ToSet(q) \cup {x}
  <2>1. \A y : y \in ToSet(Append(q, x)) => y \in ToSet(q) \cup {x}
    BY <1>1 DEF ToSet
  <2>2. ToSet(q) \subseteq ToSet(Append(q, x))
    <3> SUFFICES ASSUME NEW i \in 1..Len(q) PROVE q[i] \in ToSet(Append(q, x))
      BY <1>1 DEF ToSet
    <3>1. i \in 1..(Len(q) + 1) /\ Append(q, x)[i] = q[i]
      BY <1>1
    <3> QED
      BY <1>1, <3>1 DEF ToSet
  <2>3. x \in ToSet(Append(q, x))
    BY <1>1 DEF ToSet
  <2> QED
    BY <2>1, <2>2, <2>3
<1> QED
  BY <1>1, <1>2, <1>3

\* The trail of a call, one entry longer.
LEMMA TrailFacts ==
    ASSUME NEW trail \in Seq(Entry), NEW e \in Entry
    PROVE  /\ Append(trail, e) \in Seq(Entry)
           /\ Len(Append(trail, e)) = Len(trail) + 1 /\ Len(trail) \in Nat
           /\ \A k \in DOMAIN Append(trail, e) :
                 Append(trail, e)[k] = e \/ (k \in DOMAIN trail /\ Append(trail, e)[k] = trail[k])
           /\ {Append(trail, e)[k].order : k \in DOMAIN Append(trail, e)}
                 = {trail[k].order : k \in DOMAIN trail} \cup {e.order}
<1> DEFINE new == Append(trail, e)
<1>1. /\ Len(trail) \in Nat /\ DOMAIN trail = 1..Len(trail)
      /\ DOMAIN new = 1..(Len(trail) + 1) /\ new \in Seq(Entry)
      /\ Len(new) = Len(trail) + 1
      /\ \A k \in 1..Len(trail) : new[k] = trail[k]
      /\ new[Len(trail) + 1] = e
  OBVIOUS
<1> HIDE DEF new
<1>2. \A k \in DOMAIN new : new[k] = e \/ (k \in DOMAIN trail /\ new[k] = trail[k])
  BY <1>1
<1>3. {new[k].order : k \in DOMAIN new} = {trail[k].order : k \in DOMAIN trail} \cup {e.order}
  <2>1. \A k \in DOMAIN trail : k \in DOMAIN new /\ new[k] = trail[k]
    BY <1>1
  <2>2. Len(trail) + 1 \in DOMAIN new
    BY <1>1
  <2> QED
    BY <1>1, <1>2, <2>1, <2>2
<1> QED
  BY <1>1, <1>2, <1>3 DEF new

-----------------------------------------------------------------------------
\* The order in hand gets its outcome: it moves from the orders ahead to the
\* trail.
LEMMA FinishKeeps ==
    ASSUME NEW b, BatchInv(b), b.ahead # <<>>,
           NEW outcome \in Outcomes, NEW shares \in Int, NEW price \in AnyPrice,
           outcome = "submitted" => ~ b.is_simulation,
           outcome \in {"simulated", "submitted"} =>
              /\ shares \in 1..I32Max /\ price \in Known
              /\ shares = NumShares(InHand(b).pos_market_value, price),
           ~ b.second_loop => price = CachedPrice(b, InHand(b).ticker)
    PROVE  BatchInv(Finish(b, outcome, shares, price))
<1> DEFINE e == [order |-> Head(b.ahead), outcome |-> outcome, shares |-> shares,
                 price |-> price, from_cache |-> ~ b.second_loop]
           g == Finish(b, outcome, shares, price)
<1>1. /\ b \in Batch /\ b.ahead \in Seq(Nat) /\ b.trail \in Seq(Entry)
      /\ Partition(b) /\ Trail(b)
  BY DEF BatchInv, Batch
<1>2. /\ Tail(b.ahead) \in Seq(Nat) /\ Distinct(Tail(b.ahead))
      /\ Head(b.ahead) \in Nat /\ Head(b.ahead) \in ToSet(b.ahead)
      /\ ToSet(Tail(b.ahead)) = ToSet(b.ahead) \ {Head(b.ahead)}
  BY <1>1, TailFacts DEF Partition
<1>3. e \in Entry
  BY <1>1, <1>2 DEF Entry, Batch
<1>4. e.order = Head(b.ahead) /\ EntryOK(b, e)
  BY DEF EntryOK, InHand
<1>5. /\ Append(b.trail, e) \in Seq(Entry)
      /\ Len(Append(b.trail, e)) = Len(b.trail) + 1 /\ Len(b.trail) \in Nat
      /\ \A k \in DOMAIN Append(b.trail, e) :
            \/ Append(b.trail, e)[k] = e
            \/ k \in DOMAIN b.trail /\ Append(b.trail, e)[k] = b.trail[k]
      /\ {Append(b.trail, e)[k].order : k \in DOMAIN Append(b.trail, e)}
            = Handled(b) \cup {Head(b.ahead)}
  BY <1>1, <1>3, <1>4, TrailFacts DEF Handled
<1>6. g = [b EXCEPT !.pc = "loop", !.price = NaN, !.ahead = Tail(@), !.trail = Append(@, e)]
  BY DEF Finish
<1> HIDE DEF e, g
<1>7. /\ g \in Batch /\ g.pc = "loop" /\ g.ahead = Tail(b.ahead)
      /\ g.trail = Append(b.trail, e) /\ g.orders = b.orders
      /\ g.is_simulation = b.is_simulation /\ g.second_loop = b.second_loop
      /\ g.ticker_markvalues = b.ticker_markvalues
      /\ g.unknown_price_orders = b.unknown_price_orders
  <2>1. NaN \in AnyPrice /\ "loop" \in PCs
    BY DEF AnyPrice, PCs
  <2> QED
    BY <1>1, <1>2, <1>5, <1>6, <2>1 DEF Batch
<1>8. Handled(g) = Handled(b) \cup {Head(b.ahead)}
  BY <1>5, <1>7 DEF Handled
<1>9. Partition(g)
  <2>1. Head(b.ahead) \notin Handled(b)
    BY <1>1, <1>2 DEF Partition
  <2>2. IsFiniteSet(Handled(g)) /\ Cardinality(Handled(g)) = Len(g.trail)
    <3>1. IsFiniteSet(Handled(b)) /\ Cardinality(Handled(b)) = Len(b.trail)
      BY <1>1 DEF Partition
    <3>2. /\ IsFiniteSet(Handled(b) \cup {Head(b.ahead)})
          /\ Cardinality(Handled(b) \cup {Head(b.ahead)}) = Cardinality(Handled(b)) + 1
      BY <2>1, <3>1, FS_AddElement
    <3> QED
      BY <1>5, <1>7, <1>8, <3>1, <3>2
  <2> QED
    BY <1>1, <1>2, <1>7, <1>8, <2>1, <2>2 DEF Partition
<1>10. Awaiting(g)
  BY <1>7 DEF Awaiting
<1>11. Trail(g)
  <2>1. \A x : EntryOK(b, x) => EntryOK(g, x)
    BY <1>7 DEF EntryOK, CachedPrice
  <2> QED
    BY <1>1, <1>4, <1>5, <1>7, <2>1 DEF Trail
<1> QED
  BY <1>7, <1>9, <1>10, <1>11 DEF BatchInv, g

\* A step to another program counter with the order in hand left where it is.
LEMMA PcStepKeeps ==
    ASSUME NEW b, BatchInv(b), NEW pc \in PCs \ {"done"}, NEW price \in AnyPrice,
           pc \in {"submitting", "requesting_bars", "awaiting_bar"} => b.ahead # <<>>,
           pc \in {"requesting_bars", "awaiting_bar"} => b.second_loop,
           pc = "submitting" =>
              /\ ~ b.is_simulation /\ price \in Known
              /\ NumShares(InHand(b).pos_market_value, price) \in 1..I32Max
              /\ ~ b.second_loop => price = CachedPrice(b, InHand(b).ticker)
    PROVE  BatchInv([b EXCEPT !.pc = pc, !.price = price])
<1> DEFINE g == [b EXCEPT !.pc = pc, !.price = price]
<1>1. b \in Batch
  BY DEF BatchInv
<1>2. /\ g \in Batch /\ g.pc = pc /\ g.price = price /\ g.ahead = b.ahead
      /\ g.trail = b.trail /\ g.orders = b.orders
      /\ g.is_simulation = b.is_simulation /\ g.second_loop = b.second_loop
      /\ g.ticker_markvalues = b.ticker_markvalues
      /\ g.unknown_price_orders = b.unknown_price_orders
  BY <1>1 DEF Batch
<1> HIDE DEF g
<1>3. Handled(g) = Handled(b) /\ InHand(g) = InHand(b)
      /\ \A x : CachedPrice(g, x) = CachedPrice(b, x)
  BY <1>2 DEF Handled, InHand, CachedPrice
<1>4. Partition(g)
  BY <1>2, <1>3 DEF BatchInv, Partition
<1>5. Awaiting(g)
  BY <1>2, <1>3 DEF Awaiting
<1>6. Trail(g)
  BY <1>2, <1>3 DEF BatchInv, Trail, EntryOK
<1> QED
  BY <1>2, <1>4, <1>5, <1>6 DEF BatchInv, g

LEMMA SharesBound == I32Max \in Nat
  BY SMT DEF I32Max

\* A number of shares is an i32, whatever the price.
LEMMA SharesFit ==
    ASSUME NEW value \in Nat, NEW price \in Known
    PROVE  NumShares(value, price) \in Int /\ NumShares(value, price) <= I32Max
<1>1. price \in Nat /\ price > 0
  BY DEF Known
<1>2. value \div price \in Int
  BY <1>1
<1> QED
  BY <1>1, <1>2, SharesBound DEF NumShares

\* place_order() finishes the order in hand, or submits it live.
LEMMA PlaceOrderKeeps ==
    ASSUME NEW b, BatchInv(b), b.ahead # <<>>, NEW price \in AnyPrice,
           ~ b.second_loop => price = CachedPrice(b, InHand(b).ticker)
    PROVE  BatchInv(place_order(b, price))
<1> DEFINE n == NumShares(InHand(b).pos_market_value, price)
<1>1. place_order(b, price) =
         IF price = NaN THEN Finish(b, "no_price", 0, NaN)
         ELSE IF n <= 0 THEN Finish(b, "zero_size", 0, price)
         ELSE IF b.is_simulation THEN Finish(b, "simulated", n, price)
         ELSE [b EXCEPT !.pc = "submitting", !.price = price]
  BY DEF place_order, InHand
<1>2. Outcomes = {"no_price", "zero_size", "simulated", "submitted"}
  BY DEF Outcomes
<1>3. CASE price = NaN
  BY <1>1, <1>2, <1>3, FinishKeeps
<1>4. CASE price # NaN
  <2>1. price \in Known
    BY <1>4 DEF AnyPrice
  <2>2. InHand(b).pos_market_value \in Nat
    <3>1. b.orders \in Lists /\ b.ahead \in Seq(Nat)
      BY DEF BatchInv, Batch
    <3>2. Head(b.ahead) \in ToSet(b.ahead)
      BY <3>1, TailFacts DEF BatchInv, Partition
    <3>3. Head(b.ahead) \in DOMAIN b.orders
      BY <3>2 DEF BatchInv, Partition
    <3> QED
      BY <3>1, <3>3, ListFacts DEF InHand
  <2>3. n \in Int /\ n <= I32Max
    BY <2>1, <2>2, SharesFit
  <2> HIDE DEF n
  <2>4. CASE n <= 0
    <3>1. BatchInv(Finish(b, "zero_size", 0, price))
      <4>1. "zero_size" \in Outcomes /\ 0 \in Int
        BY <1>2
      <4>2. "zero_size" # "submitted" /\ "zero_size" \notin {"simulated", "submitted"}
        OBVIOUS
      <4> QED
        BY <4>1, <4>2, FinishKeeps
    <3> QED
      BY <1>1, <1>4, <2>4, <3>1
  <2>5. CASE n > 0 /\ b.is_simulation
    <3>1. n \in 1..I32Max
      BY <2>3, <2>5, SharesBound
    <3>2. BatchInv(Finish(b, "simulated", n, price))
      <4>1. n = NumShares(InHand(b).pos_market_value, price)
        BY DEF n
      <4> QED
        BY <1>2, <2>1, <2>3, <2>5, <3>1, <4>1, FinishKeeps
    <3> QED
      BY <1>1, <1>4, <2>3, <2>5, <3>2
  <2>6. CASE n > 0 /\ ~ b.is_simulation
    <3>1. n \in 1..I32Max
      BY <2>3, <2>6, SharesBound
    <3>2. BatchInv([b EXCEPT !.pc = "submitting", !.price = price])
      <4>1. "submitting" \in PCs \ {"done"}
        BY DEF PCs
      <4>2. NumShares(InHand(b).pos_market_value, price) \in 1..I32Max
        BY <3>1 DEF n
      <4>3. "submitting" \notin {"requesting_bars", "awaiting_bar"}
        OBVIOUS
      <4> QED
        BY <2>1, <2>6, <4>1, <4>2, <4>3, PcStepKeeps, ZenonT(30)
    <3> QED
      BY <1>1, <1>4, <2>3, <2>6, <3>2
  <2> QED
    BY <2>3, <2>4, <2>5, <2>6
<1> QED
  BY <1>3, <1>4

LEMMA PcOnlyKeeps ==
    ASSUME NEW b, BatchInv(b), NEW pc \in PCs \ {"done", "submitting"},
           pc \in {"requesting_bars", "awaiting_bar"} => b.second_loop /\ b.ahead # <<>>
    PROVE  BatchInv([b EXCEPT !.pc = pc])
<1>1. b \in Batch /\ b.price \in AnyPrice
  BY DEF BatchInv, Batch
<1>2. BatchInv([b EXCEPT !.pc = pc, !.price = b.price])
  BY <1>1, PcStepKeeps
<1>3. [b EXCEPT !.pc = pc, !.price = b.price] = [b EXCEPT !.pc = pc]
  BY <1>1 DEF Batch
<1> QED
  BY <1>2, <1>3

\* The first loop puts an order off.
LEMMA PutOffKeeps ==
    ASSUME NEW b, BatchInv(b), b.pc = "loop", ~ b.second_loop, b.ahead # <<>>
    PROVE  BatchInv([b EXCEPT !.ahead = Tail(@),
                              !.unknown_price_orders = Append(@, Head(b.ahead))])
<1> DEFINE g == [b EXCEPT !.ahead = Tail(@),
                          !.unknown_price_orders = Append(@, Head(b.ahead))]
           x == Head(b.ahead)
<1>1. /\ b \in Batch /\ b.ahead \in Seq(Nat) /\ b.unknown_price_orders \in Seq(Nat)
      /\ Partition(b) /\ Trail(b)
  BY DEF BatchInv, Batch
<1>2. /\ Tail(b.ahead) \in Seq(Nat) /\ Distinct(Tail(b.ahead)) /\ x \in Nat /\ x \in ToSet(b.ahead)
      /\ ToSet(Tail(b.ahead)) = ToSet(b.ahead) \ {x}
  BY <1>1, TailFacts DEF Partition
<1>3. x \notin ToSet(b.unknown_price_orders) /\ x \notin Handled(b) /\ x \in DOMAIN b.orders
  BY <1>1, <1>2 DEF Partition
<1>4. /\ Append(b.unknown_price_orders, x) \in Seq(Nat)
      /\ Distinct(Append(b.unknown_price_orders, x))
      /\ ToSet(Append(b.unknown_price_orders, x)) = ToSet(b.unknown_price_orders) \cup {x}
  BY <1>1, <1>2, <1>3, AppendFacts DEF Partition
<1>5. /\ g \in Batch /\ g.pc = b.pc /\ g.ahead = Tail(b.ahead)
      /\ g.trail = b.trail /\ g.orders = b.orders
      /\ g.is_simulation = b.is_simulation /\ g.second_loop = b.second_loop
      /\ g.ticker_markvalues = b.ticker_markvalues
      /\ g.unknown_price_orders = Append(b.unknown_price_orders, x)
  BY <1>1, <1>2, <1>4 DEF Batch
<1> HIDE DEF g, x
<1>6. Handled(g) = Handled(b)
  BY <1>5 DEF Handled
<1>7. Partition(g)
  BY <1>1, <1>2, <1>3, <1>4, <1>5, <1>6 DEF Partition
<1>8. Awaiting(g)
  BY <1>5 DEF Awaiting
<1>9. Trail(g)
  BY <1>1, <1>5 DEF Trail, EntryOK, CachedPrice
<1> QED
  BY <1>5, <1>7, <1>8, <1>9 DEF BatchInv, g, x

\* The first loop ends; the second goes over what was put off.
LEMMA NextLoopKeeps ==
    ASSUME NEW b, BatchInv(b), b.pc = "loop", b.ahead = <<>>
    PROVE  BatchInv(IF b.second_loop THEN [b EXCEPT !.pc = "done"]
                    ELSE [b EXCEPT !.second_loop = TRUE, !.ahead = b.unknown_price_orders])
<1>1. b \in Batch /\ b.unknown_price_orders \in Seq(Nat) /\ Partition(b) /\ Trail(b)
  BY DEF BatchInv, Batch
<1>2. ToSet(b.ahead) = {}
  BY DEF ToSet
<1>3. CASE b.second_loop
  <2> DEFINE g == [b EXCEPT !.pc = "done"]
  <2>1. /\ g \in Batch /\ g.pc = "done" /\ g.ahead = b.ahead
        /\ g.trail = b.trail /\ g.orders = b.orders
        /\ g.is_simulation = b.is_simulation /\ g.second_loop = b.second_loop
        /\ g.ticker_markvalues = b.ticker_markvalues
        /\ g.unknown_price_orders = b.unknown_price_orders
    BY <1>1 DEF Batch, PCs
  <2> HIDE DEF g
  <2>2. Handled(g) = Handled(b)
    BY <2>1 DEF Handled
  <2>3. Partition(g)
    BY <1>1, <1>2, <1>3, <2>1, <2>2 DEF Partition
  <2>4. Awaiting(g)
    BY <2>1 DEF Awaiting
  <2>5. Trail(g)
    BY <1>1, <2>1 DEF Trail, EntryOK, CachedPrice
  <2> QED
    BY <1>3, <2>1, <2>3, <2>4, <2>5 DEF BatchInv, g
<1>4. CASE ~ b.second_loop
  <2> DEFINE g == [b EXCEPT !.second_loop = TRUE, !.ahead = b.unknown_price_orders]
  <2>1. /\ g \in Batch /\ g.pc = "loop" /\ g.ahead = b.unknown_price_orders
        /\ g.trail = b.trail /\ g.orders = b.orders
        /\ g.is_simulation = b.is_simulation /\ g.second_loop = TRUE
        /\ g.ticker_markvalues = b.ticker_markvalues
        /\ g.unknown_price_orders = b.unknown_price_orders
    BY <1>1 DEF Batch
  <2> HIDE DEF g
  <2>2. Handled(g) = Handled(b)
    BY <2>1 DEF Handled
  <2>3. Partition(g)
    BY <1>1, <1>2, <1>4, <2>1, <2>2 DEF Partition
  <2>4. Awaiting(g)
    BY <2>1 DEF Awaiting
  <2>5. Trail(g)
    BY <1>1, <2>1 DEF Trail, EntryOK, CachedPrice
  <2> QED
    BY <1>4, <2>1, <2>3, <2>4, <2>5 DEF BatchInv, g
<1> QED
  BY <1>3, <1>4

LEMMA NoBatchKeeps == BatchInv(NoBatch)
<1>1. <<>> \in Lists /\ [t \in Tickers |-> NaN] \in [Tickers -> Prices \cup {NaN}]
  BY DEF Lists
<1>2. NoBatch \in Batch
  BY <1>1 DEF NoBatch, Batch, PCs, AnyPrice
<1>3. /\ NoBatch.trail = <<>> /\ NoBatch.ahead = <<>> /\ NoBatch.orders = <<>>
      /\ NoBatch.unknown_price_orders = <<>> /\ ~ NoBatch.second_loop /\ NoBatch.pc = "idle"
  BY DEF NoBatch
<1>4. Handled(NoBatch) = {} /\ ToSet(<<>>) = {}
  BY <1>3 DEF Handled, ToSet
<1>5. Partition(NoBatch)
  BY <1>3, <1>4, FS_EmptySet DEF Partition, Distinct
<1>6. Awaiting(NoBatch) /\ Trail(NoBatch)
  BY <1>3 DEF Awaiting, Trail
<1> QED
  BY <1>2, <1>5, <1>6 DEF BatchInv

\* The state of a call as it begins.
LEMMA NewBatch ==
    ASSUME NEW s \in Strategies, NEW events \in EventLists[s], NEW sim \in BOOLEAN,
           NEW values \in [Tickers -> Prices \cup {NaN}], NEW ready \in BOOLEAN
    PROVE  LET orders == OrdersToPlace(s, events) IN
           BatchInv([NoBatch EXCEPT
                       !.pc = IF ready THEN "loop" ELSE "done",
                       !.orders = IF ready THEN orders ELSE <<>>,
                       !.is_simulation = sim,
                       !.ticker_markvalues = values,
                       !.ahead = IF ready THEN [i \in DOMAIN orders |-> i] ELSE <<>>])
<1> DEFINE orders == IF ready THEN OrdersToPlace(s, events) ELSE <<>>
           ahead == IF ready THEN [i \in DOMAIN OrdersToPlace(s, events) |-> i] ELSE <<>>
           pc == IF ready THEN "loop" ELSE "done"
           g == [NoBatch EXCEPT !.pc = pc, !.orders = orders, !.is_simulation = sim,
                                !.ticker_markvalues = values, !.ahead = ahead]
<1>1. OrdersToPlace(s, events) \in Lists /\ <<>> \in Lists
  BY DEF Lists, OrdersOf
<1>2. orders \in Lists
  BY <1>1
<1>3. ahead = [i \in DOMAIN orders |-> i]
  OBVIOUS
<1>4. PICK n \in Nat : DOMAIN orders = 1..n
  BY <1>2, ListFacts
<1> HIDE DEF orders, ahead
<1>5. ahead \in Seq(Nat) /\ ToSet(ahead) = DOMAIN orders /\ Distinct(ahead)
  <2>1. ahead \in Seq(Nat)
    BY <1>3, <1>4
  <2>2. DOMAIN ahead = DOMAIN orders /\ \A i \in DOMAIN orders : ahead[i] = i
    BY <1>3
  <2> QED
    BY <2>1, <2>2 DEF ToSet, Distinct
<1>6. /\ g \in Batch /\ g.trail = <<>> /\ g.unknown_price_orders = <<>>
      /\ ~ g.second_loop /\ g.ahead = ahead /\ g.orders = orders
      /\ g.pc \in {"loop", "done"} /\ (g.pc = "done" => orders = <<>>)
  <2>1. /\ NoBatch \in Batch /\ NoBatch.trail = <<>> /\ NoBatch.unknown_price_orders = <<>>
        /\ ~ NoBatch.second_loop
    BY NoBatchKeeps DEF BatchInv, NoBatch
  <2>2. pc \in PCs /\ pc \in {"loop", "done"} /\ (pc = "done" => orders = <<>>)
    BY DEF PCs, orders
  <2> HIDE DEF pc
  <2>3. /\ g \in Batch /\ g.pc = pc /\ g.orders = orders /\ g.ahead = ahead
        /\ g.trail = NoBatch.trail /\ g.second_loop = NoBatch.second_loop
        /\ g.unknown_price_orders = NoBatch.unknown_price_orders
    BY <1>2, <1>5, <2>1, <2>2 DEF Batch
  <2> HIDE DEF g
  <2> QED
    BY <2>1, <2>2, <2>3
<1> HIDE DEF g
<1>8. Handled(g) = {} /\ ToSet(g.unknown_price_orders) = {}
  BY <1>6 DEF Handled, ToSet
<1>9. Partition(g)
  <2>1. IsFiniteSet({}) /\ Cardinality({}) = 0
    BY FS_EmptySet
  <2>2. g.pc = "done" => DOMAIN g.orders = {}
    BY <1>6
  <2>3. Len(g.trail) = 0 /\ Distinct(g.unknown_price_orders)
    BY <1>6 DEF Distinct
  <2> QED
    BY <1>5, <1>6, <1>8, <2>1, <2>2, <2>3 DEF Partition
<1>10. Awaiting(g) /\ Trail(g)
  BY <1>6 DEF Awaiting, Trail
<1>11. BatchInv(g)
  BY <1>6, <1>9, <1>10 DEF BatchInv
<1> QED
  BY <1>11, Zenon DEF g, orders, ahead

-----------------------------------------------------------------------------
LEMMA InitEstablishes == Init => IInv
<1> SUFFICES ASSUME Init PROVE IInv
  OBVIOUS
<1>1. batch = [s \in Strategies |-> NoBatch] /\ NoBatch \in Batch
  BY NoBatchKeeps DEF Init, BatchInv
<1>2. gateways \in [BrokerClients -> {"connected", "failed", "missing"}]
  BY DEF Init
<1>3. mark_timevalues \in [Tickers -> Prices \cup {NaN}]
  BY DEF Init
<1> QED
  BY <1>1, <1>2, <1>3, NoBatchKeeps DEF IInv

\* A step of one call leaves the other calls, the gateways and the cache alone.
LEMMA SetKeeps ==
    ASSUME IInv, NEW s \in Strategies, NEW b, BatchInv(b), Set(s, b),
           UNCHANGED <<gateways, mark_timevalues>>
    PROVE  IInv'
<1>1. b \in Batch /\ batch' = [batch EXCEPT ![s] = b]
  BY DEF BatchInv, Set
<1>2. batch' \in [Strategies -> Batch] /\ batch'[s] = b
      /\ \A r \in Strategies \ {s} : batch'[r] = batch[r]
  BY <1>1 DEF IInv
<1>3. \A r \in Strategies : BatchInv(batch'[r])
  BY <1>2 DEF IInv
<1> QED
  BY <1>2, <1>3 DEF IInv

LEMMA BeginPreserves ==
    ASSUME IInv, NEW s \in Strategies, NEW events \in EventLists[s], NEW sim \in BOOLEAN,
           place_orders(s, events, sim)
    PROVE  IInv'
<1> DEFINE orders == OrdersToPlace(s, events)
           ready == orders # <<>> /\ \A c \in {Gyantal, DcMain} : gateways[c] = "connected"
           b == [NoBatch EXCEPT
                   !.pc = IF ready THEN "loop" ELSE "done",
                   !.orders = IF ready THEN orders ELSE <<>>,
                   !.is_simulation = sim,
                   !.ticker_markvalues = mark_timevalues,
                   !.ahead = IF ready THEN [i \in DOMAIN orders |-> i] ELSE <<>>]
<1>1. Set(s, b) /\ UNCHANGED <<gateways, mark_timevalues>>
  BY DEF place_orders
<1>2. ready \in BOOLEAN /\ mark_timevalues \in [Tickers -> Prices \cup {NaN}]
  BY DEF IInv
<1> HIDE DEF ready
<1>3. BatchInv(b)
  BY <1>2, NewBatch
<1> HIDE DEF b
<1> QED
  BY <1>1, <1>3, SetKeeps

LEMMA LoopsPreserve ==
    ASSUME IInv, NEW s \in Strategies, Proceed(s)
    PROVE  IInv'
<1> DEFINE b == batch[s]
<1>1. /\ BatchInv(b) /\ b \in Batch /\ b.pc = "loop"
      /\ UNCHANGED <<gateways, mark_timevalues>>
  BY DEF IInv, Proceed, FirstLoop, NextLoop, SecondLoop
<1>2. CASE FirstLoop(s)
  <2> DEFINE price == CachedPrice(b, InHand(b).ticker)
             put_off == [b EXCEPT !.ahead = Tail(@),
                                  !.unknown_price_orders = Append(@, Head(b.ahead))]
  <2>1. /\ ~ b.second_loop /\ b.ahead # <<>>
        /\ Set(s, IF price # NaN THEN place_order(b, price) ELSE put_off)
    BY <1>2 DEF FirstLoop, InHand
  <2>2. price \in AnyPrice
    <3>1. b.ticker_markvalues \in [Tickers -> Prices \cup {NaN}]
      BY <1>1 DEF Batch
    <3> QED
      BY <3>1, ConstantFacts DEF CachedPrice, AnyPrice
  <2> HIDE DEF b
  <2>3. BatchInv(place_order(b, price))
    BY <1>1, <2>1, <2>2, PlaceOrderKeeps
  <2>4. BatchInv(put_off)
    BY <1>1, <2>1, PutOffKeeps
  <2> HIDE DEF price, put_off
  <2> QED
    BY <1>1, <2>1, <2>3, <2>4, SetKeeps
<1>3. CASE NextLoop(s)
  <2> DEFINE g == IF b.second_loop THEN [b EXCEPT !.pc = "done"]
                  ELSE [b EXCEPT !.second_loop = TRUE, !.ahead = b.unknown_price_orders]
  <2>1. b.ahead = <<>> /\ Set(s, g)
    BY <1>3 DEF NextLoop
  <2> HIDE DEF b
  <2>2. BatchInv(g)
    BY <1>1, <2>1, NextLoopKeeps
  <2> HIDE DEF g
  <2> QED
    BY <1>1, <2>1, <2>2, SetKeeps
<1>4. CASE SecondLoop(s)
  <2> DEFINE price == InHand(b).known_last_price
             asked == [b EXCEPT !.pc = "requesting_bars"]
  <2>1. /\ b.second_loop /\ b.ahead # <<>>
        /\ Set(s, IF price # NaN THEN place_order(b, price) ELSE asked)
    BY <1>4 DEF SecondLoop, InHand
  <2>2. price \in AnyPrice
    <3>1. b.orders \in Lists /\ b.ahead \in Seq(Nat)
      BY <1>1 DEF Batch
    <3>2. Head(b.ahead) \in DOMAIN b.orders
      BY <1>1, <2>1, <3>1, TailFacts DEF BatchInv, Partition
    <3> QED
      BY <3>1, <3>2, ListFacts DEF InHand
  <2> HIDE DEF b
  <2>3. BatchInv(place_order(b, price))
    BY <1>1, <2>1, <2>2, PlaceOrderKeeps
  <2>4. BatchInv(asked)
    BY <1>1, <2>1, PcOnlyKeeps DEF PCs
  <2> HIDE DEF price, asked
  <2> QED
    BY <1>1, <2>1, <2>3, <2>4, SetKeeps
<1> QED
  BY <1>2, <1>3, <1>4 DEF Proceed

LEMMA BrokerPreserves ==
    ASSUME IInv, NEW s \in Strategies, BarsRequested(s) \/ BarArrives(s) \/ Submitted(s)
    PROVE  IInv'
<1> DEFINE b == batch[s]
<1>1. /\ BatchInv(b) /\ b \in Batch /\ UNCHANGED <<gateways, mark_timevalues>>
  BY DEF IInv, BarsRequested, BarArrives, Submitted
<1>2. CASE BarsRequested(s)
  <2>1. PICK pc \in {"awaiting_bar", "panicked"} : Set(s, [b EXCEPT !.pc = pc])
    BY <1>2 DEF BarsRequested
  <2>2. b.pc = "requesting_bars"
    BY <1>2 DEF BarsRequested
  <2> HIDE DEF b
  <2>3. b.second_loop /\ b.ahead # <<>>
    BY <1>1, <2>2 DEF BatchInv, Awaiting
  <2>4. BatchInv([b EXCEPT !.pc = pc])
    BY <1>1, <2>3, PcOnlyKeeps DEF PCs
  <2> QED
    BY <1>1, <2>1, <2>4, SetKeeps
<1>3. CASE BarArrives(s)
  <2>1. PICK price \in Prices \cup {NaN} : Set(s, place_order(b, price))
    BY <1>3 DEF BarArrives
  <2>2. b.pc = "awaiting_bar"
    BY <1>3 DEF BarArrives
  <2> HIDE DEF b
  <2>3. b.second_loop /\ b.ahead # <<>>
    BY <1>1, <2>2 DEF BatchInv, Awaiting
  <2>4. price \in AnyPrice
    BY ConstantFacts DEF AnyPrice
  <2>5. BatchInv(place_order(b, price))
    BY <1>1, <2>3, <2>4, PlaceOrderKeeps
  <2> QED
    BY <1>1, <2>1, <2>5, SetKeeps
<1>4. CASE Submitted(s)
  <2> DEFINE n == NumShares(InHand(b).pos_market_value, b.price)
             done == Finish(b, "submitted", n, b.price)
             lost == [b EXCEPT !.pc = "panicked"]
  <2>1. b.pc = "submitting" /\ (Set(s, done) \/ Set(s, lost))
    BY <1>4 DEF Submitted, InHand
  <2> HIDE DEF b
  <2>2. /\ b.ahead # <<>> /\ ~ b.is_simulation /\ b.price \in AnyPrice
        /\ b.price \in Known /\ n \in 1..I32Max
        /\ n = NumShares(InHand(b).pos_market_value, b.price)
        /\ ~ b.second_loop => b.price = CachedPrice(b, InHand(b).ticker)
    BY <1>1, <2>1 DEF BatchInv, Awaiting, AnyPrice
  <2>3. BatchInv(lost)
    BY <1>1, PcOnlyKeeps DEF PCs
  <2> HIDE DEF n
  <2>4. BatchInv(done)
    <3>1. n \in Int /\ "submitted" \in Outcomes
      BY <2>2, SharesBound DEF Outcomes
    <3> QED
      BY <1>1, <2>2, <3>1, FinishKeeps
  <2> HIDE DEF done, lost
  <2> QED
    BY <1>1, <2>1, <2>3, <2>4, SetKeeps
<1> QED
  BY <1>2, <1>3, <1>4

\* The quote stream stores a value; what the calls have copied stays.
LEMMA StreamPreserves == IInv /\ MarkValueArrives => IInv'
<1> SUFFICES ASSUME IInv, MarkValueArrives PROVE IInv'
  OBVIOUS
<1>1. mark_timevalues' \in [Tickers -> Prices \cup {NaN}]
  BY DEF IInv, MarkValueArrives
<1>2. UNCHANGED <<gateways, batch>>
  BY DEF MarkValueArrives
<1> QED
  BY <1>1, <1>2 DEF IInv

\* The process ends with the calls where they stand.
LEMMA ExitPreserves == IInv /\ exit => IInv'
<1> SUFFICES ASSUME IInv, exit PROVE IInv'
  OBVIOUS
<1>1. /\ gateways' = [c \in BrokerClients |-> "missing"]
      /\ mark_timevalues' = mark_timevalues
      /\ batch' = [s \in Strategies |->
                     IF batch[s].pc \in {"done", "panicked"} THEN batch[s]
                     ELSE [batch[s] EXCEPT !.pc = "dropped"]]
  BY DEF exit
<1>2. \A s \in Strategies : BatchInv(batch'[s])
  <2> SUFFICES ASSUME NEW s \in Strategies PROVE BatchInv(batch'[s])
    OBVIOUS
  <2>1. BatchInv(batch[s])
    BY DEF IInv
  <2>2. BatchInv([batch[s] EXCEPT !.pc = "dropped"])
    BY <2>1, PcOnlyKeeps DEF PCs
  <2> QED
    BY <1>1, <2>1, <2>2
<1>3. batch' \in [Strategies -> Batch]
  <2>1. \A s \in Strategies : batch'[s] \in Batch
    BY <1>2 DEF BatchInv
  <2> QED
    BY <1>1, <2>1
<1> QED
  BY <1>1, <1>2, <1>3 DEF IInv

-----------------------------------------------------------------------------
\* The inductive invariant: every call accounts for each of its orders once.
THEOREM BatchesInvariant == Spec => []IInv
<1>1. IInv /\ [Next]_vars => IInv'
  <2> SUFFICES ASSUME IInv, [Next]_vars PROVE IInv'
    OBVIOUS
  <2>1. CASE UNCHANGED vars
    BY <2>1 DEF vars, IInv
  <2> QED
    BY <2>1, BeginPreserves, LoopsPreserve, BrokerPreserves, StreamPreserves, ExitPreserves
    DEF Next
<1> QED
  BY InitEstablishes, <1>1, PTL DEF Spec

\* The state keeps its types: no order outside its batch is ever in hand, and
\* what goes to the broker is an i32 above zero.
THEOREM BatchesTypeCorrect == Spec => []TypeOK
<1>1. IInv => TypeOK
  <2> SUFFICES ASSUME IInv, NEW s \in Strategies
      PROVE LET b == batch[s] IN
         /\ DOMAIN b = DOMAIN NoBatch
         /\ b.pc \in PCs /\ {b.is_simulation, b.second_loop} \subseteq BOOLEAN
         /\ b.ticker_markvalues \in [Tickers -> Prices \cup {NaN}]
         /\ b.price = NaN \/ b.price \in Nat \ {0}
         /\ ToSet(b.ahead) \cup ToSet(b.unknown_price_orders) \subseteq DOMAIN b.orders
         /\ \A k \in DOMAIN b.trail :
              /\ b.trail[k].order \in DOMAIN b.orders
              /\ b.trail[k].outcome \in Outcomes
              /\ b.trail[k].outcome \in {"simulated", "submitted"}
                   => b.trail[k].shares \in 1..I32Max
    BY DEF IInv, TypeOK
  <2> DEFINE b == batch[s]
  <2>1. BatchInv(b) /\ b \in Batch
    BY DEF IInv
  <2> HIDE DEF b
  <2>2. DOMAIN b = DOMAIN NoBatch
    BY <2>1 DEF Batch, NoBatch
  <2>3. /\ b.pc \in PCs /\ {b.is_simulation, b.second_loop} \subseteq BOOLEAN
        /\ b.ticker_markvalues \in [Tickers -> Prices \cup {NaN}]
        /\ b.price = NaN \/ b.price \in Nat \ {0}
        /\ b.trail \in Seq(Entry)
    BY <2>1 DEF Batch, AnyPrice, Known
  <2>4. Handled(b) \subseteq DOMAIN b.orders
        /\ ToSet(b.ahead) \cup ToSet(b.unknown_price_orders) \subseteq DOMAIN b.orders
    BY <2>1 DEF BatchInv, Partition
  <2>5. \A k \in DOMAIN b.trail :
           /\ b.trail[k].order \in DOMAIN b.orders
           /\ b.trail[k].outcome \in Outcomes
           /\ b.trail[k].outcome \in {"simulated", "submitted"} => b.trail[k].shares \in 1..I32Max
    <3> SUFFICES ASSUME NEW k \in DOMAIN b.trail
                 PROVE  /\ b.trail[k].order \in DOMAIN b.orders
                        /\ b.trail[k].outcome \in Outcomes
                        /\ b.trail[k].outcome \in {"simulated", "submitted"}
                              => b.trail[k].shares \in 1..I32Max
      OBVIOUS
    <3>1. b.trail[k] \in Entry /\ b.trail[k].order \in Handled(b)
      BY <2>3 DEF Handled
    <3>2. EntryOK(b, b.trail[k])
      BY <2>1 DEF BatchInv, Trail
    <3> QED
      BY <2>4, <3>1, <3>2 DEF Entry, EntryOK
  <2> QED
    BY <2>2, <2>3, <2>4, <2>5 DEF b
<1> QED
  BY BatchesInvariant, <1>1, PTL

\* No order is handled twice, and a batch that ends by itself has handled all.
THEOREM OrdersHandledOnce == Spec => []EveryOrderOnce
<1>1. IInv => EveryOrderOnce
  BY DEF IInv, BatchInv, Partition, EveryOrderOnce
<1> QED
  BY BatchesInvariant, <1>1, PTL

\* A simulation never has a submission in flight or behind it.
THEOREM SimulationsStayHome == Spec => []SimulationNeverSubmits
<1>1. IInv => SimulationNeverSubmits
  <2> SUFFICES ASSUME IInv, NEW s \in Strategies, batch[s].is_simulation
      PROVE  /\ batch[s].pc # "submitting"
             /\ \A k \in DOMAIN batch[s].trail : batch[s].trail[k].outcome # "submitted"
    BY DEF SimulationNeverSubmits
  <2>1. Awaiting(batch[s]) /\ Trail(batch[s])
    BY DEF IInv, BatchInv
  <2> QED
    BY <2>1 DEF Awaiting, Trail, EntryOK
<1> QED
  BY BatchesInvariant, <1>1, PTL

\* Orders of one batch for one ticker trade at the price copied at its start.
THEOREM OneCopiedPrice == Spec => []OneCachedPricePerTicker
<1>1. IInv => OneCachedPricePerTicker
  <2> SUFFICES ASSUME IInv, NEW s \in Strategies,
                      NEW j \in DOMAIN batch[s].trail, NEW k \in DOMAIN batch[s].trail,
                      batch[s].trail[j].from_cache, batch[s].trail[k].from_cache,
                      batch[s].orders[batch[s].trail[j].order].ticker
                        = batch[s].orders[batch[s].trail[k].order].ticker
               PROVE  batch[s].trail[j].price = batch[s].trail[k].price
    BY DEF OneCachedPricePerTicker
  <2>1. Trail(batch[s])
    BY DEF IInv, BatchInv
  <2> QED
    BY <2>1 DEF Trail, EntryOK
<1> QED
  BY BatchesInvariant, <1>1, PTL
-----------------------------------------------------------------------------
\* The sum of a finite set, as MapThenSumSet takes it: g has the sum of every
\* subset, one element less at a time.
FirstOf(S) == CHOOSE x \in S : TRUE
SumsOver(sets, F, g) ==
    g = [S \in sets |-> IF S = {} THEN 0 ELSE F[FirstOf(S)] + g[S \ {FirstOf(S)}]]

\* Induction on the numbers, stated of a set of them.
LEMMA NoneIsLeast ==
    ASSUME NEW Bad, Bad \subseteq Nat, 0 \notin Bad,
           \A n \in Nat : n \notin Bad => n + 1 \notin Bad
    PROVE  Bad = {}
<1> SUFFICES ASSUME Bad # {} PROVE FALSE
  OBVIOUS
<1> DEFINE Less == {p \in Nat \X Nat : p[1] < p[2]}
<1>1. IsWellFoundedOn(Less, Nat)
  BY NatLessThanWellFounded, Zenon DEF OpToRel
<1> HIDE DEF Less
<1>2. PICK n \in Bad : \A m \in Bad : ~ (<<m, n>> \in Less)
  BY <1>1, WFMin
<1>3. n \in Nat /\ n # 0 /\ n - 1 \in Nat /\ n - 1 < n /\ (n - 1) + 1 = n
  OBVIOUS
<1>4. <<n - 1, n>> \in Less
  BY <1>3 DEF Less
<1>5. n - 1 \notin Bad
  BY <1>2, <1>4
<1> QED
  BY <1>3, <1>5

LEMMA SubsetFacts ==
    ASSUME NEW S, IsFiniteSet(S), NEW T \in SUBSET S
    PROVE  /\ Cardinality(T) \in Nat /\ Cardinality(T) <= Cardinality(S)
           /\ T = {} <=> Cardinality(T) = 0
           /\ T # {} => /\ FirstOf(T) \in T /\ T \ {FirstOf(T)} \in SUBSET S
                        /\ Cardinality(T \ {FirstOf(T)}) = Cardinality(T) - 1
<1>1. IsFiniteSet(T) /\ Cardinality(T) <= Cardinality(S)
  BY FS_Subset
<1>2. Cardinality(T) \in Nat /\ (T = {} <=> Cardinality(T) = 0)
  BY <1>1, FS_CardinalityType, FS_EmptySet
<1>3. T # {} => FirstOf(T) \in T
  BY DEF FirstOf
<1>4. T # {} => Cardinality(T \ {FirstOf(T)}) = Cardinality(T) - 1
  BY <1>1, <1>3, FS_RemoveElement
<1> QED
  BY <1>1, <1>2, <1>3, <1>4

LEMMA SumExists ==
    ASSUME NEW S, IsFiniteSet(S), NEW F
    PROVE  \E g : SumsOver(SUBSET S, F, g)
<1> DEFINE UpTo(n) == {T \in SUBSET S : Cardinality(T) <= n}
           Bad == {n \in Nat : ~ \E g : SumsOver(UpTo(n), F, g)}
<1>1. \A T \in SUBSET S :
         /\ Cardinality(T) \in Nat /\ Cardinality(T) <= Cardinality(S)
         /\ Cardinality(T) = 0 => T = {}
         /\ T # {} => /\ T \ {FirstOf(T)} \in SUBSET S
                      /\ Cardinality(T \ {FirstOf(T)}) = Cardinality(T) - 1
  BY SubsetFacts
<1>2. 0 \notin Bad
  <2> DEFINE g == [T \in UpTo(0) |-> 0]
  <2>1. ASSUME NEW T \in SUBSET S, Cardinality(T) <= 0 PROVE T = {}
    <3>1. Cardinality(T) \in Nat /\ (Cardinality(T) = 0 => T = {})
      BY <1>1
    <3> QED
      BY <2>1, <3>1
  <2>2. \A T \in UpTo(0) : T = {}
    BY <2>1
  <2> HIDE DEF UpTo
  <2>3. g = [T \in UpTo(0) |-> g[T]] /\ \A T \in UpTo(0) : g[T] = 0
    OBVIOUS
  <2> HIDE DEF g
  <2>4. SumsOver(UpTo(0), F, g)
    <3>1. \A T \in UpTo(0) :
             g[T] = IF T = {} THEN 0 ELSE F[FirstOf(T)] + g[T \ {FirstOf(T)}]
      BY <2>2, <2>3
    <3> QED
      BY <2>3, <3>1, Zenon DEF SumsOver
  <2> QED
    BY <2>4
<1>3. ASSUME NEW n \in Nat, n \notin Bad PROVE n + 1 \notin Bad
  <2>1. PICK g : SumsOver(UpTo(n), F, g)
    BY <1>3
  <2> DEFINE h == [T \in UpTo(n + 1) |->
                      IF T = {} THEN 0 ELSE F[FirstOf(T)] + g[T \ {FirstOf(T)}]]
  <2>2. \A T \in UpTo(n) : T \in UpTo(n + 1)
    <3> SUFFICES ASSUME NEW T \in SUBSET S, Cardinality(T) <= n
                 PROVE  Cardinality(T) <= n + 1
      OBVIOUS
    <3>1. Cardinality(T) \in Nat
      BY <1>1
    <3> QED
      BY <3>1
  <2>3. \A T \in UpTo(n + 1) : T # {} => T \ {FirstOf(T)} \in UpTo(n)
    BY <1>1
  <2> HIDE DEF UpTo
  <2>4. \A T \in UpTo(n) : h[T] = g[T]
    BY <2>1, <2>2 DEF SumsOver
  <2>5. h = [T \in UpTo(n + 1) |-> h[T]]
        /\ \A T \in UpTo(n + 1) :
              h[T] = IF T = {} THEN 0 ELSE F[FirstOf(T)] + g[T \ {FirstOf(T)}]
    OBVIOUS
  <2> HIDE DEF h
  <2>6. SumsOver(UpTo(n + 1), F, h)
    <3>1. \A T \in UpTo(n + 1) :
             h[T] = IF T = {} THEN 0 ELSE F[FirstOf(T)] + h[T \ {FirstOf(T)}]
      BY <2>3, <2>4, <2>5
    <3> QED
      BY <2>5, <3>1, Zenon DEF SumsOver
  <2> QED
    BY <2>6
<1>4. Bad = {}
  <2> HIDE DEF Bad
  <2>1. Bad \subseteq Nat
    BY DEF Bad
  <2> QED
    BY <1>2, <1>3, <2>1, NoneIsLeast
<1>5. Cardinality(S) \in Nat
  BY FS_CardinalityType
<1>6. \E g : SumsOver(UpTo(Cardinality(S)), F, g)
  BY <1>4, <1>5
<1>7. UpTo(Cardinality(S)) = SUBSET S
  BY <1>1
<1> QED
  BY <1>6, <1>7

LEMMA SumBound ==
    ASSUME NEW S, IsFiniteSet(S), NEW F, NEW g, SumsOver(SUBSET S, F, g),
           NEW most \in Nat, \A x \in S : F[x] \in Int /\ F[x] <= most
    PROVE  g[S] \in Int /\ g[S] <= Cardinality(S) * most
<1> DEFINE Bounded(T) == g[T] \in Int /\ g[T] <= Cardinality(T) * most
           Bad == {n \in Nat : \E T \in SUBSET S : Cardinality(T) = n /\ ~ Bounded(T)}
<1>1. \A T \in SUBSET S :
         g[T] = IF T = {} THEN 0 ELSE F[FirstOf(T)] + g[T \ {FirstOf(T)}]
  BY DEF SumsOver
<1>2. 0 \notin Bad
  <2> SUFFICES ASSUME NEW T \in SUBSET S, Cardinality(T) = 0 PROVE Bounded(T)
    OBVIOUS
  <2>1. g[T] = 0
    BY <1>1, SubsetFacts
  <2> QED
    BY <2>1
<1>3. ASSUME NEW n \in Nat, n \notin Bad PROVE n + 1 \notin Bad
  <2> SUFFICES ASSUME NEW T \in SUBSET S, Cardinality(T) = n + 1 PROVE Bounded(T)
    OBVIOUS
  <2> DEFINE x == FirstOf(T)
             U == T \ {x}
  <2>1. T # {} /\ x \in S /\ U \in SUBSET S /\ Cardinality(U) = n
    BY SubsetFacts
  <2>2. g[U] \in Int /\ g[U] <= n * most
    BY <1>3, <2>1
  <2>3. g[T] = F[x] + g[U] /\ F[x] \in Int /\ F[x] <= most
    BY <1>1, <2>1
  <2>4. n * most \in Int /\ (n + 1) * most = n * most + most
    OBVIOUS
  <2> HIDE DEF x, U
  <2> QED
    BY <2>2, <2>3, <2>4
<1>4. Bad = {}
  <2> HIDE DEF Bad
  <2>1. Bad \subseteq Nat
    BY DEF Bad
  <2> QED
    BY <1>2, <1>3, <2>1, NoneIsLeast
<1>5. Cardinality(S) \in Nat /\ S \in SUBSET S
  BY FS_CardinalityType
<1> QED
  BY <1>4, <1>5

-----------------------------------------------------------------------------
\* The orders of a call are those of its strategy.
OwnOrders == \A s \in Strategies : batch[s].orders \in OrdersOf(s)

LEMMA PlaceOrderSameOrders ==
    ASSUME NEW b \in Batch, NEW price
    PROVE  place_order(b, price).orders = b.orders
<1>1. \A outcome, shares, p : Finish(b, outcome, shares, p).orders = b.orders
  BY DEF Finish, Batch
<1>2. [b EXCEPT !.pc = "submitting", !.price = price].orders = b.orders
  BY DEF Batch
<1> QED
  BY <1>1, <1>2, Zenon DEF place_order

LEMMA OwnOrdersStep == IInv /\ OwnOrders /\ [Next]_vars => OwnOrders'
<1> SUFFICES ASSUME IInv, OwnOrders, [Next]_vars PROVE OwnOrders'
  OBVIOUS
<1>1. batch \in [Strategies -> Batch] /\ \A s \in Strategies : batch[s] \in Batch
  BY DEF IInv
<1>2. ASSUME NEW s \in Strategies, NEW b, Set(s, b), b.orders \in OrdersOf(s)
      PROVE  OwnOrders'
  BY <1>1, <1>2 DEF Set, OwnOrders
<1>3. CASE UNCHANGED vars \/ MarkValueArrives
  BY <1>3 DEF vars, MarkValueArrives, OwnOrders
<1>4. CASE exit
  <2>1. \A s \in Strategies : [batch[s] EXCEPT !.pc = "dropped"].orders = batch[s].orders
    BY <1>1 DEF Batch
  <2>2. \A s \in Strategies : batch'[s].orders = batch[s].orders
    BY <1>4, <2>1 DEF exit
  <2> QED
    BY <2>2 DEF OwnOrders
<1>5. ASSUME NEW s \in Strategies, NEW events \in EventLists[s], NEW sim \in BOOLEAN,
             place_orders(s, events, sim)
      PROVE  OwnOrders'
  <2> DEFINE orders == OrdersToPlace(s, events)
             ready == orders # <<>> /\ \A c \in {Gyantal, DcMain} : gateways[c] = "connected"
             b == [NoBatch EXCEPT
                     !.pc = IF ready THEN "loop" ELSE "done",
                     !.orders = IF ready THEN orders ELSE <<>>,
                     !.is_simulation = sim,
                     !.ticker_markvalues = mark_timevalues,
                     !.ahead = IF ready THEN [i \in DOMAIN orders |-> i] ELSE <<>>]
  <2>1. Set(s, b)
    BY <1>5 DEF place_orders
  <2> HIDE DEF ready
  <2>2. b.orders = IF ready THEN orders ELSE <<>>
    BY DEF NoBatch
  <2>3. b.orders \in OrdersOf(s)
    BY <2>2 DEF OrdersOf
  <2> HIDE DEF b
  <2> QED
    BY <1>2, <2>1, <2>3
<1>6. ASSUME NEW s \in Strategies,
             Proceed(s) \/ BarsRequested(s) \/ BarArrives(s) \/ Submitted(s)
      PROVE  OwnOrders'
  <2> DEFINE b == batch[s]
  <2>1. b \in Batch /\ b.orders \in OrdersOf(s)
    BY <1>1 DEF OwnOrders
  <2>2. ASSUME NEW g, Set(s, g), g.orders = b.orders PROVE OwnOrders'
    BY <1>2, <2>1, <2>2
  <2>3. \A p : place_order(b, p).orders = b.orders
    BY <2>1, PlaceOrderSameOrders
  <2>4. \A p : [b EXCEPT !.pc = p].orders = b.orders
    BY <2>1 DEF Batch
  <2>5. CASE FirstLoop(s)
    <3> DEFINE price == CachedPrice(b, b.orders[Head(b.ahead)].ticker)
               put_off == [b EXCEPT !.ahead = Tail(@),
                                    !.unknown_price_orders = Append(@, Head(b.ahead))]
    <3>1. Set(s, IF price # NaN THEN place_order(b, price) ELSE put_off)
      BY <2>5 DEF FirstLoop
    <3>2. put_off.orders = b.orders
      BY <2>1 DEF Batch
    <3> HIDE DEF b, price, put_off
    <3> QED
      BY <2>2, <2>3, <3>1, <3>2
  <2>6. CASE NextLoop(s)
    <3> DEFINE second == [b EXCEPT !.second_loop = TRUE, !.ahead = b.unknown_price_orders]
    <3>1. Set(s, IF b.second_loop THEN [b EXCEPT !.pc = "done"] ELSE second)
      BY <2>6 DEF NextLoop
    <3>2. second.orders = b.orders
      BY <2>1 DEF Batch
    <3> HIDE DEF b, second
    <3> QED
      BY <2>2, <2>4, <3>1, <3>2
  <2>7. CASE SecondLoop(s)
    <3> DEFINE price == b.orders[Head(b.ahead)].known_last_price
    <3>1. Set(s, IF price # NaN THEN place_order(b, price)
                                ELSE [b EXCEPT !.pc = "requesting_bars"])
      BY <2>7 DEF SecondLoop
    <3> HIDE DEF b, price
    <3> QED
      BY <2>2, <2>3, <2>4, <3>1
  <2>8. CASE BarsRequested(s)
    <3>1. \E p : Set(s, [b EXCEPT !.pc = p])
      BY <2>8 DEF BarsRequested
    <3> HIDE DEF b
    <3> QED
      BY <2>2, <2>4, <3>1
  <2>9. CASE BarArrives(s)
    <3>1. \E p : Set(s, place_order(b, p))
      BY <2>9 DEF BarArrives
    <3> HIDE DEF b
    <3> QED
      BY <2>2, <2>3, <3>1
  <2>10. CASE Submitted(s)
    <3>1. \A n, p : Finish(b, "submitted", n, p).orders = b.orders
      BY <2>1 DEF Finish, Batch
    <3>2. \/ \E n, p : Set(s, Finish(b, "submitted", n, p))
          \/ Set(s, [b EXCEPT !.pc = "panicked"])
      BY <2>10 DEF Submitted
    <3> HIDE DEF b
    <3> QED
      BY <2>2, <2>4, <3>1, <3>2
  <2> QED
    BY <1>6, <2>5, <2>6, <2>7, <2>8, <2>9, <2>10 DEF Proceed
<1> QED
  BY <1>3, <1>4, <1>5, <1>6 DEF Next

\* No call ever works on the orders of the other strategy.
THEOREM OwnOrdersInvariant == Spec => []OwnOrders
<1>1. Init => OwnOrders
  BY DEF Init, OwnOrders, OrdersOf, NoBatch
<1> QED
  BY <1>1, OwnOrdersStep, BatchesInvariant, PTL DEF Spec

-----------------------------------------------------------------------------
\* The shares of an order are worth at most its position's market value.
LEMMA SharesWorth ==
    ASSUME NEW value \in Nat, NEW price \in Known, NEW n \in Nat,
           n = NumShares(value, price)
    PROVE  n * price \in Int /\ n * price <= value
<1> DEFINE q == value \div price
<1>1. price \in Nat /\ price > 0
  BY DEF Known
<1>2. q \in Nat /\ value = q * price + (value % price) /\ value % price \in Nat
  BY <1>1
<1>3. n <= q
  BY <1>1, <1>2, SharesBound DEF NumShares
<1> HIDE DEF q
<1>4. n * price <= q * price
  BY <1>1, <1>2, <1>3
<1>5. n * price \in Int /\ q * price \in Int
  BY <1>1, <1>2
<1> QED
  BY <1>2, <1>4, <1>5

\* A buy filled at its limit costs at most 2.1% more, and half a cent a share.
LEMMA BuyWorth ==
    ASSUME NEW n \in Nat, NEW price \in Known, NEW value \in Nat, n * price <= value
    PROVE  /\ n * (1000 * LimitPrice("buy", price) - 500) \in Int
           /\ n * (1000 * LimitPrice("buy", price) - 500) <= 1021 * value
<1> DEFINE l == LimitPrice("buy", price)
           most == 1000 * l - 500
<1>1. price \in Nat
  BY DEF Known
<1>2. l \in Int /\ 1000 * l <= price * 1021 + 500
  BY <1>1 DEF LimitPrice
<1>3. most \in Int /\ most <= 1021 * price
  BY <1>1, <1>2
<1> HIDE DEF most
<1>4. n * most \in Int /\ n * most <= n * (1021 * price)
  BY <1>1, <1>3
<1>5. n * (1021 * price) = 1021 * (n * price) /\ n * price \in Int
  BY <1>1
<1>6. 1021 * (n * price) <= 1021 * value
  BY <1>5
<1> QED
  BY <1>4, <1>5, <1>6 DEF most

\* As many positions as the value was divided by are worth at most the value.
LEMMA EqualWeights ==
    ASSUME NEW value \in Nat, NEW count \in Nat \ {0}, NEW n \in Nat, n <= count
    PROVE  /\ value \div count \in Nat
           /\ n * (value \div count) \in Int /\ n * (value \div count) <= value
<1> DEFINE w == value \div count
<1>1. w \in Nat /\ value = count * w + (value % count) /\ value % count \in Nat
  OBVIOUS
<1> HIDE DEF w
<1>2. n * w \in Int /\ count * w \in Int /\ n * w <= count * w
  BY <1>1
<1> QED
  BY <1>1, <1>2 DEF w

\* What the placed orders of one side are worth: each at most an equal part of
\* the side's value, for the value is divided by all the orders of the side.
LEMMA PlacedFacts ==
    ASSUME IInv, OwnOrders, NEW s \in Strategies, NEW type \in {"buy", "sell"}
    PROVE  LET b == batch[s]
               P == Placed(b, type)
           IN  /\ IsFiniteSet(P)
               /\ \E w \in Nat :
                     /\ Cardinality(P) * w <= PortfolioValue(s, type)
                     /\ \A k \in P : /\ b.trail[k].shares \in Nat
                                     /\ b.trail[k].price \in Known
                                     /\ b.trail[k].shares * b.trail[k].price \in Int
                                     /\ b.trail[k].shares * b.trail[k].price <= w
<1> DEFINE b == batch[s]
           P == Placed(b, type)
           pv == PortfolioValue(s, type)
<1>1. b \in Batch /\ BatchInv(b) /\ b.orders \in OrdersOf(s)
  BY DEF IInv, OwnOrders
<1>2. pv \in Nat
  BY ConstantFacts, OrdersAssumption, Zenon DEF PortfolioValue
<1> HIDE DEF b, pv
<1>3. /\ b.trail \in Seq(Entry) /\ Len(b.trail) \in Nat /\ DOMAIN b.trail = 1..Len(b.trail)
      /\ \A k \in DOMAIN b.trail : b.trail[k] \in Entry /\ EntryOK(b, b.trail[k])
  BY <1>1 DEF Batch, BatchInv, Trail
<1>4. IsFiniteSet(DOMAIN b.trail) /\ Cardinality(DOMAIN b.trail) = Len(b.trail)
  BY <1>3, FS_Interval
<1>5. IsFiniteSet(P) /\ P \subseteq DOMAIN b.trail
  BY <1>4, FS_Subset DEF Placed
<1>6. CASE b.orders = <<>>
  <2>1. Handled(b) = {}
    BY <1>1, <1>6 DEF BatchInv, Partition
  <2>2. P = {}
    BY <1>5, <2>1 DEF Handled
  <2>3. Cardinality(P) * 0 <= pv /\ 0 \in Nat
    BY <1>2, <2>2, FS_EmptySet
  <2> QED
    BY <1>5, <2>2, <2>3 DEF b, pv
<1>7. CASE b.orders # <<>>
  <2>1. PICK events \in EventLists[s] : b.orders = OrdersToPlace(s, events)
    BY <1>1, <1>7 DEF OrdersOf
  <2> DEFINE side == {i \in DOMAIN events : events[i].action = type}
             count == Cardinality(side)
             w == pv \div count
             order == [k \in P |-> b.trail[k].order]
  <2>2. b.orders = build_rqorders(s, events)
    BY <1>7, <2>1 DEF OrdersToPlace
  <2>3. /\ DOMAIN b.orders = DOMAIN events
        /\ \A i \in DOMAIN events :
              /\ b.orders[i].order_type = events[i].action
              /\ b.orders[i].pos_market_value = PositionMarketValue(s, events, events[i])
    BY <2>2 DEF build_rqorders
  <2>4. IsFiniteSet(side) /\ count \in Nat
    <3>1. DOMAIN events = 1..Len(events) /\ Len(events) \in Nat
      BY ConstantFacts
    <3>2. IsFiniteSet(DOMAIN events)
      BY <3>1, FS_Interval
    <3> QED
      BY <3>2, FS_Subset, FS_CardinalityType
  <2>5. \A k \in P : /\ b.trail[k].order \in side
                     /\ b.orders[b.trail[k].order].pos_market_value = w
    <3> SUFFICES ASSUME NEW k \in P
                 PROVE  /\ b.trail[k].order \in side
                        /\ b.orders[b.trail[k].order].pos_market_value = w
      OBVIOUS
    <3> DEFINE i == b.trail[k].order
    <3>1. i \in Handled(b) /\ b.orders[i].order_type = type
      BY <1>5 DEF Placed, Handled
    <3>2. i \in DOMAIN events
      BY <1>1, <2>3, <3>1 DEF BatchInv, Partition
    <3>3. events[i].action = type
      BY <2>3, <3>1, <3>2
    <3>4. PositionMarketValue(s, events, events[i]) = w
      BY <3>3 DEF PositionMarketValue, count_order_types, pv
    <3> HIDE DEF w
    <3> QED
      BY <2>3, <3>2, <3>3, <3>4
  <2>6. Cardinality(P) <= count
    <3>1. \A j, k \in DOMAIN b.trail : b.trail[j].order = b.trail[k].order => j = k
      <4> DEFINE f == [k \in DOMAIN b.trail |-> b.trail[k].order]
      <4>1. f \in Surjection(DOMAIN b.trail, Handled(b))
        BY DEF Surjection, Handled
      <4>2. Cardinality(DOMAIN b.trail) = Cardinality(Handled(b))
        BY <1>1, <1>4 DEF BatchInv, Partition
      <4>3. f \in Injection(DOMAIN b.trail, Handled(b))
        BY <1>4, <4>1, <4>2, FS_SurjSameCardinalityImpliesInj
      <4> QED
        BY <4>3 DEF Injection, IsInjective
    <3>2. order \in Injection(P, side)
      BY <1>5, <2>5, <3>1 DEF Injection, IsInjective
    <3> HIDE DEF order, side
    <3> QED
      BY <2>4, <3>2, FS_Injection
  <2>7. \A k \in P : /\ b.trail[k].outcome \in {"simulated", "submitted"}
                     /\ b.trail[k].shares \in Nat /\ b.trail[k].price \in Known
                     /\ b.trail[k].shares = NumShares(w, b.trail[k].price)
    <3> SUFFICES ASSUME NEW k \in P
                 PROVE  /\ b.trail[k].outcome \in {"simulated", "submitted"}
                        /\ b.trail[k].shares \in Nat /\ b.trail[k].price \in Known
                        /\ b.trail[k].shares = NumShares(w, b.trail[k].price)
      OBVIOUS
    <3>1. b.trail[k].outcome \in {"simulated", "submitted"} /\ EntryOK(b, b.trail[k])
      BY <1>3, <1>5 DEF Placed
    <3> HIDE DEF w
    <3> QED
      BY <2>5, <3>1, SharesBound DEF EntryOK
  <2>8. CASE P = {}
    <3>1. Cardinality(P) * 0 <= pv /\ 0 \in Nat
      BY <1>2, <2>8, FS_EmptySet
    <3> QED
      BY <1>5, <2>8, <3>1 DEF b, pv
  <2>9. CASE P # {}
    <3>1. Cardinality(P) \in Nat /\ Cardinality(P) # 0
      BY <1>5, <2>9, FS_CardinalityType, FS_EmptySet
    <3>2. count \in Nat \ {0}
      BY <2>4, <2>6, <3>1
    <3>3. w \in Nat /\ Cardinality(P) * w <= pv
      <4> HIDE DEF count, P
      <4> QED
        BY <1>2, <2>6, <3>1, <3>2, EqualWeights
    <3> HIDE DEF w
    <3>4. \A k \in P : /\ b.trail[k].shares * b.trail[k].price \in Int
                       /\ b.trail[k].shares * b.trail[k].price <= w
      BY <2>7, <3>3, SharesWorth
    <3> QED
      BY <1>5, <2>7, <3>3, <3>4 DEF b, pv
  <2> QED
    BY <2>8, <2>9
<1> QED
  BY <1>6, <1>7

\* The buys of a call, each filled at its limit, and its sells, at the prices
\* they were sized with.
BuyCost(s) ==
    LET b == batch[s]
        Cost(k) == b.trail[k].shares * (1000 * LimitPrice("buy", b.trail[k].price) - 500)
    IN  MapThenSumSet(Cost, Placed(b, "buy"))
SellValue(s) ==
    LET b == batch[s]
        Value(k) == b.trail[k].shares * b.trail[k].price
    IN  MapThenSumSet(Value, Placed(b, "sell"))

LEMMA BuysWithin ==
    ASSUME IInv, OwnOrders, NEW s \in Strategies
    PROVE  BuyCost(s) <= 1021 * PortfolioValue(s, "buy")
<1> DEFINE b == batch[s]
           P == Placed(b, "buy")
           Cost(k) == b.trail[k].shares * (1000 * LimitPrice("buy", b.trail[k].price) - 500)
           F == [k \in P |-> Cost(k)]
           sums == CHOOSE g : g = [S \in SUBSET P |->
                      IF S = {} THEN 0
                      ELSE Cost(CHOOSE x \in S : TRUE) + g[S \ {CHOOSE x \in S : TRUE}]]
<1>1. IsFiniteSet(P)
  BY PlacedFacts
<1>2. PICK w \in Nat :
         /\ Cardinality(P) * w <= PortfolioValue(s, "buy")
         /\ \A k \in P : /\ b.trail[k].shares \in Nat /\ b.trail[k].price \in Known
                         /\ b.trail[k].shares * b.trail[k].price <= w
  BY PlacedFacts
<1>3. \A k \in P : Cost(k) \in Int /\ Cost(k) <= 1021 * w
  BY <1>2, BuyWorth
<1>4. BuyCost(s) = sums[P]
  BY Zenon DEF BuyCost, MapThenSumSet, MapThenFoldSet
<1> HIDE DEF P, Cost
<1>5. \A k \in P : F[k] = Cost(k)
  OBVIOUS
<1> HIDE DEF F
<1>6. \A S \in SUBSET P : S # {} => FirstOf(S) \in P
  BY DEF FirstOf
<1>7. SumsOver(SUBSET P, F, sums)
  <2>1. PICK g : SumsOver(SUBSET P, F, g)
    BY <1>1, SumExists
  <2>2. g = [S \in SUBSET P |->
                IF S = {} THEN 0
                ELSE Cost(CHOOSE x \in S : TRUE) + g[S \ {CHOOSE x \in S : TRUE}]]
    BY <1>5, <1>6, <2>1 DEF SumsOver, FirstOf
  <2>3. sums = [S \in SUBSET P |->
                IF S = {} THEN 0
                ELSE Cost(CHOOSE x \in S : TRUE) + sums[S \ {CHOOSE x \in S : TRUE}]]
    BY <2>2, Zenon
  <2> HIDE DEF sums
  <2> QED
    BY <1>5, <1>6, <2>3 DEF SumsOver, FirstOf
<1> HIDE DEF sums
<1>8. sums[P] \in Int /\ sums[P] <= Cardinality(P) * (1021 * w)
  <2>1. 1021 * w \in Nat /\ \A k \in P : F[k] \in Int /\ F[k] <= 1021 * w
    BY <1>3, <1>5
  <2> QED
    BY <1>1, <1>7, <2>1, SumBound
<1>9. Cardinality(P) * (1021 * w) = 1021 * (Cardinality(P) * w) /\ Cardinality(P) * w \in Int
  BY <1>1, FS_CardinalityType
<1>10. PortfolioValue(s, "buy") \in Nat
  BY ConstantFacts, OrdersAssumption, Zenon DEF PortfolioValue
<1>11. sums[P] <= 1021 * PortfolioValue(s, "buy")
  BY <1>2, <1>8, <1>9, <1>10
<1> QED
  BY <1>4, <1>11

LEMMA SellsWithin ==
    ASSUME IInv, OwnOrders, NEW s \in Strategies
    PROVE  SellValue(s) <= PortfolioValue(s, "sell")
<1> DEFINE b == batch[s]
           P == Placed(b, "sell")
           Value(k) == b.trail[k].shares * b.trail[k].price
           F == [k \in P |-> Value(k)]
           sums == CHOOSE g : g = [S \in SUBSET P |->
                      IF S = {} THEN 0
                      ELSE Value(CHOOSE x \in S : TRUE) + g[S \ {CHOOSE x \in S : TRUE}]]
<1>1. IsFiniteSet(P)
  BY PlacedFacts
<1>2. PICK w \in Nat :
         /\ Cardinality(P) * w <= PortfolioValue(s, "sell")
         /\ \A k \in P : Value(k) \in Int /\ Value(k) <= w
  BY PlacedFacts
<1>3. SellValue(s) = sums[P]
  BY Zenon DEF SellValue, MapThenSumSet, MapThenFoldSet
<1> HIDE DEF P, Value
<1>4. \A k \in P : F[k] = Value(k)
  OBVIOUS
<1> HIDE DEF F
<1>5. \A S \in SUBSET P : S # {} => FirstOf(S) \in P
  BY DEF FirstOf
<1>6. SumsOver(SUBSET P, F, sums)
  <2>1. PICK g : SumsOver(SUBSET P, F, g)
    BY <1>1, SumExists
  <2>2. g = [S \in SUBSET P |->
                IF S = {} THEN 0
                ELSE Value(CHOOSE x \in S : TRUE) + g[S \ {CHOOSE x \in S : TRUE}]]
    BY <1>4, <1>5, <2>1 DEF SumsOver, FirstOf
  <2>3. sums = [S \in SUBSET P |->
                IF S = {} THEN 0
                ELSE Value(CHOOSE x \in S : TRUE) + sums[S \ {CHOOSE x \in S : TRUE}]]
    BY <2>2, Zenon
  <2> HIDE DEF sums
  <2> QED
    BY <1>4, <1>5, <2>3 DEF SumsOver, FirstOf
<1> HIDE DEF sums
<1>7. sums[P] \in Int /\ sums[P] <= Cardinality(P) * w
  BY <1>1, <1>2, <1>4, <1>6, SumBound
<1>8. Cardinality(P) * w \in Int /\ PortfolioValue(s, "sell") \in Nat
  <2>1. Cardinality(P) \in Nat
    BY <1>1, FS_CardinalityType
  <2>2. PortfolioValue(s, "sell") \in Nat
    BY ConstantFacts, OrdersAssumption, Zenon DEF PortfolioValue
  <2> QED
    BY <2>1, <2>2
<1>9. sums[P] <= PortfolioValue(s, "sell")
  BY <1>2, <1>7, <1>8
<1> QED
  BY <1>3, <1>9

\* What a batch may cost stays within the portfolio value of its strategy,
\* however many orders it has and whatever their prices.
THEOREM CostsWithinValue == Spec => []WithinPortfolioValue
<1>1. IInv /\ OwnOrders => WithinPortfolioValue
  <2>1. (\A s \in Strategies : /\ BuyCost(s) <= 1021 * PortfolioValue(s, "buy")
                              /\ SellValue(s) <= PortfolioValue(s, "sell"))
        => WithinPortfolioValue
    BY Zenon DEF WithinPortfolioValue, BuyCost, SellValue
  <2> QED
    BY <2>1, BuysWithin, SellsWithin
<1> QED
  BY BatchesInvariant, OwnOrdersInvariant, <1>1, PTL
=============================================================================

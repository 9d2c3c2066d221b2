--------------------------- MODULE BrokersWatcher ---------------------------
(***************************************************************************)
(* broker-common/src/brokers_watcher.rs and gateway.rs: place_orders()     *)
(* with its two loops, run by the FastRunner instances concurrently on one *)
(* thread.  A batch can be interleaved with the other one, with the quote  *)
(* stream and with the end of the process where it awaits: at the          *)
(* submission of an order, at the request for real-time bars and at the    *)
(* first bar.  The steps between two awaits touch the batch only.          *)
(*                                                                         *)
(* Interactive Brokers is external: it may accept a submission or not,     *)
(* refuse a request for bars, end the bars, or never send one ("After      *)
(* market closes, it doesn't return any bars and we wait forever").        *)
(***************************************************************************)
EXTENDS RqOrders, SequencesExt

CONSTANTS
    EventLists,      \* strategy -> the event lists it may bring
    Tickers,         \* the tickers of the mark value cache
    Prices,          \* the prices of the quote stream and of the bars
    DcMain, DcBlanzac, Gyantal

BrokerClients == {DcMain, DcBlanzac, Gyantal}

ASSUME BrokersAssumption ==
    /\ Prices \subseteq Nat \ {0}
    /\ Strategies = DOMAIN EventLists
    /\ \A s \in Strategies : \A events \in EventLists[s] :
          /\ events \in Seq(ToSet(events))
          /\ \A i \in DOMAIN events : /\ events[i].action \in {"buy", "sell"}
                                     /\ events[i].price \in (Nat \ {0}) \cup {NaN}
    /\ Cardinality(BrokerClients) = 3

VARIABLES
    gateways,          \* broker client -> "connected", "failed" or "missing"
    mark_timevalues,   \* the mark value cache, NaN for no value yet
    batch              \* strategy -> its place_orders() call

vars == <<gateways, mark_timevalues, batch>>

\* The locals of a call: the orders, the values copied from the cache, the
\* orders still ahead in the current loop, those left for the second loop, the
\* price found for the order in hand; trail (history) is what became of the
\* orders so far.
NoBatch == [pc |-> "idle", orders |-> <<>>, is_simulation |-> TRUE,
            ticker_markvalues |-> [t \in Tickers |-> NaN],
            ahead |-> <<>>, unknown_price_orders |-> <<>>, price |-> NaN,
            second_loop |-> FALSE, trail |-> <<>>]

PCs == {"idle", "loop", "submitting", "requesting_bars", "awaiting_bar",
        "done", "panicked", "dropped"}
Outcomes == {"no_price", "zero_size", "simulated", "submitted"}

TypeOK ==
    /\ gateways \in [BrokerClients -> {"connected", "failed", "missing"}]
    /\ mark_timevalues \in [Tickers -> Prices \cup {NaN}]
    /\ \A s \in Strategies :
         LET b == batch[s] IN
         /\ DOMAIN b = DOMAIN NoBatch
         /\ b.pc \in PCs /\ {b.is_simulation, b.second_loop} \subseteq BOOLEAN
         /\ b.ticker_markvalues \in [Tickers -> Prices \cup {NaN}]
         /\ b.price = NaN \/ b.price \in Nat \ {0}
         /\ ToSet(b.ahead) \cup ToSet(b.unknown_price_orders) \subseteq DOMAIN b.orders
         /\ \A k \in DOMAIN b.trail :
              /\ b.trail[k].order \in DOMAIN b.orders
              /\ b.trail[k].outcome \in Outcomes
              /\ b.trail[k].outcome \in {"simulated", "submitted"}
                   => b.trail[k].shares \in 1..I32Max

\* BrokersWatcher::init() and Gateway::init(): each gateway connects or does
\* not, and is never tried again.  Nothing else runs before they are through.
Init ==
    /\ gateways \in [BrokerClients -> {"connected", "failed"}]
    /\ mark_timevalues = [t \in Tickers |-> NaN]
    /\ batch = [s \in Strategies |-> NoBatch]

-----------------------------------------------------------------------------
Set(s, b) == batch' = [batch EXCEPT ![s] = b]

\* What became of the order in hand, and the batch goes on behind it.
Finish(b, outcome, shares, price) ==
    [b EXCEPT !.pc = "loop", !.price = NaN, !.ahead = Tail(@),
              !.trail = Append(@, [order |-> Head(b.ahead), outcome |-> outcome,
                                   shares |-> shares, price |-> price,
                                   from_cache |-> ~ b.second_loop])]

\* Mutant: a simulation submits as well.
PlaceOrderAnyway(b, price) ==
    LET order == b.orders[Head(b.ahead)]
        num_shares == NumShares(order.pos_market_value, price)
    IN  IF price = NaN THEN Finish(b, "no_price", 0, NaN)
        ELSE IF num_shares <= 0 THEN Finish(b, "zero_size", 0, price)
        ELSE [b EXCEPT !.pc = "submitting", !.price = price]

\* Mutant: the test of the share count is missing.
PlaceOrderOfAnySize(b, price) ==
    LET order == b.orders[Head(b.ahead)]
        num_shares == NumShares(order.pos_market_value, price)
    IN  IF price = NaN THEN Finish(b, "no_price", 0, NaN)
        ELSE IF b.is_simulation THEN Finish(b, "simulated", num_shares, price)
        ELSE [b EXCEPT !.pc = "submitting", !.price = price]

\* place_order() up to its await.
place_order(b, price) ==
    LET order == b.orders[Head(b.ahead)]
        num_shares == NumShares(order.pos_market_value, price)
    IN  IF price = NaN THEN Finish(b, "no_price", 0, NaN)
        ELSE IF num_shares <= 0 THEN Finish(b, "zero_size", 0, price)
        ELSE IF b.is_simulation THEN Finish(b, "simulated", num_shares, price)
        ELSE [b EXCEPT !.pc = "submitting", !.price = price]

\* The beginning of place_orders(): nothing without orders; the values of the
\* cache are copied once, under its lock; without both clients nothing is
\* placed.
place_orders(s, events, is_simulation) ==
    LET orders == OrdersToPlace(s, events)
        ready == orders # <<>> /\ \A c \in {Gyantal, DcMain} : gateways[c] = "connected"
    IN  /\ batch[s].pc = "idle"
        /\ Set(s, [NoBatch EXCEPT
                     !.pc = IF ready THEN "loop" ELSE "done",
                     !.orders = IF ready THEN orders ELSE <<>>,
                     !.is_simulation = is_simulation,
                     !.ticker_markvalues = mark_timevalues,
                     !.ahead = IF ready THEN [i \in DOMAIN orders |-> i] ELSE <<>>])
        /\ UNCHANGED <<gateways, mark_timevalues>>

\* Mutant: the cache is read again for every order.
CurrentPrice(b, ticker) ==
    IF ticker \in Tickers THEN mark_timevalues[ticker] ELSE NaN

CachedPrice(b, ticker) ==
    IF ticker \in Tickers THEN b.ticker_markvalues[ticker] ELSE NaN

\* Mutants: one loop, where an order without a cached price waits for its bar
\* before the next one; the second loop goes over all orders.
SingleLoop(s) ==
    LET b == batch[s]
        price == CachedPrice(b, b.orders[Head(b.ahead)].ticker)
    IN  /\ b.pc = "loop" /\ ~ b.second_loop
        /\ b.ahead # <<>>
        /\ Set(s, IF price # NaN THEN place_order(b, price)
                                 ELSE [b EXCEPT !.pc = "requesting_bars"])
        /\ UNCHANGED <<gateways, mark_timevalues>>

QueueAllOrders(s) ==
    LET b == batch[s]
        price == CachedPrice(b, b.orders[Head(b.ahead)].ticker)
        queued == [b EXCEPT !.unknown_price_orders = Append(@, Head(b.ahead))]
    IN  /\ b.pc = "loop" /\ ~ b.second_loop
        /\ b.ahead # <<>>
        /\ Set(s, IF price # NaN THEN place_order(queued, price)
                                 ELSE [queued EXCEPT !.ahead = Tail(@)])
        /\ UNCHANGED <<gateways, mark_timevalues>>

\* One round of the first loop: an order with a cached price is placed, the
\* others are put off.
FirstLoop(s) ==
    LET b == batch[s]
        price == CachedPrice(b, b.orders[Head(b.ahead)].ticker)
    IN  /\ b.pc = "loop" /\ ~ b.second_loop
        /\ b.ahead # <<>>
        /\ Set(s, IF price # NaN
                    THEN place_order(b, price)
                    ELSE [b EXCEPT !.ahead = Tail(@),
                                   !.unknown_price_orders = Append(@, Head(b.ahead))])
        /\ UNCHANGED <<gateways, mark_timevalues>>

\* The end of a loop.
NextLoop(s) ==
    LET b == batch[s] IN
    /\ b.pc = "loop"
    /\ b.ahead = <<>>
    /\ Set(s, IF b.second_loop
                THEN [b EXCEPT !.pc = "done"]
                ELSE [b EXCEPT !.second_loop = TRUE, !.ahead = b.unknown_price_orders])
    /\ UNCHANGED <<gateways, mark_timevalues>>

\* One round of the second loop: get_knownlast_or_ib_price() takes the
\* published price, or asks for real-time bars.
SecondLoop(s) ==
    LET b == batch[s]
        known_last_price == b.orders[Head(b.ahead)].known_last_price
    IN  /\ b.pc = "loop" /\ b.second_loop
        /\ b.ahead # <<>>
        /\ Set(s, IF known_last_price # NaN
                    THEN place_order(b, known_last_price)
                    ELSE [b EXCEPT !.pc = "requesting_bars"])
        /\ UNCHANGED <<gateways, mark_timevalues>>

\* The answer to the request for bars: an error panics.
BarsRequested(s) ==
    /\ batch[s].pc = "requesting_bars"
    /\ \E pc \in {"awaiting_bar", "panicked"} : Set(s, [batch[s] EXCEPT !.pc = pc])
    /\ UNCHANGED <<gateways, mark_timevalues>>

\* The first bar brings its close; an error in its place, or the end of the
\* subscription, leaves the price unknown.
BarArrives(s) ==
    /\ batch[s].pc = "awaiting_bar"
    /\ \E price \in Prices \cup {NaN} : Set(s, place_order(batch[s], price))
    /\ UNCHANGED <<gateways, mark_timevalues>>

\* The answer to submit(): an error panics, and the rest of the batch is lost.
Submitted(s) ==
    LET b == batch[s]
        order == b.orders[Head(b.ahead)]
    IN  /\ b.pc = "submitting"
        /\ \/ Set(s, Finish(b, "submitted", NumShares(order.pos_market_value, b.price),
                            b.price))
           \/ Set(s, [b EXCEPT !.pc = "panicked"])
        /\ UNCHANGED <<gateways, mark_timevalues>>

\* The quote stream stores a value.
MarkValueArrives ==
    /\ \E t \in Tickers, v \in Prices :
          mark_timevalues' = [mark_timevalues EXCEPT ![t] = v]
    /\ UNCHANGED <<gateways, batch>>

\* main() ends: it clears the gateways without giving up the thread and
\* returns; the runtime drops the batches where they stand.
exit ==
    /\ \E c \in BrokerClients : gateways[c] # "missing"
    /\ gateways' = [c \in BrokerClients |-> "missing"]
    /\ batch' = [s \in Strategies |->
                    IF batch[s].pc \in {"done", "panicked"} THEN batch[s]
                    ELSE [batch[s] EXCEPT !.pc = "dropped"]]
    /\ UNCHANGED mark_timevalues

Running == \E c \in BrokerClients : gateways[c] # "missing"

\* The steps the runtime takes as soon as the batch is polled.
Proceed(s) == FirstLoop(s) \/ NextLoop(s) \/ SecondLoop(s)

Next ==
    /\ Running
    /\ \/ \E s \in Strategies :
             \/ \E events \in EventLists[s], is_simulation \in BOOLEAN :
                   place_orders(s, events, is_simulation)
             \/ Proceed(s) \/ BarsRequested(s) \/ BarArrives(s) \/ Submitted(s)
       \/ MarkValueArrives
       \/ exit

\* The runtime polls every ready batch, and the broker answers submissions and
\* requests; no bar is promised.
Fairness ==
    \A s \in Strategies :
        WF_vars(Proceed(s)) /\ WF_vars(BarsRequested(s)) /\ WF_vars(Submitted(s))

Spec == Init /\ [][Next]_vars /\ Fairness

-----------------------------------------------------------------------------
\* The orders of a call that have an outcome, and those with a cached price.
Handled(b) == {b.trail[k].order : k \in DOMAIN b.trail}
Cached(b) == {i \in DOMAIN b.orders :
                /\ b.orders[i].ticker \in Tickers
                /\ b.ticker_markvalues[b.orders[i].ticker] # NaN}

\* No order of a batch is handled twice, in the loop it falls into or in both,
\* and a batch that ends by itself has handled every order.
EveryOrderOnce ==
    \A s \in Strategies :
        /\ Len(batch[s].trail) = Cardinality(Handled(batch[s]))
        /\ batch[s].pc = "done" => Handled(batch[s]) = DOMAIN batch[s].orders

\* A simulation sends nothing to the broker and has no submission in flight,
\* however its prices come and whatever the other run does live.
SimulationNeverSubmits ==
    \A s \in Strategies :
        batch[s].is_simulation =>
            /\ batch[s].pc # "submitting"
            /\ \A k \in DOMAIN batch[s].trail : batch[s].trail[k].outcome # "submitted"

\* Orders for the same ticker in one batch trade at one cached price, although
\* the stream goes on while the first of them is submitted.
OneCachedPricePerTicker ==
    \A s \in Strategies : LET b == batch[s] IN
        \A j, k \in DOMAIN b.trail :
            /\ b.trail[j].from_cache /\ b.trail[k].from_cache
            /\ b.orders[b.trail[j].order].ticker = b.orders[b.trail[k].order].ticker
            => b.trail[j].price = b.trail[k].price

\* What a batch may cost stays within the portfolio value of its strategy: the
\* buys filled at their limits within 2.1% more (and half a cent a share for
\* the rounding), the sells at the price they were sized with.
Placed(b, order_type) ==
    {k \in DOMAIN b.trail :
        /\ b.trail[k].outcome \in {"simulated", "submitted"}
        /\ b.orders[b.trail[k].order].order_type = order_type}

WithinPortfolioValue ==
    \A s \in Strategies :
        LET b == batch[s]
            Cost(k) == b.trail[k].shares * (1000 * LimitPrice("buy", b.trail[k].price) - 500)
            Value(k) == b.trail[k].shares * b.trail[k].price
        IN  /\ MapThenSumSet(Cost, Placed(b, "buy")) <= 1021 * PortfolioValue(s, "buy")
            /\ MapThenSumSet(Value, Placed(b, "sell")) <= PortfolioValue(s, "sell")

\* The orders with a cached price get an outcome even if no bar ever arrives
\* for the others: the reason for the two loops.  Only a refused submission or
\* request, or the end of the process, stops them.
CachedOrdersGoOut ==
    \A s \in Strategies :
        batch[s].pc = "loop"
            ~> \/ Cached(batch[s]) \subseteq Handled(batch[s])
               \/ batch[s].pc \in {"panicked", "dropped"}
=============================================================================

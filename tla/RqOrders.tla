------------------------------ MODULE RqOrders ------------------------------
(***************************************************************************)
(* From what Seeking Alpha published to sized orders: the pure part of     *)
(* robotrader/fast_runner.rs (events, position values, orders) and of      *)
(* brokers_watcher.rs (share counts and limit prices).                     *)
(*                                                                         *)
(* Money is in cents.  A portfolio value divided by a count and then by a  *)
(* price, rounded down once, is the same as rounding down twice, so the    *)
(* f64 quotients in between are integer quotients here.  A published price *)
(* that is absent, that does not parse or that is "NaN" is NaN.            *)
(***************************************************************************)
EXTENDS Integers, Sequences, FiniteSets

CONSTANTS
    NaN,
    PqpBuyPv, PqpSellPv,    \* portfolio value of the PQP buys and sells
    ApBuyPv,                \* portfolio value of the AP buys
    MaxPqpEvents,           \* 14
    MaxApEvents             \* 2

I32Max == 2147483647    \* i32::MAX, 2^31 - 1

Strategies == {"SA_PQP", "SA_AP"}

ASSUME OrdersAssumption ==
    /\ {PqpBuyPv, PqpSellPv, ApBuyPv, MaxPqpEvents, MaxApEvents} \subseteq Nat
    /\ NaN \notin Nat

-----------------------------------------------------------------------------
\* get_new_transactions_pqp: the buys and sells of the target date that are no
\* rebalancing and whose stock is among the included ones.
PqpEvents(transactions) ==
    SelectSeq(transactions, LAMBDA t :
        /\ t.on_target_date
        /\ t.rule # "rebalance"
        /\ t.stock_included
        /\ t.action \in {"buy", "sell"})

\* get_new_transactions_ap, and the fallback of PQP: every primary tag of an
\* article of the target date is a buy, unless its name is a foreign one
\* ("CLS:CA").  The articles' tags are given as one sequence.
ArticleEvents(tags) ==
    SelectSeq(tags, LAMBDA t :
        t.on_target_date /\ t.stock_included /\ ~ t.foreign)

\* The analysis page gives the buys when the history gives no event.
NewEvents(strategy, transactions, tags) ==
    IF strategy = "SA_PQP" /\ PqpEvents(transactions) # <<>>
      THEN PqpEvents(transactions)
      ELSE ArticleEvents(tags)

count_order_types(order_type, events) ==
    Cardinality({i \in DOMAIN events : events[i].action = order_type})

\* The sells of an AP list would get nothing; it never has any.
PortfolioValue(strategy, order_type) ==
    CASE strategy = "SA_PQP" /\ order_type = "buy" -> PqpBuyPv
      [] strategy = "SA_PQP" /\ order_type = "sell" -> PqpSellPv
      [] strategy = "SA_AP" /\ order_type = "buy" -> ApBuyPv
      [] OTHER -> 0

\* Mutant: the value of the side is not divided by its number of orders.
FullPositionMarketValue(strategy, events, e) ==
    PortfolioValue(strategy, e.action)

\* determine_position_market_values_{pqp,ap}_gyantal: equal weights per side.
PositionMarketValue(strategy, events, e) ==
    PortfolioValue(strategy, e.action) \div count_order_types(e.action, events)

build_rqorders(strategy, events) ==
    [i \in DOMAIN events |->
        [order_type |-> events[i].action,
         ticker |-> events[i].ticker,
         pos_market_value |-> PositionMarketValue(strategy, events, events[i]),
         known_last_price |-> events[i].price]]

\* fastrunning_loop_{pqp,ap}_impl: more events than were ever seen are taken
\* for an error, and nothing is traded.
OrdersToPlace(strategy, events) ==
    LET limit == IF strategy = "SA_PQP" THEN MaxPqpEvents ELSE MaxApEvents
    IN  IF Len(events) > limit THEN <<>> ELSE build_rqorders(strategy, events)

-----------------------------------------------------------------------------
\* (pos_market_value / price).floor() as i32: the cast saturates, and makes 0
\* of the NaN that 0.0 / 0.0 is.
NumShares(pos_market_value, price) ==
    IF price = 0
      THEN IF pos_market_value = 0 THEN 0 ELSE I32Max
      ELSE LET n == pos_market_value \div price IN IF n > I32Max THEN I32Max ELSE n

\* The limit of an order, 2.1% on the marketable side of the price, rounded to
\* the nearest cent.
LimitPrice(order_type, price) ==
    IF order_type = "buy" THEN (price * 1021 + 500) \div 1000
                          ELSE (price * 979 + 500) \div 1000
=============================================================================

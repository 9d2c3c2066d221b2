-------------------------- MODULE MCBrokersWatcher --------------------------
(***************************************************************************)
(* Small inputs for BrokersWatcher: a few transaction histories and        *)
(* article tags, from which NewEvents makes the event lists.  "C" is never *)
(* in the mark value cache.                                                *)
(***************************************************************************)
EXTENDS BrokersWatcher

Tr(action, ticker, price) ==
    [on_target_date |-> TRUE, rule |-> "none", stock_included |-> TRUE,
     foreign |-> FALSE, action |-> action, ticker |-> ticker, price |-> price]

Rebalance(t) == [t EXCEPT !.rule = "rebalance"]
LastWeek(t) == [t EXCEPT !.on_target_date = FALSE]
Unlisted(t) == [t EXCEPT !.stock_included = FALSE]
Foreign(t) == [t EXCEPT !.foreign = TRUE]

BuyA == Tr("buy", "A", NaN)
BuyC == Tr("buy", "C", NaN)

Histories == {
    <<>>,
    <<Unlisted(BuyA), BuyA, Tr("sell", "C", 500), Rebalance(BuyA)>>,
    <<BuyA, LastWeek(BuyC), Tr("buy", "C", 900), BuyA>>,
    <<BuyA, BuyC, BuyA, BuyC>>}

TagLists == {<<BuyC, BuyA>>, <<Foreign(BuyC), BuyA>>, <<BuyA, BuyC, BuyA>>}

MCEventLists ==
    [s \in Strategies |->
        IF s = "SA_PQP"
          THEN {NewEvents(s, h, <<BuyC>>) : h \in Histories}
          ELSE {NewEvents(s, <<>>, a) : a \in TagLists}]
=============================================================================

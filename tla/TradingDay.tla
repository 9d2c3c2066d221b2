----------------------------- MODULE TradingDay -----------------------------
(***************************************************************************)
(* What the scheduler and the runs' decision promise together, with no     *)
(* slots, no triggers and no local time: days follow each other, each has  *)
(* one time around noon, and a strategy trades for real at that time only  *)
(* and at most once a day.                                                 *)
(***************************************************************************)
EXTENDS Naturals

CONSTANT Strategies

VARIABLES
    today,      \* the day, a number
    phase,      \* "before", "noon" or "after"
    batches     \* how often each strategy has traded for real today

vars == <<today, phase, batches>>

Nothing == [s \in Strategies |-> 0]

Init ==
    /\ today \in Nat
    /\ phase \in {"before", "noon", "after"}
    /\ batches = Nothing

Moves ==
    /\ \/ phase = "before" /\ phase' = "noon"
       \/ phase = "noon" /\ phase' = "after"
    /\ UNCHANGED <<today, batches>>

NextDay ==
    /\ phase = "after"
    /\ phase' = "before"
    /\ today' = today + 1
    /\ batches' = Nothing

Trades(s) ==
    /\ phase = "noon"
    /\ batches[s] = 0
    /\ batches' = [batches EXCEPT ![s] = 1]
    /\ UNCHANGED <<today, phase>>

Next == Moves \/ NextDay \/ \E s \in Strategies : Trades(s)

Spec == Init /\ [][Next]_vars
=============================================================================

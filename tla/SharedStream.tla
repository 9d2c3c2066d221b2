---------------------------- MODULE SharedStream ----------------------------
(***************************************************************************)
(* What the quote stream promises to the runs that share it, with no       *)
(* counter and no task handle: a run that acquires the stream finds it on, *)
(* and the stream is switched off by the release of its last holder and by *)
(* nobody else's.  It may also end by itself, when Yahoo closes it.        *)
(***************************************************************************)
EXTENDS FiniteSets

CONSTANT Callers    \* the runs that may use the stream

VARIABLES
    holders,        \* the runs that acquired the stream and did not release it
    streaming       \* whether prices are arriving

vars == <<holders, streaming>>

Init ==
    /\ holders = {}
    /\ streaming = FALSE

Acquire(c) ==
    /\ c \notin holders
    /\ holders' = holders \cup {c}
    /\ streaming' = TRUE

Release(c) ==
    /\ c \in holders
    /\ holders' = holders \ {c}
    /\ streaming' = (streaming /\ holders' # {})

Ends ==
    /\ streaming
    /\ streaming' = FALSE
    /\ UNCHANGED holders

Next ==
    \/ \E c \in Callers : Acquire(c) \/ Release(c)
    \/ Ends

Spec == Init /\ [][Next]_vars
=============================================================================

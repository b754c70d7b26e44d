------------------------------ MODULE DrainGate ------------------------------
(***************************************************************************)
(* What a one-way admission gate promises, with no channels, counters or   *)
(* callers' control state: requests go in while the gate is open, the gate *)
(* closes once, and a caller is told that the drain is complete only when  *)
(* the gate is closed and nobody is inside.  Lifecycle implements it.      *)
(***************************************************************************)
CONSTANTS Requests, Callers

VARIABLES open, inside, told

gateVars == <<open, inside, told>>

Init ==
    /\ open = TRUE
    /\ inside = {}
    /\ told = {}

Enter(r) ==
    /\ open
    /\ inside' = inside \union {r}
    /\ UNCHANGED <<open, told>>

Leave(r) ==
    /\ inside' = inside \ {r}
    /\ UNCHANGED <<open, told>>

Close ==
    /\ open' = FALSE
    /\ UNCHANGED <<inside, told>>

Tell(c) ==
    /\ ~open
    /\ inside = {}
    /\ told' = told \union {c}
    /\ UNCHANGED <<open, inside>>

Next ==
    \/ \E r \in Requests : Enter(r) \/ Leave(r)
    \/ Close
    \/ \E c \in Callers : Tell(c)

Spec == Init /\ [][Next]_gateVars
=============================================================================

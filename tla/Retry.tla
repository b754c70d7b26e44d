-------------------------------- MODULE Retry --------------------------------
(***************************************************************************)
(* The persisted budget of replacement attempts: State of src/retry.rs.    *)
(* Seconds and attempts are u64 in the code; here the largest number is    *)
(* MaxU and a shift is capped at Bits - 1, so that both limits are met.    *)
(*                                                                         *)
(* External: the controller the comments of reserve() prescribe.  It       *)
(* loads the state, reserves, persists, and only then spawns; it may crash *)
(* between any two of these steps and start again from what was persisted. *)
(***************************************************************************)
EXTENDS Integers

CONSTANTS
    Policies,       \* records [limit, delay, maximum_delay]
    MaxU,           \* u64::MAX
    Bits,           \* 64
    MaxTime,        \* bound: the clock
    MaxCrashes      \* bound: crashes of the controller

VARIABLES
    policy,
    now,            \* the clock of the persisted time domain
    persisted,      \* the persisted State
    memory,         \* the controller's State
    phase,          \* "deciding", "reserved", "persisted"
    spawned,        \* candidates spawned so far
    exhausted,      \* the candidate failed for good
    crashes

vars == <<policy, now, persisted, memory, phase, spawned, exhausted, crashes>>

Fresh == [attempts |-> 0, next_attempt |-> 0]

Init ==
    /\ policy \in Policies
    /\ now \in {0, MaxU - 1}
    /\ persisted = Fresh /\ memory = Fresh
    /\ phase = "deciding"
    /\ spawned = 0
    /\ exhausted = FALSE
    /\ crashes = 0

Smaller(a, b) == IF a < b THEN a ELSE b
Saturated(n) == Smaller(n, MaxU)

\* State::allowed
Allowed(state, pol, t) == state.attempts < pol.limit /\ t >= state.next_attempt

\* State::reserve
Reserve(state, pol, t) ==
    LET attempts == Saturated(state.attempts + 1)
        delay == Saturated(pol.delay * 2^Smaller(attempts, Bits - 1))
    IN  [attempts |-> attempts,
         next_attempt |-> Saturated(t + Smaller(delay, pol.maximum_delay))]

\* State::exhaust
Exhaust(state, pol) == [state EXCEPT !.attempts = pol.limit]

\* State::next
NextTime(state, pol) == IF state.attempts < pol.limit THEN {state.next_attempt} ELSE {}

Decide ==
    /\ phase = "deciding" /\ Allowed(memory, policy, now)
    /\ memory' = Reserve(memory, policy, now)
    /\ phase' = "reserved"
    /\ UNCHANGED <<policy, now, persisted, spawned, exhausted, crashes>>

\* Fault: the candidate is spawned first.
PersistLater ==
    /\ phase = "reserved"
    /\ phase' = "persisted"
    /\ UNCHANGED <<policy, now, persisted, memory, spawned, exhausted, crashes>>

Persist ==
    /\ phase = "reserved"
    /\ persisted' = memory
    /\ phase' = "persisted"
    /\ UNCHANGED <<policy, now, memory, spawned, exhausted, crashes>>

\* The candidate starts; it may fail in a way no retry can mend.
Spawn(permanent) ==
    /\ phase = "persisted"
    /\ spawned' = spawned + 1
    /\ exhausted' = permanent
    /\ memory' = IF permanent THEN Exhaust(memory, policy) ELSE memory
    /\ persisted' = IF permanent THEN Exhaust(memory, policy) ELSE persisted
    /\ phase' = "deciding"
    /\ UNCHANGED <<policy, now, crashes>>

Crash ==
    /\ crashes < MaxCrashes
    /\ crashes' = crashes + 1
    /\ memory' = persisted
    /\ phase' = "deciding"
    /\ UNCHANGED <<policy, now, persisted, spawned, exhausted>>

\* The controller sleeps until next(), or something else takes its time.
Tick ==
    /\ now < MaxTime \/ now = MaxU - 1
    /\ now' = now + 1
    /\ UNCHANGED <<policy, persisted, memory, phase, spawned, exhausted, crashes>>

Next == Decide \/ Persist \/ Crash \/ Tick \/ \E permanent \in BOOLEAN : Spawn(permanent)

Spec == Init /\ [][Next]_vars

\* "cancellation and controller crashes must not restore the spent attempt":
\* over all crashes no more candidates are spawned than the limit, none after a
\* permanent failure, and a persisted attempt is spawned at most once; nor does
\* a reservation put the next attempt off for longer than the maximum delay.
BudgetIsKept ==
    /\ spawned <= policy.limit
    /\ spawned + (IF phase = "persisted" THEN 1 ELSE 0) <= persisted.attempts
    /\ exhausted => NextTime(persisted, policy) = {} /\ NextTime(memory, policy) = {}
    /\ memory.next_attempt <= Saturated(now + policy.maximum_delay)
=============================================================================

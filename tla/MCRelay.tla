------------------------------ MODULE MCRelay ------------------------------
(* The parts of a relay session: the outstanding requests, the replaceable   *)
(* writer, the pumps and the observed streams share no state, so a behaviour *)
(* follows one of them and leaves the others at rest.  Two keys, so that one *)
(* is reused while the other is outstanding, and fewer places than requests; *)
(* two replacements, and windows on both sides of each.                      *)
EXTENDS Outstanding

CONSTANTS MaxWindows, MaxReplaced, Bootstraps, MaxOffset, MaxBytes, MaxInterrupts,
    Blocking, Polled, EventCapacity, MaxEvents

ASSUME RelayConstants ==
    /\ MaxReplaced \in Nat /\ MaxOffset \in Nat /\ Bootstraps \subseteq 0..MaxOffset
    /\ MaxBytes \in Nat
    /\ IsFiniteSet(Blocking) /\ IsFiniteSet(Polled) /\ EventCapacity \in Nat

VARIABLES
    part,
    slot, locked, upstream, woken, failed_on, window, coordinator, offset,
    wire, half_closed, observed, cleared,
    way, given, left, held, flushed, interrupts, told, lost, result,
    stream, under, read_closed, connections, pending, errors, last_progress, events,
    lost_events, consumer, happened, taken, moved

Slot == INSTANCE WriterSlot
Copy == INSTANCE Pump
Observed == INSTANCE Observations

slot_vars == <<slot, locked, upstream, woken, failed_on, window, coordinator, offset,
               wire, half_closed, observed, cleared>>
pump_vars == <<way, given, left, held, flushed, interrupts, told, lost, result>>
observation_vars == <<stream, under, read_closed, connections, pending, errors, last_progress,
                      events, lost_events, consumer, happened, taken, moved>>

RelayInit ==
    /\ part \in {"outstanding", "slot", "pump", "observed"}
    /\ Init /\ Slot!Init /\ Copy!Init /\ Observed!Init
    /\ part # "pump" => way = "up" /\ given = 0

RelayNext ==
    /\ UNCHANGED part
    /\ \/ part = "outstanding" /\ Next /\ UNCHANGED <<slot_vars, pump_vars, observation_vars>>
       \/ part = "slot" /\ Slot!Next /\ UNCHANGED <<vars, pump_vars, observation_vars>>
       \/ part = "pump" /\ Copy!Next /\ UNCHANGED <<vars, slot_vars, observation_vars>>
       \/ part = "observed" /\ Observed!Next /\ UNCHANGED <<vars, slot_vars, pump_vars>>

RelaySpec ==
    /\ RelayInit /\ [][RelayNext]_<<part, vars, slot_vars, pump_vars, observation_vars>>
    /\ \A w \in Waiters : WF_vars(part = "outstanding" /\ WokenLooks(w))
    /\ WF_slot_vars(part = "slot" /\ Slot!WokenLooks)
    /\ WF_slot_vars(part = "slot" /\ Slot!WriteEnds)
    /\ WF_slot_vars(part = "slot" /\ Slot!CoordinatorGoesOn)

\* The set holds what the client is owed, and says it is settled only when that
\* is nothing (Outstanding::begin, settle, is_settled).
OutstandingIsExact == TracksExactly /\ SettledMeansAnswered

\* Every window goes out once, nothing passes a pause, every connection learns
\* that its requests ended and the pumps drop nothing (WriterSlot::write_observed,
\* try_pause, replace_paused, shutdown, pump_upstream, pump_downstream).
BytesArriveOnce ==
    Slot!WindowsOnce /\ Slot!PauseHolds /\ Slot!EndIsSignalled /\ Copy!NothingTruncated

\* Operations, connections and events are each counted once (Observations).
CountersAddUp == Observed!CountersAddUp

\* Whoever waits for a settled session or for a replaced writer is released
\* (Outstanding::wait_settled, WriterSlot::replace_paused, resume, close).
WaitersAreReleased == WaitersReturn /\ Slot!WriterReleased
=============================================================================

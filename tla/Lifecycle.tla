------------------------------ MODULE Lifecycle ------------------------------
(***************************************************************************)
(* The request admission gate of a daemon (src/lifecycle.rs).              *)
(*                                                                         *)
(* Every critical section of the state mutex is one step, because nothing  *)
(* in the crate runs while it is held.  The `watch` channel that wakes the *)
(* waiting futures carries no value, so it is a version number: sending    *)
(* increments it, and a receiver remembers the version it has seen.  Each  *)
(* waiting future is a small program whose steps interleave with all the   *)
(* others: subscribe, borrow_and_update, look at the state, await changed. *)
(***************************************************************************)
EXTENDS Naturals, FiniteSets

CONSTANTS
    Requests,       \* sessions that ask for a guard, one operation at a time
    Observers,      \* futures of draining()
    Selectors,      \* futures of unless_draining(operation)
    Drainers,       \* futures of drain()
    TimedDrainers   \* futures of drain_until(deadline)

Waiters == Observers \union Selectors \union Drainers \union TimedDrainers

\* The futures that return when admission closes, not when the guards are gone.
Closers == Observers \union Selectors

ASSUME RequestsFinite == IsFiniteSet(Requests)
ASSUME WaitersDisjoint ==
    /\ Observers \intersect (Selectors \union Drainers \union TimedDrainers) = {}
    /\ Selectors \intersect (Drainers \union TimedDrainers) = {}
    /\ Drainers \intersect TimedDrainers = {}

VARIABLES
    draining,   \* State.draining
    active,     \* State.active
    guards,     \* the requests whose RequestGuard is alive
    version,    \* version of the `changes` channel
    seen,       \* per waiter: the version its receiver has marked as seen
    pc,         \* per waiter: where its future is
    result,     \* per waiter: what its future returned
    left,       \* per waiter: the count a DrainOutcome::TimedOut carries
    recorded    \* how often each event was handed to Observations::record

vars == <<draining, active, guards, version, seen, pc, result, left, recorded>>

Locations == {"idle", "start", "subscribe", "update", "check", "wait",
              "operation", "late", "report", "done"}
Results == {"None", "Closed", "Value", "Complete", "TimedOut"}
Events == {"DrainStarted", "DrainCompleted", "DrainTimedOut"}

TypeOK ==
    /\ draining \in BOOLEAN
    /\ active \in Nat
    /\ guards \subseteq Requests
    /\ version \in Nat
    /\ seen \in [Waiters -> Nat]
    /\ pc \in [Waiters -> Locations]
    /\ result \in [Waiters -> Results]
    /\ left \in [Waiters -> Nat]
    /\ recorded \in [Events -> Nat]

Init ==
    /\ draining = FALSE
    /\ active = 0
    /\ guards = {}
    /\ version = 0
    /\ seen = [w \in Waiters |-> 0]
    /\ pc = [w \in Waiters |-> "idle"]
    /\ result = [w \in Waiters |-> "None"]
    /\ left = [w \in Waiters |-> 0]
    /\ recorded = [e \in Events |-> 0]

-----------------------------------------------------------------------------
(* Admission.                                                              *)

\* Fault: begin() does not look at draining.
BeginAlways(r) ==
    /\ r \notin guards
    /\ active' = active + 1
    /\ guards' = guards \union {r}
    /\ UNCHANGED <<draining, version, seen, pc, result, left, recorded>>

\* begin(): refused once draining; otherwise the caller owns a guard.
Begin(r) ==
    /\ r \notin guards
    /\ ~draining
    /\ active' = active + 1
    /\ guards' = guards \union {r}
    /\ UNCHANGED <<draining, version, seen, pc, result, left, recorded>>

\* Fault: the last guard completes the drain but wakes nobody.
DropSilently(r) ==
    /\ r \in guards
    /\ guards' = guards \ {r}
    /\ active' = active - 1
    /\ recorded' = IF draining /\ active' = 0
                     THEN [recorded EXCEPT !["DrainCompleted"] = @ + 1]
                     ELSE recorded
    /\ UNCHANGED <<draining, version, seen, pc, result, left>>

\* RequestGuard::drop.
Drop(r) ==
    /\ r \in guards
    /\ guards' = guards \ {r}
    /\ active' = active - 1
    /\ IF draining /\ active' = 0
         THEN /\ recorded' = [recorded EXCEPT !["DrainCompleted"] = @ + 1]
              /\ version' = version + 1
         ELSE UNCHANGED <<recorded, version>>
    /\ UNCHANGED <<draining, seen, pc, result, left>>

\* Fault: admission closes without waking the observers.
CloseSilently ==
    IF draining
      THEN UNCHANGED <<draining, recorded, version>>
      ELSE /\ draining' = TRUE
           /\ recorded' = [recorded EXCEPT
                 !["DrainStarted"] = @ + 1,
                 !["DrainCompleted"] = IF active = 0 THEN @ + 1 ELSE @]
           /\ UNCHANGED version

\* The body of start_drain(): only the first call does anything.
CloseAdmission ==
    IF draining
      THEN UNCHANGED <<draining, recorded, version>>
      ELSE /\ draining' = TRUE
           /\ recorded' = [recorded EXCEPT
                 !["DrainStarted"] = @ + 1,
                 !["DrainCompleted"] = IF active = 0 THEN @ + 1 ELSE @]
           /\ version' = version + 1

\* start_drain() from a caller that does not wait, such as the control service.
StartDrain ==
    /\ ~draining
    /\ CloseAdmission
    /\ UNCHANGED <<active, guards, seen, pc, result, left>>

-----------------------------------------------------------------------------
(* The waiting futures.                                                    *)

Goto(w, where) == pc' = [pc EXCEPT ![w] = where]

Return(w, value) ==
    /\ Goto(w, "done")
    /\ result' = [result EXCEPT ![w] = value]

Call(w) ==
    /\ pc[w] = "idle"
    /\ Goto(w, IF w \in Closers THEN "subscribe" ELSE "start")
    /\ UNCHANGED <<draining, active, guards, version, seen, result, left, recorded>>

\* drain() calls start_drain() before it subscribes.
Start(w) ==
    /\ pc[w] = "start"
    /\ CloseAdmission
    /\ Goto(w, "subscribe")
    /\ UNCHANGED <<active, guards, seen, result, left>>

\* changes.subscribe(), changes.borrow_and_update(): both mark the current
\* version as seen.
MarkSeen(w, from, to) ==
    /\ pc[w] = from
    /\ seen' = [seen EXCEPT ![w] = version]
    /\ Goto(w, to)
    /\ UNCHANGED <<draining, active, guards, version, result, left, recorded>>

Subscribe(w) == MarkSeen(w, "subscribe", "update")

BorrowAndUpdate(w) == MarkSeen(w, "update", "check")

\* What a waiter waits for, as the state mutex shows it.
Ready(w) == IF w \in Closers THEN draining ELSE active = 0

\* Fault: drain() returns as soon as admission is closed.
CheckOnlyClosed(w) ==
    /\ pc[w] = "check"
    /\ IF draining
         THEN Return(w, IF w \in Closers THEN "Closed" ELSE "Complete")
         ELSE Goto(w, "wait") /\ UNCHANGED result
    /\ UNCHANGED <<draining, active, guards, version, seen, left, recorded>>

\* The locked look at the state that ends the wait or leads to changed().
Check(w) ==
    /\ pc[w] = "check"
    /\ IF Ready(w)
         THEN Return(w, IF w \in Closers THEN "Closed" ELSE "Complete")
         ELSE Goto(w, "wait") /\ UNCHANGED result
    /\ UNCHANGED <<draining, active, guards, version, seen, left, recorded>>

\* changed() completes, which marks the version as seen.
Changed(w) ==
    /\ version # seen[w]
    /\ MarkSeen(w, "wait", "update")

\* The biased select polls draining() first: only if that is still pending is
\* the operation polled, and the lock is free in between.
PollOperation(w) ==
    /\ w \in Selectors
    /\ pc[w] = "wait"
    /\ version = seen[w]
    /\ Goto(w, "operation")
    /\ UNCHANGED <<draining, active, guards, version, seen, result, left, recorded>>

Operation(w) ==
    /\ pc[w] = "operation"
    /\ \/ Return(w, "Value")
       \/ Goto(w, "wait") /\ UNCHANGED result
    /\ UNCHANGED <<draining, active, guards, version, seen, left, recorded>>

\* timeout_at polls drain() before its deadline, so it can only expire while
\* drain() awaits changed().
Expire(w) ==
    /\ w \in TimedDrainers
    /\ pc[w] = "wait"
    /\ Goto(w, "late")
    /\ UNCHANGED <<draining, active, guards, version, seen, result, left, recorded>>

\* drain_until() looks again after its deadline: late success still counts.
LookAgain(w) ==
    /\ pc[w] = "late"
    /\ IF active = 0
         THEN Return(w, "Complete") /\ UNCHANGED left
         ELSE /\ Goto(w, "report")
              /\ left' = [left EXCEPT ![w] = active]
              /\ UNCHANGED result
    /\ UNCHANGED <<draining, active, guards, version, seen, recorded>>

\* DrainTimedOut is recorded after the mutex is released.
ReportTimeout(w) ==
    /\ pc[w] = "report"
    /\ recorded' = [recorded EXCEPT !["DrainTimedOut"] = @ + 1]
    /\ Return(w, "TimedOut")
    /\ UNCHANGED <<draining, active, guards, version, seen, left>>

\* The steps an executor takes for a future that has been called.
Poll(w) ==
    \/ Start(w)
    \/ Subscribe(w)
    \/ BorrowAndUpdate(w)
    \/ Check(w)
    \/ Changed(w)
    \/ PollOperation(w)
    \/ Operation(w)
    \/ LookAgain(w)
    \/ ReportTimeout(w)

Next ==
    \/ \E r \in Requests : Begin(r) \/ Drop(r)
    \/ StartDrain
    \/ \E w \in Waiters : Call(w) \/ Poll(w) \/ Expire(w)

Spec == Init /\ [][Next]_vars

\* An executor eventually polls every future that can make progress.  Nothing
\* is assumed of the requests (a handler may keep its guard forever), of the
\* callers, or of the deadline.
FairSpec == Spec /\ \A w \in Waiters : WF_vars(Poll(w))

-----------------------------------------------------------------------------
(* Properties.                                                             *)

\* The count that start_drain() and the last drop decide by is the number of
\* guards alive: no interleaving of begin() and drop leaks or loses one.
ActiveCountsGuards == active = Cardinality(guards)

\* Observers of the event stream can pair a drain's start with its end:
\* DrainStarted is recorded once, when admission closes, and DrainCompleted
\* once, when admission is closed and the last guard is gone, whichever of
\* start_drain() and RequestGuard::drop comes last.
DrainRecordedOnce ==
    /\ recorded["DrainStarted"] = IF draining THEN 1 ELSE 0
    /\ recorded["DrainCompleted"] = IF draining /\ guards = {} THEN 1 ELSE 0

\* What a future returned stays true for as long as the daemon runs: a closed
\* gate stays closed, a completed drain is never followed by admitted work,
\* and the work reported by DrainOutcome::TimedOut can only shrink.
ResultsStayTrue ==
    \A w \in Waiters :
        /\ result[w] = "Closed" => draining
        /\ result[w] = "Complete" => draining /\ guards = {}
        /\ result[w] = "TimedOut" => draining /\ left[w] > 0 /\ active <= left[w]

\* No lost wakeup: a future that awaits changed() with nothing new to see is
\* waiting for something that has not happened yet.  This is what subscribing
\* before reading the state, and sending under the mutex, are for.
NoLostWakeup ==
    \A w \in Waiters :
        pc[w] \in {"wait", "operation"} /\ seen[w] = version => ~Ready(w)

\* draining() and unless_draining() return once admission has closed, also
\* when it closed before or during the call.
ClosingReachesEveryone ==
    \A w \in Closers :
        (draining /\ pc[w] # "idle") ~> pc[w] = "done"

\* drain() and drain_until() return once admission is closed and every guard
\* has been dropped.
DrainReturns ==
    \A w \in Waiters :
        (draining /\ guards = {} /\ pc[w] # "idle") ~> pc[w] = "done"

\* Whoever waits is woken and returns: once admission has closed, and once the
\* last guard is gone (draining, unless_draining, drain, drain_until).
WaitsEnd == ClosingReachesEveryone /\ DrainReturns

\* The lifecycle is a one-way admission gate.
Gate == INSTANCE DrainGate WITH
    Callers <- Drainers \union TimedDrainers,
    open <- ~draining,
    inside <- guards,
    told <- {w \in Drainers \union TimedDrainers : result[w] = "Complete"}

\* Seen from outside (who was admitted, who was told that the drain is over),
\* every step of begin(), drop, start_drain() and the waiting futures is a
\* step of the gate or changes nothing.
ImplementsGate == Gate!Spec
=============================================================================

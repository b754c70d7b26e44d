--------------------------- MODULE EnsureCurrent ---------------------------
(***************************************************************************)
(* ensure_current of src/upgrade.rs: callers that want an acceptable       *)
(* daemon share a persistent upgrade lock (ProcessLock::acquire_async of   *)
(* src/ownership.rs), probe, and replace the daemon at most once each.     *)
(*                                                                         *)
(* The deadline may pass at any await; it drops the future, which releases *)
(* the lock but does not undo a replacement that is under way.             *)
(*                                                                         *)
(* External: the daemon, which may crash; probe(), which may fail; and     *)
(* replace(), which starts an acceptable daemon before it returns, or      *)
(* fails.                                                                  *)
(***************************************************************************)
EXTENDS Integers

CONSTANTS
    Callers,
    MaxCrashes      \* bound: crashes of the daemon

Nobody == "nobody"

VARIABLES
    daemon,         \* "none", "old", or "new": the acceptable one
    upgrade_lock,
    at,             \* where each caller is
    starting,       \* callers whose replacement has been started
    begun,          \* replacements begun
    upsets          \* crashes, and replacements whose caller did not see them through

vars == <<daemon, upgrade_lock, at, starting, begun, upsets>>

Init ==
    /\ daemon \in {"none", "old", "new"}
    /\ upgrade_lock = Nobody
    /\ at = [c \in Callers |-> "calling"]
    /\ starting = {}
    /\ begun = 0
    /\ upsets = 0

Done == {"ok", "failed", "deadline"}
Replacing == {"replacing", "started", "waiting"}
Go(c, to) == at' = [at EXCEPT ![c] = to]

\* The future ends: its guard, if it has one, releases the lock.
End(c, result) ==
    /\ Go(c, result)
    /\ upgrade_lock' = IF upgrade_lock = c THEN Nobody ELSE upgrade_lock

\* The future ends without a daemon; a replacement it has begun counts as an
\* upset.
GiveUp(c, result) ==
    /\ End(c, result)
    /\ upsets' = IF at[c] \in Replacing THEN upsets + 1 ELSE upsets
    /\ UNCHANGED <<daemon, starting, begun>>

\* probe().await and accepts(): Ok, or on to `next`.
ProbeThen(c, next) ==
    IF daemon = "new" THEN End(c, "ok") ELSE Go(c, next) /\ UNCHANGED upgrade_lock

FirstProbe(c) ==
    /\ at[c] = "calling"
    /\ ProbeThen(c, "locking")
    /\ UNCHANGED <<daemon, starting, begun, upsets>>

\* acquire_async polls until the lock is free.
Acquire(c) ==
    /\ at[c] = "locking" /\ upgrade_lock = Nobody
    /\ upgrade_lock' = c
    /\ Go(c, "probing")
    /\ UNCHANGED <<daemon, starting, begun, upsets>>

\* The lock file cannot be opened or locked.
LockFails(c) == at[c] = "locking" /\ GiveUp(c, "failed")

\* Fault: the lock's new holder trusts what it found before it waited.
SecondProbeSkipped(c) ==
    /\ at[c] = "probing"
    /\ Go(c, "replacing") /\ UNCHANGED upgrade_lock
    /\ begun' = begun + 1
    /\ UNCHANGED <<daemon, starting, upsets>>

\* The probe under the lock, and the call of replace().
SecondProbe(c) ==
    /\ at[c] = "probing"
    /\ ProbeThen(c, "replacing")
    /\ begun' = IF daemon = "new" THEN begun ELSE begun + 1
    /\ UNCHANGED <<daemon, starting, upsets>>

\* replace() has started the new daemon, which will come up by itself.
Started(c) ==
    /\ at[c] = "replacing"
    /\ Go(c, "started")
    /\ starting' = starting \union {c}
    /\ UNCHANGED <<daemon, upgrade_lock, begun, upsets>>

ComesUp(c) ==
    /\ c \in starting
    /\ starting' = starting \ {c}
    /\ daemon' = "new"
    /\ UNCHANGED <<upgrade_lock, at, begun, upsets>>

\* replace() returns after the start, or fails without one.
Replaced(c) ==
    /\ at[c] = "started"
    /\ Go(c, "waiting")
    /\ UNCHANGED <<daemon, upgrade_lock, starting, begun, upsets>>

ReplaceFails(c) == at[c] = "replacing" /\ GiveUp(c, "failed")

\* The last loop: probe every 25 ms until the daemon is acceptable.
LastProbe(c) ==
    /\ at[c] = "waiting" /\ daemon = "new"
    /\ End(c, "ok")
    /\ UNCHANGED <<daemon, starting, begun, upsets>>

\* Any of the three probes fails; after replace() too, the lock is released.
ProbeFails(c) == at[c] \in {"calling", "probing", "waiting"} /\ GiveUp(c, "failed")

\* Fault: the guard is leaked when the deadline passes.
DeadlineLeaks(c) ==
    /\ at[c] \notin Done
    /\ Go(c, "deadline") /\ UNCHANGED upgrade_lock
    /\ upsets' = IF at[c] \in Replacing THEN upsets + 1 ELSE upsets
    /\ UNCHANGED <<daemon, starting, begun>>

\* The deadline has passed at the call, or timeout_at drops the future, wherever
\* it is.
Deadline(c) == at[c] \notin Done /\ GiveUp(c, "deadline")

DaemonCrashes ==
    /\ daemon # "none" /\ upsets < MaxCrashes
    /\ daemon' = "none"
    /\ upsets' = upsets + 1
    /\ UNCHANGED <<upgrade_lock, at, starting, begun>>

Next ==
    \/ \E c \in Callers :
          \/ FirstProbe(c) \/ Acquire(c) \/ LockFails(c) \/ SecondProbe(c) \/ Started(c)
          \/ ComesUp(c) \/ Replaced(c) \/ ReplaceFails(c) \/ LastProbe(c) \/ ProbeFails(c)
          \/ Deadline(c)
    \/ DaemonCrashes

Spec == Init /\ [][Next]_vars

-----------------------------------------------------------------------------
(* Properties.                                                             *)

\* "concurrent upgraders can reuse the winner's replacement": as long as no
\* daemon crashes and whoever begins a replacement sees it through (replace()
\* and every probe after it succeed before the deadline), the daemon is replaced
\* once however many callers want it, whatever the others' probes, locks and
\* deadlines do; and two callers never replace at the same time.
OneReplacement ==
    /\ upsets = 0 => begun <= 1
    /\ \A c, d \in Callers : at[c] \in Replacing /\ at[d] \in Replacing => c = d

\* ensure_current always returns, and when everybody has, the lock is free.
EveryCallReturns == <>(upgrade_lock = Nobody /\ \A c \in Callers : at[c] \in Done)
=============================================================================

------------------------------- MODULE Warmup -------------------------------
(* Running a fresh executable once before it is needed (warmup.rs): a thread *)
(* spawns and reaps the child and reports how it ended; the caller waits for *)
(* the report no longer than its deadline.  Linux refuses to execute a file  *)
(* that is open for writing (ETXTBSY), and the thread tries again.           *)
EXTENDS Integers

CONSTANTS
    Deadlines,   \* the caller's possible deadlines
    Runaway,     \* RUNAWAY_LIMIT
    Longest      \* bound: the clock, past every limit

VARIABLES
    deadline,
    now,
    busy,       \* the file is open for writing somewhere
    warm,       \* the child: "none", "running", "succeeded", "failed", "killed"
    born,       \* when it was spawned
    reaped,     \* it has been waited for
    thread,     \* where the reaper thread is
    limit,      \* its current limit
    report,     \* what it sent: "none" or a result
    caller      \* what warm_spawn_until returned, or "waiting"

wvars == <<deadline, now, busy, warm, born, reaped, thread, limit, report, caller>>

Later(a, b) == IF a > b THEN a ELSE b

Init ==
    /\ deadline \in Deadlines /\ now = 0
    /\ busy \in BOOLEAN /\ warm = "none" /\ born = 0 /\ reaped = FALSE
    /\ thread = "start" /\ limit = 0 /\ report = "none" /\ caller = "waiting"

-----------------------------------------------------------------------------

NobodyActs == UNCHANGED <<deadline, thread, limit, report, caller, born, reaped>>

WriterCloses == busy /\ busy' = FALSE /\ UNCHANGED <<now, warm>> /\ NobodyActs

ChildEnds ==
    /\ warm = "running" /\ warm' \in {"succeeded", "failed"}
    /\ UNCHANGED <<now, busy>> /\ NobodyActs

\* Bound: the thread sets its limits without delay, so Longest is past them.
Tick ==
    /\ now < Longest /\ thread \notin {"start", "spawned"}
    /\ thread = "spawn" => now < limit
    /\ now' = now + 1
    /\ UNCHANGED <<busy, warm>> /\ NobodyActs

-----------------------------------------------------------------------------
(* The reaper thread.                                                        *)

Apart == UNCHANGED <<deadline, now, busy, caller>>

Report(what) == report' = what /\ thread' = "done"

\* start: a busy file may be retried as long as the child could run.
Start ==
    /\ thread = "start" /\ thread' = "spawn"
    /\ limit' = Later(deadline, now + Runaway)
    /\ UNCHANGED <<warm, born, reaped, report>> /\ Apart

\* spawn_when_free: ETXTBSY is retried until the limit, any other error is not.
SpawnWhenFree ==
    /\ thread = "spawn"
    /\ \/ /\ ~busy /\ warm' = "running" /\ born' = now
          /\ thread' = "spawned" /\ UNCHANGED report
       \/ busy /\ now >= limit /\ Report("busy") /\ UNCHANGED <<warm, born>>
    /\ UNCHANGED <<reaped, limit>> /\ Apart

SpawnFails ==
    /\ thread = "spawn" /\ Report("error")
    /\ UNCHANGED <<warm, born, reaped, limit>> /\ Apart

\* The child's own limit runs from its spawn.
LimitOf == Later(deadline, now + Runaway)

Spawned ==
    /\ thread = "spawned" /\ thread' = "exits" /\ limit' = LimitOf
    /\ UNCHANGED <<warm, born, reaped, report>> /\ Apart

\* reap: the child's end, or its end by force.
Reap ==
    /\ thread = "exits"
    /\ \/ /\ warm # "running"
          /\ reaped' = TRUE /\ Report(warm) /\ UNCHANGED warm
       \/ /\ warm = "running" /\ now >= limit
          /\ warm' = "killed" /\ thread' = "kill" /\ UNCHANGED <<report, reaped>>
    /\ UNCHANGED <<born, limit>> /\ Apart

\* A child whose exit cannot be observed is killed too.
Unseen ==
    /\ thread = "exits" /\ thread' = "unseen"
    /\ warm' = (IF warm = "running" THEN "killed" ELSE warm)
    /\ UNCHANGED <<born, reaped, limit, report>> /\ Apart

\* The killed child is waited for before the error is reported.
Killed ==
    /\ thread \in {"kill", "unseen"}
    /\ reaped' = TRUE
    /\ Report(IF thread = "kill" THEN "runaway" ELSE "error")
    /\ UNCHANGED <<warm, born, limit>> /\ Apart

-----------------------------------------------------------------------------
(* The caller.                                                               *)

\* warm_spawn_until: the report, or the deadline.
WarmSpawnUntil ==
    /\ caller = "waiting"
    /\ \/ report # "none" /\ caller' = report
       \/ report = "none" /\ now >= deadline /\ caller' = "TimedOut"
    /\ UNCHANGED <<deadline, now, busy, warm, born, reaped, thread, limit, report>>

Reaping == Start \/ SpawnWhenFree \/ Spawned \/ Reap \/ Killed

Faults == SpawnFails \/ Unseen

Next == WriterCloses \/ ChildEnds \/ Tick \/ Reaping \/ Faults \/ WarmSpawnUntil

-----------------------------------------------------------------------------

\* Success is told only of a child that succeeded; a child stopped as a
\* runaway was given the whole of its time, and the caller all of its own
\* (warm_spawn_until, start, reap).
WarmupIsTrue ==
    /\ caller = "succeeded" => warm = "succeeded"
    /\ caller = "TimedOut" => now >= deadline
    /\ report # "none" => (warm = "none" \/ reaped)
    /\ thread = "kill" => now >= deadline /\ now >= born + Runaway

\* Whatever the caller does, the child ends and is reaped (reap).
ChildIsReaped == <>(thread = "done" /\ warm # "running")
=============================================================================

----------------------------- MODULE MCEndpoint -----------------------------
(* The daemon at an endpoint: who owns the endpoint and its record, who      *)
(* replaces the daemon, and how its start and its exit are known.  The parts *)
(* share no state, so a behaviour follows one of them and leaves the others  *)
(* at rest.  Three processes race for a socket; two publishers, a reader and *)
(* a crash meet at a record; three callers want one upgrade; two wait for a  *)
(* lock file; a launcher starts a daemon that another may have started.      *)
EXTENDS ProcessLock

CONSTANTS
    Binders, Inodes, ReuseInodes, Retries,
    Publishers, Readers, DeniedRetries, MaxOps, MaxLosses,
    Callers, MaxCrashes, MaxU, Bits, MaxTime,
    MaxCalls, Limit, Interval, Deadlines, Runaway, Longest

Policies == {[limit |-> 2, delay |-> 1, maximum_delay |-> 3],
             [limit |-> 3, delay |-> 2, maximum_delay |-> 20]}

VARIABLES
    part,
    file, bind_lock, place, listens, bound, captured, used,
    pipe, call, retries_used,
    windows, record, renaming, disk, promised, slot_lock, op, step, seen, leftover,
    reader, ops, losses,
    daemon, upgrade_lock, at, starting, begun, upsets,
    policy, now, persisted, memory, phase, spawned, exhausted, crashes,
    platform, process, reused, queued, source, wait, past, callback, context, notified,
    answer, told, calls,
    os, how, child, serving, since, launch, clock, until, proof, result,
    deadline, time, busy, warm, born, reaped, thread, limit, report, caller

Socket == INSTANCE UnixSocket
Pipe == INSTANCE PipeListener
Slot == INSTANCE RecordSlot
Upgrade == INSTANCE EnsureCurrent
Budget == INSTANCE Retry
Exits == INSTANCE ProcessExit WITH call <- wait
Start == INSTANCE Launch WITH spawned <- child
Warm == INSTANCE Warmup WITH now <- time

socket_vars == <<file, bind_lock, place, listens, bound, captured, used>>
pipe_vars == <<pipe, call, retries_used>>
slot_vars == <<windows, record, renaming, disk, promised, slot_lock, op, step, seen,
               leftover, reader, ops, losses>>
upgrade_vars == <<daemon, upgrade_lock, at, starting, begun, upsets>>
budget_vars == <<policy, now, persisted, memory, phase, spawned, exhausted, crashes>>
exit_vars == <<platform, process, reused, queued, source, wait, past, callback, context,
               notified, answer, told, calls>>
start_vars == <<os, how, child, serving, since, launch, clock, until, proof, result>>
warmup_vars == <<deadline, time, busy, warm, born, reaped, thread, limit, report, caller>>
own_vars == <<socket_vars, pipe_vars, slot_vars, upgrade_vars, budget_vars>>
run_vars == <<kvars, exit_vars, start_vars, warmup_vars>>
vars == <<part, own_vars, run_vars>>

Init ==
    /\ part \in {"socket", "pipe", "slot", "upgrade", "budget", "lock", "exit", "start", "warmup"}
    /\ Socket!Init /\ (part # "socket" => file = Socket!Absent)
    /\ Pipe!Init /\ (part # "pipe" => pipe = "free")
    /\ Slot!Init /\ (part # "slot" => ~windows)
    /\ Upgrade!Init /\ (part # "upgrade" => daemon = "none")
    /\ Budget!Init /\ (part # "budget" => now = 0 /\ policy.limit = 2)
    /\ LockInit /\ (part # "lock" => system = "unix" /\ entry = "own")
    /\ Exits!Init /\ (part # "exit" => platform = "pidfd" /\ process = "running")
    /\ Start!Init /\ (part # "start" => os = "unix" /\ how = "followed" /\ serving = "nobody")
    /\ Warm!Init /\ (part # "warmup" => deadline = 1 /\ ~busy)

Next ==
    /\ UNCHANGED part
    /\ \/ /\ part = "socket" /\ Socket!Next
          /\ UNCHANGED <<pipe_vars, slot_vars, upgrade_vars, budget_vars, run_vars>>
       \/ /\ part = "pipe" /\ Pipe!Next
          /\ UNCHANGED <<socket_vars, slot_vars, upgrade_vars, budget_vars, run_vars>>
       \/ /\ part = "slot" /\ Slot!Next
          /\ UNCHANGED <<socket_vars, pipe_vars, upgrade_vars, budget_vars, run_vars>>
       \/ /\ part = "upgrade" /\ Upgrade!Next
          /\ UNCHANGED <<socket_vars, pipe_vars, slot_vars, budget_vars, run_vars>>
       \/ /\ part = "budget" /\ Budget!Next
          /\ UNCHANGED <<socket_vars, pipe_vars, slot_vars, upgrade_vars, run_vars>>
       \/ /\ part = "lock" /\ LockNext
          /\ UNCHANGED <<own_vars, exit_vars, start_vars, warmup_vars>>
       \/ /\ part = "exit" /\ Exits!Next
          /\ UNCHANGED <<own_vars, kvars, start_vars, warmup_vars>>
       \/ /\ part = "start" /\ Start!Next
          /\ UNCHANGED <<own_vars, kvars, exit_vars, warmup_vars>>
       \/ /\ part = "warmup" /\ Warm!Next
          /\ UNCHANGED <<own_vars, kvars, exit_vars, start_vars>>

\* A deadline passes, time does, and a process that may go on does; a wait for
\* an exit and the system's callback run, and so do a launch and the thread of a
\* warm-up.
Spec ==
    /\ Init /\ [][Next]_vars
    /\ \A c \in Callers : WF_upgrade_vars(part = "upgrade" /\ Upgrade!Deadline(c))
    /\ WF_kvars(part = "lock" /\ Tick)
    /\ \A p \in Processes : WF_kvars(part = "lock" /\ Proceed(p))
    /\ WF_exit_vars(part = "exit" /\ Exits!Task)
    /\ WF_exit_vars(part = "exit" /\ Exits!CallbackStarts)
    /\ WF_exit_vars(part = "exit" /\ Exits!CallbackSignals)
    /\ WF_start_vars(part = "start" /\ Start!Launching)
    /\ WF_start_vars(part = "start" /\ Start!Tick)
    /\ WF_warmup_vars(part = "warmup" /\ Warm!Reaping)
    /\ WF_warmup_vars(part = "warmup" /\ Warm!Tick)

\* No process, caller or publisher has a name that stands for something else.
ASSUME NamesAreDistinguished ==
    /\ Socket!Nobody \notin Binders /\ Upgrade!Nobody \notin Callers
    /\ Slot!Torn \notin Publishers

\* Limits and deadlines are times, and a limit is within u64.
ASSUME NumbersAreNatural ==
    /\ Retries \in Nat
    /\ Limit \in Nat /\ Interval \in Nat \ {0} /\ Deadlines \subseteq Nat /\ Runaway \in Nat
    /\ MaxU \in Nat \ {0} /\ Bits \in Nat \ {0}
    /\ \A pol \in Policies :
          pol.limit \in 0..MaxU /\ pol.delay \in Nat /\ pol.maximum_delay \in Nat

\* A live owner's endpoint is never unlinked (unix_socket::acquire, SocketGuard).
EndpointStays == Socket!EndpointStays

\* A process stands down only for another one and not all of them do, and a denial
\* becomes an answer only after the pauses (unix_socket::acquire,
\* windows_socket::bind).
StandDownIsJustified == [][Socket!StandDownIsJustified /\ Pipe!DenialIsWeighed]_vars

\* Records are whole, durable ones stay, one reported missing was missing unless
\* replacements went by or looked old, and a conditional operation acts on what it
\* compared (publish_record_with, retry_open, RecordSlot::replace_if, repair,
\* remove_if).
RecordsAreTrue == Slot!RecordsAreWhole /\ Slot!ActsOnWhatItRead /\ Slot!MissingIsReal

\* Concurrent callers share one replacement, and crashes do not restore spent
\* attempts (ensure_current, State::reserve).
ReplacesOnce == Upgrade!OneReplacement /\ Budget!BudgetIsKept

\* An exit is reported once it has happened and from then on by every call, and
\* no callback runs on a notification that is freed (ProcessHandle::wait_for,
\* exited, Registration::drop).
ExitsAreTrue == Exits!ExitsAreTrue /\ Exits!CallbackIsSafe

\* What a launch and a warm-up report is how they went: an exited daemon left
\* nobody serving, a timeout used its budget, a runaway had its time
\* (DaemonChild::wait_until_live, readiness::wait_until, warmup::reap).
StartsAreTrue == Start!StartupIsTrue /\ Warm!WarmupIsTrue

\* Every caller returns and the lock is free; a wait for a lock ends at its
\* deadline, whatever the holder does; the waits for an exit, for a daemon to
\* serve and for a warmed-up child end (ensure_current, lock_until, poll,
\* ProcessHandle::exited, DaemonChild::wait_until_live, warmup::reap).
EveryCallReturns ==
    /\ part = "upgrade" => Upgrade!EveryCallReturns
    /\ part = "lock" => LockCallsReturn
    /\ part = "exit" => Exits!ExitIsNoticed
    /\ part = "start" => Start!StartupEnds
    /\ part = "warmup" => Warm!ChildIsReaped
=============================================================================

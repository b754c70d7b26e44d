----------------------------- MODULE SpawnUnix -----------------------------
(* Spawning on Unix (local/unix.rs, spawn_lock.rs): threads of one process   *)
(* start daemons, each with a readiness pipe, or plain children.  SIGCHLD is *)
(* process-wide: the caller may have it ignored, so the kernel reaps its     *)
(* children, and a spawn makes it the default until the child's exit handle  *)
(* is open.  A child keeps every descriptor not marked close-on-exec.        *)
EXTENDS FiniteSets

CONSTANTS Threads

VARIABLES
    onestep,       \* the OS makes a pipe close-on-exec in one step (Linux)
    policy,        \* the caller's SIGCHLD: "ignore" or "default"
    disposition,   \* SIGCHLD now
    lock,          \* the threads that hold SPAWN
    at,            \* where each thread's spawn is
    kind,          \* what it starts: "daemon" or "plain"
    previous,      \* the disposition it found
    child,         \* its child: "none", "running", "zombie" or "reaped"
    reusedpid,     \* the child's PID names another process
    handle,        \* what its exit handle follows: "none", "child" or "other"
    leaky,         \* its pipe is open and not yet close-on-exec
    keeps,         \* who holds the write end of its pipe, by name
    panicked       \* a wait for a failed exec found the child gone

svars == <<onestep, policy, disposition, lock, at, kind, previous, child, reusedpid,
           handle, leaky, keeps, panicked>>

Init ==
    /\ onestep \in BOOLEAN /\ policy \in {"ignore", "default"}
    /\ disposition = policy /\ lock = {}
    /\ at = [t \in Threads |-> "idle"] /\ kind \in [Threads -> {"daemon", "plain"}]
    /\ previous = [t \in Threads |-> policy]
    /\ child = [t \in Threads |-> "none"] /\ reusedpid = [t \in Threads |-> FALSE]
    /\ handle = [t \in Threads |-> "none"]
    /\ leaky = [t \in Threads |-> FALSE] /\ keeps = [t \in Threads |-> {}]
    /\ panicked = FALSE

Go(t, there) == at' = [at EXCEPT ![t] = there]

Family == UNCHANGED <<onestep, policy, kind>>

-----------------------------------------------------------------------------
(* The spawn lock.                                                           *)

\* Fault: a spawn takes no lock.
SpawningUnlocked(t) == UNCHANGED lock

\* spawning: one thread at a time.
Spawning(t) == lock = {} /\ lock' = {t}

\* without_spawns: nothing is held where one step is enough.
WithoutSpawns(t) == IF onestep THEN UNCHANGED lock ELSE lock = {} /\ lock' = {t}

Release(t) == lock' = lock \ {t}

-----------------------------------------------------------------------------
(* The readiness pipe.                                                       *)

\* ready_pipe: the pipe is made; off Linux it is close-on-exec one step later.
ReadyPipe(t) ==
    /\ at[t] = "idle" /\ kind[t] = "daemon"
    /\ WithoutSpawns(t)
    /\ Go(t, IF onestep THEN "piped" ELSE "leaky")
    /\ leaky' = [leaky EXCEPT ![t] = ~onestep]
    /\ keeps' = [keeps EXCEPT ![t] = {"launcher"}]
    /\ UNCHANGED <<disposition, previous, child, reusedpid, handle, panicked>> /\ Family

Marked(t) ==
    /\ at[t] = "leaky"
    /\ leaky' = [leaky EXCEPT ![t] = FALSE] /\ Release(t) /\ Go(t, "piped")
    /\ UNCHANGED <<disposition, previous, child, reusedpid, handle, keeps, panicked>>
    /\ Family

\* The duplicate or the channel's reader cannot be made.
PipeFails(t) ==
    /\ at[t] = "piped"
    /\ keeps' = [keeps EXCEPT ![t] = {}] /\ Go(t, "done")
    /\ UNCHANGED <<disposition, lock, previous, child, reusedpid, handle, leaky, panicked>>
    /\ Family

-----------------------------------------------------------------------------
(* spawn_then.                                                               *)

\* SIGCHLD at its default, remembering what it was.
Default(t) ==
    /\ at[t] = (IF kind[t] = "daemon" THEN "piped" ELSE "idle")
    /\ Spawning(t)
    /\ previous' = [previous EXCEPT ![t] = disposition] /\ disposition' = "default"
    /\ Go(t, "spawn")
    /\ UNCHANGED <<child, reusedpid, handle, leaky, keeps, panicked>> /\ Family

\* in_new_session: a daemon keeps its own channel of all descriptors above
\* stderr; a plain child keeps what is inheritable.
Inherits(t) == IF kind[t] = "daemon" THEN {t} ELSE {u \in Threads : leaky[u]}

Fork(t) ==
    /\ at[t] = "spawn"
    /\ child' = [child EXCEPT ![t] = "running"]
    /\ keeps' = [u \in Threads |-> IF u \in Inherits(t) THEN keeps[u] \cup {t} ELSE keeps[u]]
    /\ Go(t, "forked")
    /\ UNCHANGED <<disposition, lock, previous, reusedpid, handle, leaky, panicked>>
    /\ Family

ForkFails(t) ==
    /\ at[t] = "spawn" /\ Go(t, "restore")
    /\ UNCHANGED <<disposition, lock, previous, child, reusedpid, handle, leaky, keeps, panicked>>
    /\ Family

\* The exec succeeds, or Command::spawn waits for the child that failed it,
\* and panics if the kernel has reaped it.
Exec(t) ==
    /\ at[t] = "forked" /\ Go(t, "spawned")
    /\ UNCHANGED <<disposition, lock, previous, child, reusedpid, handle, leaky, keeps, panicked>>
    /\ Family

ExecFails(t) ==
    /\ at[t] = "forked" /\ child[t] = "running"
    /\ child' = [child EXCEPT ![t] = "reaped"]
    /\ keeps' = [u \in Threads |-> keeps[u] \ {t}]
    /\ panicked' = (panicked \/ disposition = "ignore")
    /\ Go(t, "restore")
    /\ UNCHANGED <<disposition, lock, previous, reusedpid, handle, leaky>> /\ Family

\* watched: the exit handle of a daemon is opened on its PID, or the child is
\* killed and waited for.
Watched(t) ==
    /\ at[t] = "spawned" /\ Go(t, "restore")
    /\ \/ /\ kind[t] = "daemon"
          /\ handle' = [handle EXCEPT ![t] = IF reusedpid[t] THEN "other" ELSE "child"]
          /\ UNCHANGED <<child, keeps>>
       \/ /\ kind[t] = "daemon"
          /\ child' = [child EXCEPT ![t] = "reaped"]
          /\ keeps' = [u \in Threads |-> keeps[u] \ {t}]
          /\ UNCHANGED handle
       \/ kind[t] = "plain" /\ UNCHANGED <<child, keeps, handle>>
    /\ UNCHANGED <<disposition, lock, previous, reusedpid, leaky, panicked>> /\ Family

\* What was found is restored.
Restore(t) ==
    /\ at[t] = "restore" /\ disposition' = previous[t] /\ Go(t, "reap")
    /\ UNCHANGED <<lock, previous, child, reusedpid, handle, leaky, keeps, panicked>>
    /\ Family

\* reap_exited_children, where the kernel reaps the others.
ReapExitedChildren(t) ==
    child' = IF previous[t] = "ignore"
             THEN [u \in Threads |-> IF child[u] = "zombie" THEN "reaped" ELSE child[u]]
             ELSE child

\* The section ends, and the launcher's copy of the daemon's end is dropped.
Return(t) ==
    /\ at[t] = "reap" /\ ReapExitedChildren(t) /\ Release(t) /\ Go(t, "done")
    /\ keeps' = [keeps EXCEPT ![t] = @ \ {"launcher"}]
    /\ UNCHANGED <<disposition, previous, reusedpid, handle, leaky, panicked>> /\ Family

-----------------------------------------------------------------------------
(* The children.                                                             *)

Spawns == UNCHANGED <<disposition, lock, at, previous, leaky, panicked>>

\* A child exits; the kernel reaps it where SIGCHLD is ignored.
ChildExits(t) ==
    /\ child[t] = "running" /\ at[t] \notin {"spawn", "forked"}
    /\ child' = [child EXCEPT ![t] = IF disposition = "ignore" THEN "reaped" ELSE "zombie"]
    /\ keeps' = [u \in Threads |-> keeps[u] \ {t}]
    /\ UNCHANGED <<reusedpid, handle>> /\ Spawns /\ Family

PidReused(t) ==
    /\ child[t] = "reaped" /\ ~reusedpid[t] /\ at[t] # "done"
    /\ reusedpid' = [reusedpid EXCEPT ![t] = TRUE]
    /\ UNCHANGED <<child, handle, keeps>> /\ Spawns /\ Family

\* Reaped: a child the launcher lets go of is waited for.
Reaped(t) ==
    /\ at[t] = "done" /\ child[t] = "zombie"
    /\ child' = [child EXCEPT ![t] = "reaped"]
    /\ UNCHANGED <<reusedpid, handle, keeps>> /\ Spawns /\ Family

Thread(t) ==
    \/ ReadyPipe(t) \/ Marked(t) \/ PipeFails(t) \/ Default(t) \/ Fork(t) \/ ForkFails(t)
    \/ Exec(t) \/ ExecFails(t) \/ Watched(t) \/ Restore(t) \/ Return(t)

Next ==
    \E t \in Threads :
        Thread(t) \/ ChildExits(t) \/ PidReused(t) \/ Reaped(t)

-----------------------------------------------------------------------------

\* A spawn leaves no trace in the process and only its own in the child: once
\* no spawn is under way SIGCHLD is as the caller set it and no child that the
\* caller never waits for is a zombie; no failed exec panics; an exit handle
\* follows the child it was opened for; and a daemon's channel is held by no
\* child but that daemon (spawn_then, watched, ready_pipe, in_new_session).
SpawnIsClean ==
    /\ (\A t \in Threads : at[t] \notin {"spawn", "forked", "spawned", "restore", "reap"}) =>
          /\ disposition = policy
          /\ policy = "ignore" => \A t \in Threads : child[t] # "zombie"
    /\ ~panicked
    /\ \A t \in Threads : handle[t] # "other"
    /\ \A t \in Threads : keeps[t] \subseteq {"launcher", t}
=============================================================================

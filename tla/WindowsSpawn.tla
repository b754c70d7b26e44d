---------------------------- MODULE WindowsSpawn ----------------------------
(* Spawning on Windows (local/windows_spawn.rs, local/windows.rs, launch.rs):*)
(* threads of one process start plain children, which get every inheritable  *)
(* handle, while the caller's standard handles are made uninheritable under  *)
(* the spawn lock; and a daemon, which gets exactly the handles listed for   *)
(* it and leaves the caller's job if the job lets it.                        *)
EXTENDS Integers, FiniteSets, Sequences, Functions

CONSTANTS
    Std,       \* the caller's live standard handles
    Spawners   \* the threads that start a plain child

VARIABLES
    original,   \* the standard handles that were inheritable
    flagged,    \* those that are now
    copies,     \* the daemon's inheritable handles, open in this process
    held,       \* the spawn lock
    stage,      \* each thread's place in launch::spawn
    unseen,     \* the handles its guard has yet to visit
    restore,    \* the handles its guard will restore
    stuck,      \* handles whose flag could not be restored
    plain,      \* what each plain child inherited
    job,        \* the caller's job: "none", "lets" or "refuses"
    program,    \* what the daemon's program is called
    create,     \* the daemon's place in spawn
    target,     \* where its output and its errors go: "Null" or "File"
    listing,    \* the attribute list that is alive, as a set of the handles it holds
    heir,       \* what the daemon inherited
    streams,    \* its standard streams
    incaller,   \* in_callers_job
    daemons,    \* "none", "running", "ending" once it is terminated, or "exited"
    killed      \* where WindowsChild::kill is, or what it returned

hvars == <<original, flagged, copies, held, stage, unseen, restore, stuck, plain, job,
           program, create, target, listing, heir, streams, incaller, daemons, killed>>

\* Names, and what the loader opens for each.
Loads == [exe |-> "exe", bat |-> "bat", bat_dot |-> "bat", exe_dot |-> "exe"]

Init ==
    /\ original \in SUBSET Std /\ flagged = original /\ copies = {} /\ held = {}
    /\ stage = [t \in Spawners |-> "idle"]
    /\ unseen = [t \in Spawners |-> {}] /\ restore = [t \in Spawners |-> {}]
    /\ stuck = {} /\ plain = [t \in Spawners |-> {}]
    /\ job \in {"none", "lets", "refuses"} /\ create = "start"
    /\ program \in DOMAIN Loads /\ target \in [{"out", "err"} -> {"Null", "File"}]
    /\ listing = {} /\ heir = {} /\ streams = <<>> /\ incaller = FALSE
    /\ daemons = "none" /\ killed = "no"

Fixed == UNCHANGED <<original, job, program, target>>

-----------------------------------------------------------------------------
(* launch::spawn and its guard.                                              *)

Daemon == UNCHANGED <<copies, create, listing, heir, streams, incaller, daemons, killed>>

Step(t, there) == stage' = [stage EXCEPT ![t] = there]

Spawning(t) == held = {} /\ held' = {t}

Begin(t) ==
    /\ stage[t] = "idle" /\ Spawning(t)
    /\ unseen' = [unseen EXCEPT ![t] = Std] /\ Step(t, "suppress")
    /\ UNCHANGED <<flagged, restore, stuck, plain>> /\ Daemon /\ Fixed

\* StdioInheritGuard::for_handles: each inheritable handle is cleared and
\* remembered; a failure drops the guard.
Suppress(t) ==
    /\ stage[t] = "suppress"
    /\ \E h \in unseen[t] :
        \/ /\ unseen' = [unseen EXCEPT ![t] = @ \ {h}]
           /\ flagged' = flagged \ {h}
           /\ restore' = [restore EXCEPT ![t] = IF h \in flagged THEN @ \cup {h} ELSE @]
           /\ UNCHANGED stage
        \/ Step(t, "drop") /\ UNCHANGED <<unseen, flagged, restore>>
    /\ UNCHANGED <<held, stuck, plain>> /\ Daemon /\ Fixed

\* Command::spawn: the child, if it starts, gets every inheritable handle.
Spawn(t) ==
    /\ stage[t] = "suppress" /\ unseen[t] = {}
    /\ plain' \in {plain, [plain EXCEPT ![t] = flagged \cup copies]}
    /\ Step(t, "drop")
    /\ UNCHANGED <<flagged, held, unseen, restore, stuck>> /\ Daemon /\ Fixed

\* Drop restores what it can.
Drop(t) ==
    /\ stage[t] = "drop"
    /\ \E h \in restore[t] :
        /\ restore' = [restore EXCEPT ![t] = @ \ {h}]
        /\ \/ flagged' = flagged \cup {h} /\ UNCHANGED stuck
           \/ stuck' = stuck \cup {h} /\ UNCHANGED flagged
    /\ UNCHANGED <<held, stage, unseen, plain>> /\ Daemon /\ Fixed

End(t) ==
    /\ stage[t] = "drop" /\ restore[t] = {}
    /\ held' = held \ {t} /\ Step(t, "done")
    /\ UNCHANGED <<flagged, unseen, restore, stuck, plain>> /\ Daemon /\ Fixed

-----------------------------------------------------------------------------
(* windows_spawn::spawn, which takes no lock.                                *)

Plain == UNCHANGED <<flagged, held, stage, unseen, restore, stuck, plain>>

\* The stages of a spawn before there is a process.
Preparing(from, to) ==
    /\ create = from /\ create' = to
    /\ UNCHANGED <<heir, streams, incaller, daemons, killed>> /\ Plain /\ Fixed

\* An error return: what was opened is closed, and the attribute list deleted.
Failed(at) == Preparing(at, "failed") /\ copies' = {} /\ listing' = {}

\* Fault: the batch files are looked for first, and dots are no matter.
check_program_extension == program # "bat"

\* A name that ends in a dot or a space, and a batch file, are refused.
check_program == program \notin {"bat", "bat_dot", "exe_dot"}

\* The command line and the environment may be refused too.
Prepare ==
    \/ check_program /\ Preparing("start", "null") /\ UNCHANGED <<copies, listing>>
    \/ Failed("start")

open_null ==
    \/ Preparing("null", "out") /\ copies' = {"null"} /\ UNCHANGED listing
    \/ Failed("null")

\* A duplicate of a file; the caller's own handle stays as it is.
inheritable(stream, next) ==
    \/ /\ Preparing(stream, next) /\ UNCHANGED listing
       /\ copies' = copies \cup (IF target[stream] = "File" THEN {stream} ELSE {})
    \/ target[stream] = "File" /\ Failed(stream)

\* Fault: errors go where the output goes.
raw_out(stream) == IF target.out = "File" THEN "out" ELSE "null"

raw(stream) == IF target[stream] = "File" THEN stream ELSE "null"

std_handles == <<"null", raw("out"), raw("err")>>

\* Of the handles, each once: sized, initialised and updated.
with_handles ==
    \/ Preparing("list", "breakaway") /\ listing' = Range(std_handles) /\ UNCHANGED copies
    \/ Failed("list")

\* The process exists, with the streams of the start-up information.
Created(at, inside) ==
    /\ create = at /\ create' = "created"
    /\ heir' = listing /\ streams' = std_handles /\ incaller' = inside /\ daemons' = "running"
    /\ copies' = {} /\ listing' = {}
    /\ UNCHANGED killed /\ Plain /\ Fixed

\* Outside the job first; ERROR_ACCESS_DENIED means inside, once.
Breakaway ==
    \/ job # "refuses" /\ Created("breakaway", FALSE)
    \/ Failed("breakaway")

\* breakaway_refused, by the job or for another reason.
Refused == Preparing("breakaway", "inside") /\ UNCHANGED <<copies, listing>>

Inside == Created("inside", TRUE) \/ Failed("inside")

-----------------------------------------------------------------------------
(* WindowsChild.                                                             *)

Child ==
    /\ UNCHANGED <<copies, create, listing, heir, streams, incaller>> /\ Plain /\ Fixed

\* The daemon ends, by itself or because it was terminated.
Ends ==
    daemons \in {"running", "ending"} /\ daemons' = "exited" /\ UNCHANGED killed /\ Child

\* kill: TerminateProcess starts the end and does not wait for it; it fails for
\* a process that has ended, and may fail for one that has not.
kill ==
    /\ daemons # "none" /\ killed # "look"
    /\ \/ daemons \in {"running", "ending"} /\ daemons' = "ending" /\ killed' = "ok"
       \/ killed' = "look" /\ UNCHANGED daemons
    /\ Child

\* wait_for, without waiting: an exit status, or none.
wait_for == IF daemons = "exited" THEN {"exit"} ELSE {}

\* Fault: a refusal means that the child has ended.
killed_anyway == "ok"

killed_after_all == IF wait_for # {} THEN "ok" ELSE "error"

\* The child may have ended by then, and the wait itself may fail.
TryWait ==
    killed = "look" /\ killed' \in {killed_after_all, "error"} /\ UNCHANGED daemons /\ Child

Next ==
    \/ \E t \in Spawners : Begin(t) \/ Suppress(t) \/ Spawn(t) \/ Drop(t) \/ End(t)
    \/ Prepare \/ open_null \/ inheritable("out", "err") \/ inheritable("err", "list")
    \/ with_handles \/ Breakaway \/ Refused \/ Inside \/ Ends \/ kill \/ TryWait

-----------------------------------------------------------------------------

\* No plain child holds a standard handle of the caller, though it may hold the
\* daemon's inheritable copies, and those only; once no spawn is under way the
\* standard handles are as they were, but for one Windows refused to restore.
\* The daemon inherits its own streams and nothing else, each goes where it was
\* sent, and it is no batch file; a spawn that is over has left nothing open;
\* and a kill that succeeded leaves a child that has ended or is about to
\* (launch::spawn, StdioInheritGuard, windows_spawn::spawn, WindowsChild::kill).
HandlesAreKept ==
    /\ \A t \in Spawners : plain[t] \subseteq {"null", "out", "err"}
    /\ (\A t \in Spawners : stage[t] \in {"idle", "done"}) =>
          flagged = original \ stuck
    /\ create = "created" =>
          /\ heir = Range(streams) /\ Loads[program] = "exe"
          /\ streams[1] = "null"
          /\ \A i \in {2, 3} :
                LET stream == <<"out", "err">>[i - 1] IN
                streams[i] = IF target[stream] = "File" THEN stream ELSE "null"
          /\ job = "refuses" => incaller
    /\ create \in {"created", "failed"} => copies = {} /\ listing = {}
    /\ killed = "ok" => daemons \in {"ending", "exited"}
=============================================================================

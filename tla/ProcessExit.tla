---------------------------- MODULE ProcessExit ----------------------------
(* A ProcessHandle (local/process.rs and its platforms): the exit of a       *)
(* process as an event, waited for in a thread or in a task that may be      *)
(* dropped.  A pidfd stays readable, a kqueue reports an exit once, Windows  *)
(* calls back from its own thread, and where none of them is to be had the   *)
(* handle can only ask about the PID, which another process may get.         *)
EXTENDS Integers

CONSTANTS MaxCalls    \* bound: waits

VARIABLES
    platform,    \* "pidfd", "kqueue", "windows" or "unsupported"
    process,     \* the process: "running", "zombie" or "gone"
    reused,      \* another process has its PID
    queued,      \* the kqueue holds the exit
    source,      \* "none", "Event", "Exited", "Pid" or "error"
    call,        \* what the current wait is doing
    past,        \* its deadline has passed
    callback,    \* the Windows callback: "none", "registered", "running", "done"
    context,     \* the notification it gets: "none", "alive" or "freed"
    notified,    \* the notification has been given
    answer,      \* the last answer
    told,        \* an exit has been reported
    calls

xvars == <<platform, process, reused, queued, source, call, past, callback, context,
           notified, answer, told, calls>>

Init ==
    /\ platform \in {"pidfd", "kqueue", "windows", "unsupported"}
    /\ process \in {"running", "zombie", "gone"} /\ reused = FALSE
    /\ queued = FALSE /\ source = "none" /\ call = "none" /\ past = FALSE
    /\ callback = "none" /\ context = "none" /\ notified = FALSE
    /\ answer = "none" /\ told = FALSE /\ calls = 0

-----------------------------------------------------------------------------
(* The process.                                                              *)

Handle == UNCHANGED <<platform, source, call, past, callback, context, notified, answer,
                      told, calls>>

Exit ==
    /\ process = "running" /\ process' = "zombie"
    /\ queued' = (platform = "kqueue" /\ source = "Event")
    /\ UNCHANGED reused /\ Handle

\* An open Windows handle keeps the process object, and with it the PID.
Reap ==
    /\ process = "zombie" /\ ~(platform = "windows" /\ source = "Event")
    /\ process' = "gone"
    /\ UNCHANGED <<reused, queued>> /\ Handle

Reuse ==
    /\ process = "gone" /\ ~reused /\ source # "none"
    /\ reused' = TRUE
    /\ UNCHANGED <<process, queued>> /\ Handle

DeadlinePasses ==
    /\ call # "none" /\ ~past /\ past' = TRUE
    /\ UNCHANGED <<platform, process, reused, queued, source, call, callback, context,
                   notified, answer, told, calls>>

-----------------------------------------------------------------------------
(* The handle.                                                               *)

World == UNCHANGED <<platform, process, reused>>

\* What sys::open can say of the process: it fails, it finds no event to be
\* had, or it finds the process gone or there.  A kqueue takes no zombie.
PidfdOpens == {"error", "Pid", IF process = "gone" THEN "Exited" ELSE "Event"}
KqueueOpens == {"error", "Pid", IF process = "running" THEN "Event" ELSE "Exited"}
WindowsOpens == {"error", IF process = "gone" THEN "Exited" ELSE "Event"}

Opens ==
    CASE platform = "pidfd" -> PidfdOpens
      [] platform = "kqueue" -> KqueueOpens
      [] platform = "windows" -> WindowsOpens
      [] OTHER -> {"Pid"}

\* ProcessHandle::open
Open ==
    /\ source = "none"
    /\ source' \in Opens
    /\ UNCHANGED <<queued, call, past, callback, context, notified, answer, told, calls>>
    /\ World

\* wait_for, exited: a call begins.
Call ==
    /\ source \notin {"none", "error"} /\ call = "none" /\ calls < MaxCalls
    /\ call' \in {"wait", "poll"}
    /\ past' = FALSE /\ calls' = calls + 1
    /\ UNCHANGED <<queued, source, callback, context, notified, answer, told>> /\ World

\* signal_state: kill(pid, 0); only Linux tells a zombie from a live process.
SignalState ==
    CASE reused -> {"Alive"}
      [] process = "gone" -> {"Exited"}
      [] process = "zombie" -> {"Exited", "Alive"}
      [] OTHER -> {"Alive"}

\* What one look at an event shows: poll on the pidfd, kevent, or the wait for
\* the process object.
Readable == process # "running"
NextExit == queued
Signalled == process # "running"

Looks ==
    CASE source = "Exited" -> {"Exited"}
      [] source = "Pid" -> SignalState
      [] source = "Event" /\ platform = "pidfd" -> {IF Readable THEN "Exited" ELSE "Alive"}
      [] source = "Event" /\ platform = "kqueue" -> {IF NextExit THEN "Exited" ELSE "Alive"}
      [] OTHER -> {IF Signalled THEN "Exited" ELSE "Alive"}

\* Fault: the answer is not remembered.
ExitedForgotten ==
    /\ answer' = "exited" /\ told' = TRUE /\ call' = "none"
    /\ queued' = FALSE
    /\ UNCHANGED source

\* An exit is remembered; the kqueue has given it up.
Exited ==
    /\ answer' = "exited" /\ told' = TRUE /\ call' = "none"
    /\ queued' = FALSE
    /\ source' = "Exited"

Answer(what) == answer' = what /\ call' = "none" /\ UNCHANGED <<queued, source, told>>

\* A wait looks until it sees the exit or its deadline passes; a look may end
\* early.
Wait ==
    /\ call = "wait"
    /\ \E seen \in Looks : IF seen = "Exited" THEN Exited ELSE past /\ Answer("running")
    /\ UNCHANGED <<past, callback, context, notified, calls>> /\ World

\* The task looks once, then registers for the event; with only a PID it
\* pauses and looks again.
Poll ==
    /\ call = "poll"
    /\ \E seen \in Looks :
        IF seen = "Exited" THEN Exited
        ELSE source = "Event" /\ call' = "register" /\ UNCHANGED <<queued, source, answer, told>>
    /\ UNCHANGED <<past, callback, context, notified, calls>> /\ World

\* Registration::new, or the runtime's own registration.
Register ==
    /\ call = "register"
    /\ call' = "parked"
    /\ IF platform = "windows"
       THEN callback' = "registered" /\ context' = "alive" /\ notified' = FALSE
       ELSE UNCHANGED <<callback, context, notified>>
    /\ UNCHANGED <<queued, source, past, answer, told, calls>> /\ World

\* The OS calls back once for a process that has exited, even before.
CallbackStarts ==
    /\ callback = "registered" /\ process # "running"
    /\ callback' = "running"
    /\ UNCHANGED <<queued, source, call, past, context, notified, answer, told, calls>> /\ World

CallbackSignals ==
    /\ callback = "running"
    /\ callback' = "done" /\ notified' = TRUE
    /\ UNCHANGED <<queued, source, call, past, context, answer, told, calls>> /\ World

\* Fault: the registration goes without waiting for a running callback.
UnregisteredAnyway == TRUE

\* UnregisterWaitEx returns once no callback runs.
Unregistered == callback # "running"

\* Registration::drop, where there is one: a callback that has not begun never
\* will.
Unregister ==
    IF platform = "windows"
    THEN /\ Unregistered /\ callback' = (IF callback = "running" THEN callback ELSE "none")
         /\ context' = "freed" /\ notified' = FALSE
    ELSE UNCHANGED <<callback, context, notified>>

\* The task wakes: with a descriptor it looks again, and clears a readiness
\* that shows nothing; on Windows the notification says it.
DescriptorReady ==
    /\ call = "parked" /\ platform # "windows" /\ "Exited" \in Looks
    /\ Exited
    /\ UNCHANGED <<past, callback, context, notified, calls>> /\ World

Notified ==
    /\ call = "parked" /\ notified
    /\ Exited /\ Unregister
    /\ UNCHANGED <<past, calls>> /\ World

\* The future is dropped where it waits: by its owner, or by exited_until once
\* the deadline has passed and the future is still not done.
Drop ==
    /\ call = "parked" \/ (call = "poll" /\ source = "Pid")
    /\ call' = "none"
    /\ \/ UNCHANGED answer
       \/ past /\ ~notified /\ answer' = "running"
    /\ IF call = "parked" THEN Unregister ELSE UNCHANGED <<callback, context, notified>>
    /\ UNCHANGED <<queued, source, past, told, calls>> /\ World

\* A look or a registration fails: the OS gave no answer.
Fails ==
    /\ call # "none" /\ source # "Exited"
    /\ platform = "windows" => call # "parked"
    /\ Answer("error")
    /\ UNCHANGED <<past, callback, context, notified, calls>> /\ World

Task == Wait \/ Poll \/ Register \/ DescriptorReady \/ Notified

Next ==
    \/ Exit \/ Reap \/ Reuse \/ DeadlinePasses \/ Open \/ Call
    \/ Task \/ CallbackStarts \/ CallbackSignals \/ Drop \/ Fails

-----------------------------------------------------------------------------

\* An exit is reported only once it has happened, and from then on by every
\* call, however often the OS would say it (ProcessHandle::wait_for, exited).
ExitsAreTrue ==
    /\ told \/ source = "Exited" => process # "running"
    /\ told => answer = "exited"

\* The notification outlives every callback that may use it
\* (Registration::drop).
CallbackIsSafe == callback = "running" => context = "alive"

\* Who waits for an exit as an event learns of it, also if it comes between
\* the look and the registration (Event::exited, Registration::new).
ExitIsNoticed ==
    source = "Event" /\ call # "none" /\ process # "running" ~> call = "none"
=============================================================================

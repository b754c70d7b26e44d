------------------------------- MODULE Launch -------------------------------
(* Starting a daemon and waiting for it to serve (launch.rs): the launcher   *)
(* alternates between asking whether a daemon serves and waiting for its     *)
(* child's exit.  A child that finds a daemon already serving exits, so an   *)
(* exit is no failure while somebody serves.                                 *)
EXTENDS Integers

CONSTANTS
    Limit,     \* the deadline
    Interval   \* POLL

VARIABLES
    os,          \* "unix" or "windows"
    how,         \* "followed": wait_until_live; "polled": spawn_and_wait
    spawned,     \* the launcher's child: "none", "running" or "exited"
    serving,     \* who serves: "nobody", "child" or "other"
    since,       \* a moment after the exit at which nobody served
    launch,      \* where the launcher is
    clock,
    until,       \* the exit wait's deadline, or the pause's end
    proof,       \* the last probe of a poll found a daemon
    result       \* "none", "Live", "Exited", "TimedOut" or "error"

lvars == <<os, how, spawned, serving, since, launch, clock, until, proof, result>>

Init ==
    /\ os \in {"unix", "windows"} /\ how \in {"followed", "polled"} /\ spawned = "none"
    /\ serving \in {"nobody", "other"} /\ since = FALSE
    /\ launch = "spawn" /\ clock = 0 /\ until = 0 /\ proof = FALSE /\ result = "none"

-----------------------------------------------------------------------------
(* The daemons.                                                              *)

Launcher == UNCHANGED <<os, how, launch, clock, until, proof, result>>

\* The child serves if nobody else does.
Serves ==
    /\ spawned = "running" /\ serving = "nobody" /\ serving' = "child"
    /\ UNCHANGED <<spawned, since>> /\ Launcher

\* It exits: it failed, or it found another daemon serving.
ChildExits ==
    /\ spawned = "running" /\ spawned' = "exited"
    /\ serving' = (IF serving = "child" THEN "nobody" ELSE serving)
    /\ since' = (serving' = "nobody")
    /\ Launcher

\* A daemon another launcher started.
OtherServes ==
    /\ serving = "nobody" /\ serving' = "other"
    /\ UNCHANGED <<spawned, since>> /\ Launcher

OtherStops ==
    /\ serving = "other" /\ serving' = "nobody"
    /\ since' = (since \/ spawned = "exited")
    /\ UNCHANGED spawned /\ Launcher

Tick ==
    /\ clock < Limit + 1 /\ result = "none" /\ clock' = clock + 1
    /\ UNCHANGED <<os, how, spawned, serving, since, launch, until, proof, result>>

-----------------------------------------------------------------------------
(* The launcher.                                                             *)

Others == UNCHANGED <<os, how, serving, since, clock>>

Return(what) == result' = what /\ launch' = "done" /\ UNCHANGED until

\* DaemonCommand::spawn: the child runs, or there is none.
Spawn ==
    /\ launch = "spawn" /\ how = "followed"
    /\ \/ /\ spawned' = "running" /\ UNCHANGED <<until, result>>
          /\ launch' = (IF os = "windows" THEN "handles" ELSE "probe")
       \/ Return("error") /\ UNCHANGED spawned
    /\ UNCHANGED proof /\ Others

\* spawn_and_wait waits also after a failed spawn: another daemon may serve.
SpawnAndWait ==
    /\ launch = "spawn" /\ how = "polled"
    /\ spawned' \in {"none", "running"} /\ launch' = "poll"
    /\ UNCHANGED <<until, proof, result>> /\ Others

\* On Windows a daemon that cannot be followed is killed.
Handles ==
    /\ launch = "handles"
    /\ \/ launch' = "probe" /\ UNCHANGED <<spawned, serving, until, result>>
       \/ /\ Return("error") /\ spawned' = "exited"
          /\ serving' = (IF serving = "child" THEN "nobody" ELSE serving)
    /\ UNCHANGED <<os, how, since, clock, proof>>

\* wait_until_live: is_live, then the deadline, then the exit.
Probe ==
    /\ launch = "probe"
    /\ IF serving # "nobody" THEN Return("Live")
       ELSE launch' = "watch" /\ UNCHANGED <<until, result>>
    /\ UNCHANGED <<spawned, proof>> /\ Others

Sooner(a, b) == IF a < b THEN a ELSE b

Watch ==
    /\ launch = "watch"
    /\ IF clock >= Limit THEN Return("TimedOut")
       ELSE launch' = "wait" /\ until' = Sooner(Limit, clock + Interval) /\ UNCHANGED result
    /\ UNCHANGED <<spawned, proof>> /\ Others

\* Fault: the exit alone decides.
ExitedAtOnce == Return("Exited")

\* After the exit, the daemons are asked once more.
AfterExit == launch' = "again" /\ UNCHANGED <<until, result>>

\* exits_by: the exit, or the end of the interval.
ExitsBy ==
    /\ launch = "wait"
    /\ \/ spawned = "exited" /\ AfterExit
       \/ clock >= until /\ launch' = "probe" /\ UNCHANGED <<until, result>>
    /\ UNCHANGED <<spawned, proof>> /\ Others

ExitUnknown ==
    /\ launch = "wait" /\ Return("error")
    /\ UNCHANGED <<spawned, proof>> /\ Others

ProbeAgain ==
    /\ launch = "again"
    /\ Return(IF serving # "nobody" THEN "Live" ELSE "Exited")
    /\ UNCHANGED <<spawned, proof>> /\ Others

\* readiness::wait_until: no probe begins at the deadline, and a proof that
\* comes at it is late.
Poll ==
    /\ launch = "poll"
    /\ IF clock >= Limit THEN Return("TimedOut") /\ UNCHANGED proof
       ELSE launch' = "polled" /\ proof' = (serving # "nobody") /\ UNCHANGED <<until, result>>
    /\ UNCHANGED spawned /\ Others

Polled ==
    /\ launch = "polled"
    /\ CASE clock >= Limit -> Return("TimedOut")
         [] clock < Limit /\ proof -> Return("Live")
         [] OTHER -> /\ launch' = "nap" /\ until' = Sooner(Limit, clock + Interval)
                     /\ UNCHANGED result
    /\ UNCHANGED <<spawned, proof>> /\ Others

Nap ==
    /\ launch = "nap" /\ clock >= until /\ launch' = "poll"
    /\ UNCHANGED <<spawned, until, proof, result>> /\ Others

Launching ==
    \/ Spawn \/ Handles \/ Probe \/ Watch \/ ExitsBy \/ ProbeAgain
    \/ SpawnAndWait \/ Poll \/ Polled \/ Nap

Next == Serves \/ ChildExits \/ OtherServes \/ OtherStops \/ Tick \/ ExitUnknown \/ Launching

-----------------------------------------------------------------------------

\* A startup is reported as it went: Exited says that the child is gone and
\* that there was a moment after its exit at which nobody served, TimedOut that
\* the whole budget was used and a polled Live that it was not; and a spawn that
\* fails leaves no daemon behind that nobody follows
\* (DaemonChild::wait_until_live, DaemonCommand::spawn, readiness::wait_until).
StartupIsTrue ==
    /\ result = "Exited" => spawned = "exited" /\ since
    /\ result = "TimedOut" => clock >= Limit
    /\ result = "Live" /\ how = "polled" => clock < Limit
    /\ result = "error" /\ until = 0 => spawned # "running"

\* The wait for a daemon ends.
StartupEnds == <>(launch = "done")
=============================================================================

----------------------------- MODULE ReadyPipe -----------------------------
(* The launcher's end of a readiness channel on Windows (local/windows.rs,   *)
(* ready): a named pipe the daemon opens by name.  The reader waits at once  *)
(* for the pipe and for the daemon's exit, which ends the channel whether or *)
(* not the daemon connected, and even if a program it started holds the pipe.*)
EXTENDS Integers

CONSTANTS MaxWritten   \* bound: writes

VARIABLES
    started,    \* the process handle: "awaited", "sent" or "dropped" with its sender
    daemon,     \* "absent", "running" or "exited"
    end,        \* the daemon's end of the pipe: "none", "open" or "closed"
    inherited,  \* a program the daemon started holds its end too
    written,    \* what the daemon wrote
    unread,     \* what is in the pipe
    got,        \* what the reader read
    connected, exited, ended,   \* the reader's fields
    operation,  \* "none", "connecting" or "reading"
    woke        \* the wait ended by the exit

pvars == <<started, daemon, end, inherited, written, unread, got, connected, exited, ended,
           operation, woke>>

Init ==
    /\ started = "awaited" /\ daemon = "absent" /\ end = "none" /\ inherited = FALSE
    /\ written = 0 /\ unread = 0 /\ got = 0
    /\ connected = FALSE /\ exited = FALSE /\ ended = FALSE
    /\ operation = "none" /\ woke = FALSE

-----------------------------------------------------------------------------
(* The launcher and the daemon.                                              *)

TheReader == UNCHANGED <<got, connected, exited, ended, operation, woke>>

\* DaemonCommand::spawn starts the daemon, or drops the sender.
Start ==
    /\ started = "awaited" /\ daemon = "absent"
    /\ \/ daemon' = "running" /\ UNCHANGED started
       \/ started' = "dropped" /\ UNCHANGED daemon
    /\ UNCHANGED <<end, inherited, written, unread>> /\ TheReader

\* The daemon's handle follows it, whatever it has done since. When it cannot be
\* opened or cloned the launch fails, the channel is dropped and the daemon,
\* which may not have ended yet, is killed.
Send ==
    /\ started = "awaited" /\ daemon # "absent" /\ started' \in {"sent", "dropped"}
    /\ UNCHANGED <<daemon, end, inherited, written, unread>> /\ TheReader

Open ==
    /\ daemon = "running" /\ end = "none" /\ end' = "open"
    /\ UNCHANGED <<started, daemon, inherited, written, unread>> /\ TheReader

Write ==
    /\ daemon = "running" /\ end = "open" /\ written < MaxWritten
    /\ written' = written + 1 /\ unread' = unread + 1
    /\ UNCHANGED <<started, daemon, end, inherited>> /\ TheReader

Inherit ==
    /\ daemon = "running" /\ end = "open" /\ ~inherited /\ inherited' = TRUE
    /\ UNCHANGED <<started, daemon, end, written, unread>> /\ TheReader

Close ==
    /\ daemon = "running" /\ end = "open" /\ ~inherited /\ end' = "closed"
    /\ UNCHANGED <<started, daemon, inherited, written, unread>> /\ TheReader

Exit ==
    /\ daemon = "running" /\ daemon' = "exited"
    /\ end' = (IF end = "open" /\ ~inherited THEN "closed" ELSE end)
    /\ UNCHANGED <<started, inherited, written, unread>> /\ TheReader

\* The program that holds the end lets go of it, or never does.
HolderEnds ==
    /\ daemon = "exited" /\ inherited /\ end = "open" /\ end' = "closed"
    /\ UNCHANGED <<started, daemon, inherited, written, unread>> /\ TheReader

-----------------------------------------------------------------------------
(* The reader: Reader::step.                                                 *)

TheDaemon == UNCHANGED <<started, daemon, end, inherited, written>>

\* process: the channel ends where there is no daemon.
NoProcess ==
    /\ operation = "none" /\ ~ended /\ started = "dropped"
    /\ ended' = TRUE
    /\ UNCHANGED <<unread, got, connected, exited, operation, woke>> /\ TheDaemon

\* ConnectNamedPipe finds the daemon connected, or already gone again.
Connects == end # "none"

Connect ==
    /\ operation = "none" /\ ~ended /\ started = "sent" /\ ~connected
    /\ IF Connects THEN connected' = TRUE /\ UNCHANGED operation
       ELSE operation' = "connecting" /\ UNCHANGED connected
    /\ UNCHANGED <<unread, got, exited, ended, woke>> /\ TheDaemon

\* Received, or nothing more can come.
Got == got' = got + unread /\ unread' = 0 /\ UNCHANGED ended
End == ended' = TRUE /\ UNCHANGED <<got, unread>>
Again == UNCHANGED <<got, unread, ended>>

Readable == unread > 0
Broken == unread = 0 /\ end = "closed"

Receive ==
    /\ operation = "none" /\ ~ended /\ connected /\ ~exited
    /\ CASE Readable -> Got /\ UNCHANGED operation
         [] Broken -> End /\ UNCHANGED operation
         [] OTHER -> operation' = "reading" /\ Again
    /\ UNCHANGED <<connected, exited, woke>> /\ TheDaemon

\* drain: only what is there.
Drain ==
    /\ operation = "none" /\ ~ended /\ connected /\ exited
    /\ IF Readable THEN Got ELSE End
    /\ UNCHANGED <<connected, exited, operation, woke>> /\ TheDaemon

Complete == IF operation = "connecting" THEN Connects ELSE Readable \/ Broken

\* Fault: only the pipe is waited for.
ExitUnseen == FALSE

\* settle: the wait ends by the operation, first, or by the exit.
ExitSeen == daemon = "exited" /\ ~Complete

Wake ==
    /\ operation # "none" /\ ~woke /\ ExitSeen /\ woke' = TRUE
    /\ UNCHANGED <<unread, got, connected, exited, ended, operation>> /\ TheDaemon

\* The operation's own result, once it is terminal: cancelled after an exit
\* unless it has completed since.
SettleConnect ==
    /\ operation = "connecting" /\ (woke \/ Complete)
    /\ operation' = "none" /\ woke' = FALSE /\ exited' = woke
    /\ connected' = Complete
    /\ IF Complete THEN Again ELSE End
    /\ TheDaemon

SettleRead ==
    /\ operation = "reading" /\ (woke \/ Complete)
    /\ operation' = "none" /\ woke' = FALSE /\ exited' = (exited \/ woke)
    /\ CASE Readable -> Got
         [] Broken -> End
         [] OTHER -> Again
    /\ UNCHANGED connected /\ TheDaemon

Reader ==
    NoProcess \/ Connect \/ Receive \/ Drain \/ Wake \/ SettleConnect \/ SettleRead

Next == Start \/ Send \/ Open \/ Write \/ Inherit \/ Close \/ Exit \/ HolderEnds \/ Reader

-----------------------------------------------------------------------------

\* A channel that has ended has given the launcher all that its daemon wrote,
\* however soon the daemon closed it or exited, unless the launch itself failed
\* (Reader::read).
NothingLost == ended /\ started = "sent" => got = written

\* The daemon's exit ends its channel (Reader::settle).
ReaderEnds == (daemon = "exited" /\ started = "sent") \/ started = "dropped" ~> ended
=============================================================================

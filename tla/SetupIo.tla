------------------------------ MODULE SetupIo ------------------------------
(* The two halves of a connection while its session is set up                *)
(* (local/unix.rs, local/windows.rs).  During setup every operation ends by  *)
(* the deadline; afterwards it may block.  On Unix the socket's mode changes *)
(* with it; a pipe's operations are always overlapped, and wait in whole     *)
(* milliseconds, a tick of the clock too short at worst.  The reader's       *)
(* thread makes the change while the writer's thread may be anywhere.        *)
(* Under a pipe's bounded operation is a transfer with a deadline            *)
(* (transfer_overlapped, cancel_and_reap): the kernel owns the caller's      *)
(* buffer from its start until it is terminal, and it may complete at any    *)
(* moment of its cancellation.                                               *)
EXTENDS Integers

VARIABLES
    socket,        \* a Unix socket, or else a Windows pipe
    nonblocking,   \* the mode of the socket both halves share
    active,        \* Setup::active, or the flag of a pipe's halves
    transition,    \* who holds Setup::transition: "free", "reader", "writer"
    bounded,       \* the reader's read_deadline is set
    due,           \* the deadline: "later", less than such a wait away ("soon"), "past"
    room,          \* the peer's buffer has room
    bytes,         \* the peer has sent something
    writing,       \* where the writer's write is
    reading,       \* where the reader's read is
    clearing,      \* where the reader's clear_read_deadline is
    kernel,        \* a transfer: "none", "pending", "complete", "cancelled"
    signalled,     \* its event
    transfer,      \* where transfer_overlapped is
    woke,          \* why its wait ended: "", "signalled", "timeout", "failed"
    returned       \* what it returned: "", "bytes", "TimedOut", "error"

ivars == <<socket, nonblocking, active, transition, bounded, due, room, bytes, writing,
           reading, clearing>>

\* set_read_deadline on Unix, before split: with a deadline or without one.
set_read_deadline == nonblocking = (socket /\ bounded)

\* split on Windows: both halves know the deadline, and share a flag.
split_windows == active = bounded

Init ==
    /\ socket \in BOOLEAN /\ bounded \in BOOLEAN
    /\ nonblocking \in BOOLEAN /\ set_read_deadline
    /\ active \in BOOLEAN /\ split_windows
    /\ transition = "free" /\ due = "later" /\ room \in BOOLEAN /\ bytes \in BOOLEAN
    /\ writing = "idle" /\ reading = "idle" /\ clearing = "idle"

-----------------------------------------------------------------------------
(* UnixWriter::write.                                                        *)

Socket == UNCHANGED <<socket, nonblocking, active, bounded, due, room, bytes, reading, clearing>>

FirstLook ==
    /\ socket /\ writing = "idle"
    /\ writing' = IF active THEN "locking" ELSE "plain"
    /\ UNCHANGED transition /\ Socket

TakeTransition ==
    /\ writing = "locking" /\ transition = "free"
    /\ transition' = "writer" /\ writing' = "locked"
    /\ Socket

\* Fault: the first look decides.
SecondLookNever ==
    /\ writing = "locked"
    /\ writing' = "bounded"
    /\ UNCHANGED transition /\ Socket

SecondLook ==
    /\ writing = "locked"
    /\ IF active THEN writing' = "bounded" /\ UNCHANGED transition
                 ELSE writing' = "plain" /\ transition' = "free"
    /\ Socket

\* bounded_io looks at the clock before and after every attempt; a pipe's
\* operation waits once, and does not look again.
GivesUp == IF socket THEN due = "past" ELSE due # "later"
InTime == socket => due # "past"

\* write_until, write_overlapped: a full buffer is waited for until the deadline.
\* A write that meets it fails, and with it the session.
BoundedWrite ==
    /\ writing = "bounded"
    /\ \/ room /\ InTime /\ writing' = "idle"
       \/ GivesUp /\ writing' = "failed"
    /\ transition' = "free"
    /\ Socket

\* WindowsWriter::write looks once. In setup it fails at the deadline.
WindowsWrite ==
    /\ ~socket /\ writing = "idle"
    /\ writing' = IF ~active THEN "plain" ELSE IF due = "past" THEN "failed" ELSE "bounded"
    /\ UNCHANGED transition /\ Socket

\* A blocking write returns when there is room.
PlainWrite ==
    /\ writing = "plain" /\ room
    /\ writing' = "idle"
    /\ UNCHANGED transition /\ Socket

-----------------------------------------------------------------------------
(* The reader's thread reads or clears the deadline.                         *)

Writer == UNCHANGED <<socket, due, room, bytes, writing>>
Clock == UNCHANGED <<nonblocking, active, transition, bounded, clearing>>

\* UnixReader::read; a read into nothing returns at once, and changes nothing.
Read ==
    /\ socket /\ reading = "idle" /\ clearing \in {"idle", "failed"}
    /\ reading' = IF bounded THEN "bounded" ELSE "plain"
    /\ Clock /\ Writer

\* WindowsReader::read
WindowsRead ==
    /\ ~socket /\ reading = "idle" /\ clearing = "idle"
    /\ reading' = IF ~bounded THEN "plain" ELSE IF due = "past" THEN "failed" ELSE "bounded"
    /\ Clock /\ Writer

\* read_until, read_overlapped: something has come, or it is too late.
ReadUntil ==
    /\ reading = "bounded"
    /\ \/ bytes /\ InTime /\ reading' = "idle"
       \/ GivesUp /\ reading' = "failed"
    /\ Clock /\ Writer

PlainRead ==
    /\ reading = "plain" /\ bytes /\ reading' = "idle"
    /\ Clock /\ Writer

BeginClear ==
    /\ reading = "idle" /\ clearing = "idle" /\ bounded
    /\ clearing' = "waiting"
    /\ UNCHANGED <<nonblocking, active, transition, bounded, reading>> /\ Writer

LockToClear ==
    /\ socket /\ clearing = "waiting" /\ transition = "free"
    /\ transition' = "reader" /\ clearing' = "locked"
    /\ UNCHANGED <<nonblocking, active, bounded, reading>> /\ Writer

\* Fault: the reader forgets its deadline only.
MakeBlockingLater ==
    /\ clearing = "locked"
    /\ bounded' = FALSE /\ clearing' = "blocking"
    /\ UNCHANGED <<nonblocking, active, transition, reading>> /\ Writer

MakeBlocking ==
    /\ clearing = "locked"
    /\ nonblocking' = FALSE /\ bounded' = FALSE /\ clearing' = "blocking"
    /\ UNCHANGED <<active, transition, reading>> /\ Writer

\* The socket's mode could not be changed: everything stays as it was.
ClearFails ==
    /\ clearing = "locked"
    /\ transition' = "free" /\ clearing' = "failed"
    /\ UNCHANGED <<nonblocking, active, bounded, reading>> /\ Writer

EndSetup ==
    /\ clearing = "blocking"
    /\ active' = FALSE /\ transition' = "free" /\ clearing' = "idle"
    /\ UNCHANGED <<nonblocking, bounded, reading>> /\ Writer

\* WindowsReader::clear_read_deadline: the reader first, then the flag.
WindowsClear ==
    /\ ~socket /\ clearing = "waiting"
    /\ bounded' = FALSE /\ clearing' = "blocking"
    /\ UNCHANGED <<nonblocking, active, transition, reading>> /\ Writer

Clear == LockToClear \/ MakeBlocking \/ EndSetup \/ WindowsClear

-----------------------------------------------------------------------------

Halves == UNCHANGED <<socket, nonblocking, active, transition, bounded, writing, reading, clearing>>

DeadlinePasses ==
    /\ due # "past"
    /\ due' = IF due = "later" THEN "soon" ELSE "past"
    /\ UNCHANGED <<room, bytes>> /\ Halves

\* The peer reads, or its buffer fills; it sends, or has sent no more.
PeerMoves ==
    /\ \/ room' = ~room /\ UNCHANGED bytes
       \/ bytes' = ~bytes /\ UNCHANGED room
    /\ UNCHANGED due /\ Halves

Write == FirstLook \/ TakeTransition \/ SecondLook \/ BoundedWrite \/ WindowsWrite

Next ==
    \/ Write \/ PlainWrite
    \/ Read \/ WindowsRead \/ ReadUntil \/ PlainRead
    \/ BeginClear \/ Clear \/ ClearFails
    \/ DeadlinePasses \/ PeerMoves

-----------------------------------------------------------------------------
(* transfer_overlapped.                                                      *)

TransferInit ==
    /\ kernel = "none" /\ signalled = FALSE
    /\ transfer = "begin" /\ woke = "" /\ returned = ""

Return(what) == transfer' = "returned" /\ returned' = what

\* ReadFile or WriteFile completes inline, stays pending or fails.
Start ==
    /\ transfer = "begin"
    /\ \/ kernel' = "complete" /\ Return("bytes")
       \/ kernel' = "pending" /\ transfer' = "waiting" /\ UNCHANGED returned
       \/ UNCHANGED kernel /\ Return("error")
    /\ UNCHANGED <<signalled, woke>>

\* External: the peer reads or writes.
Complete ==
    /\ kernel = "pending"
    /\ kernel' = "complete" /\ signalled' = TRUE
    /\ UNCHANGED <<transfer, woke, returned>>

\* WaitForSingleObject
Wait ==
    /\ transfer = "waiting"
    /\ \/ signalled /\ woke' = "signalled" /\ Return("bytes")
       \/ woke' \in {"timeout", "failed"} /\ transfer' = "cancel" /\ UNCHANGED returned
    /\ UNCHANGED <<kernel, signalled>>

\* CancelIoEx: it may find nothing to cancel, or fail otherwise.  A request to
\* cancel is not the end of the operation.
Cancel ==
    /\ transfer = "cancel"
    /\ transfer' \in IF kernel = "complete" THEN {"reap", "reap_error"}
                     ELSE {"cancelling", "reap_error"}
    /\ UNCHANGED <<kernel, signalled, woke, returned>>

\* External: the cancelled operation becomes terminal.
Cancelled ==
    /\ transfer = "cancelling" /\ kernel = "pending"
    /\ kernel' = "cancelled" /\ signalled' = TRUE
    /\ UNCHANGED <<transfer, woke, returned>>

\* GetOverlappedResult with wait = true returns once this holds.
Terminal == kernel # "pending"

\* The result of the reaping is the wait's: bytes that moved meanwhile are
\* given up with the connection.
Reap ==
    /\ transfer \in {"cancelling", "reap", "reap_error"} /\ Terminal
    /\ Return(IF transfer = "reap_error" \/ woke = "failed" THEN "error" ELSE "TimedOut")
    /\ UNCHANGED <<kernel, signalled, woke>>

\* An operation that could not be cancelled is waited for.
TransferNext == Start \/ Complete \/ Wait \/ Cancel \/ Cancelled \/ Reap

-----------------------------------------------------------------------------

\* A Unix operation bounded by the deadline never meets a blocking socket, on
\* which it could hang, and an ordinary one never a nonblocking socket, on
\* which it would fail spuriously; a write that may block begins only once setup
\* is over; and nothing times out before the deadline, on a pipe before less than
\* a tick is left of it (UnixReader::read, UnixWriter::write, clear_read_deadline
\* and the Windows halves).
ModesMatch ==
    /\ socket => /\ "bounded" \in {writing, reading} => nonblocking
                 /\ "plain" \in {writing, reading} => ~nonblocking
    /\ writing = "plain" => ~bounded
    /\ "failed" \in {writing, reading} => due # "later" /\ (socket => due = "past")

\* Leaving setup waits for a writer at most until the deadline, and so does an
\* operation begun in setup (clear_read_deadline, bounded_io,
\* transfer_overlapped).
SetupEnds ==
    /\ clearing = "waiting" ~> clearing # "waiting"
    /\ writing = "bounded" ~> writing # "bounded"
    /\ reading = "bounded" ~> reading # "bounded"

\* The kernel never touches a buffer the caller has got back
\* (transfer_overlapped, cancel_and_reap).
BufferIsReturned == transfer = "returned" => kernel # "pending"
=============================================================================

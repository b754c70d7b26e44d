----------------------------- MODULE WriterSlot -----------------------------
(***************************************************************************)
(* The replaceable peer writer: WriterSlot of src/transport.rs.            *)
(*                                                                         *)
(* The upstream thread writes the client's windows, numbered in the order  *)
(* it reads them.  It holds the mutex during a transport write; every      *)
(* other critical section is one step.  A thread waiting for the condition *)
(* variable looks again after a notify_all.                                *)
(*                                                                         *)
(* External: the coordinator, which reconnects at any time or pauses first *)
(* and settles the requests observed so far before it resumes; a thread    *)
(* that closes the slot; the transport, which may fail in a window.        *)
(***************************************************************************)
EXTENDS Integers, Sequences

CONSTANTS
    MaxWindows,     \* bound: windows the client sends
    MaxReplaced,    \* bound: replacements
    Bootstraps,     \* byte counts a new writer may already have written
    MaxOffset       \* largest byte count; a window counts one byte

VARIABLES
    slot,           \* WriterState; its base (not in the code) is the bootstrap count
    locked,         \* a transport write holds the mutex
    upstream,       \* where the upstream thread is
    woken,          \* it has been notified since it began to wait
    failed_on,      \* generation in which its window failed
    window,         \* the window it is at
    coordinator,    \* where the coordinator is
    offset,         \* what try_pause told it
    wire,           \* windows on each connection: <<number, outcome>>
    half_closed,    \* connections whose requests have ended
    observed,       \* requests observed and not settled
    cleared         \* requests settled by the coordinator

vars == <<slot, locked, upstream, woken, failed_on, window, coordinator, offset,
          wire, half_closed, observed, cleared>>

Connections == 0..MaxReplaced
Outcomes == {"line", "fragment", "torn"}

\* WriterSlot::new
Init ==
    /\ slot \in {[generation |-> 0, paused |-> FALSE, at_boundary |-> TRUE, base |-> 0,
                  written |-> 0, failed |-> FALSE, ended |-> FALSE, closed |-> FALSE]}
    /\ locked = FALSE
    /\ upstream = "reading"
    /\ woken = FALSE
    /\ failed_on = 0
    /\ window = 1
    /\ coordinator = "idle"
    /\ offset = 0
    /\ wire = [c \in Connections |-> <<>>]
    /\ half_closed = {}
    /\ observed = {}
    /\ cleared = {}

NotifyAll == woken' = TRUE

-----------------------------------------------------------------------------
(* write_observed.                                                         *)

\* The window is given up, or has been written: the thread reads the next one.
NextWindow == upstream' = "reading" /\ window' = window + 1

\* Fault: the window that failed is written again.
SameWindow == upstream' = "reading" /\ window' = window

\* The end of the wait for a replacement: the failed window is not replayed.
Abandon == NextWindow

\* The thread has the mutex and a window: it waits while paused, returns if the
\* slot is closed, and otherwise observes the window and starts the write.
Enter ==
    /\ CASE slot.closed -> NextWindow /\ UNCHANGED <<locked, woken, observed>>
         [] slot.paused /\ ~slot.closed ->
              /\ upstream' = "parked" /\ woken' = FALSE
              /\ UNCHANGED <<locked, window, observed>>
         [] OTHER ->
              /\ upstream' = "writing" /\ locked' = TRUE
              /\ observed' = observed \union {window}
              /\ UNCHANGED <<woken, window>>
    /\ UNCHANGED <<slot, failed_on, coordinator, offset, wire, half_closed, cleared>>

WriteObserved == upstream = "reading" /\ ~locked /\ window <= MaxWindows /\ Enter

LookParked == upstream = "parked" /\ woken /\ ~locked /\ Enter

\* The whole window has been written and flushed; checked_add fails at the limit.
Written(outcome) ==
    /\ upstream = "writing"
    /\ locked' = FALSE
    /\ NextWindow
    /\ wire' = [wire EXCEPT ![slot.generation] = Append(@, <<window, outcome>>)]
    /\ slot' = [slot EXCEPT !.at_boundary = outcome = "line",
                            !.written = IF @ < MaxOffset THEN @ + 1 ELSE @,
                            !.failed = @ \/ slot.written = MaxOffset]
    /\ UNCHANGED <<woken, failed_on, coordinator, offset, half_closed, observed, cleared>>

\* The transport fails, perhaps after part of the window: end the requests on
\* this connection and wait for another generation.
WriteFails(some) ==
    /\ upstream = "writing"
    /\ locked' = FALSE
    /\ upstream' = "stranded" /\ woken' = FALSE
    /\ failed_on' = slot.generation
    /\ wire' = IF some THEN [wire EXCEPT ![slot.generation] = Append(@, <<window, "torn">>)]
               ELSE wire
    /\ slot' = [slot EXCEPT !.failed = TRUE]
    /\ half_closed' = half_closed \union {slot.generation}
    /\ UNCHANGED <<window, coordinator, offset, observed, cleared>>

WriteEnds ==
    \/ \E outcome \in {"line", "fragment"} : Written(outcome)
    \/ \E some \in BOOLEAN : WriteFails(some)

LookStranded ==
    /\ upstream = "stranded" /\ woken /\ ~locked
    /\ IF slot.generation = failed_on /\ ~slot.closed
         THEN woken' = FALSE /\ UNCHANGED <<upstream, window>>
         ELSE Abandon /\ UNCHANGED woken
    /\ UNCHANGED <<slot, locked, failed_on, coordinator, offset, wire, half_closed,
                   observed, cleared>>

\* The client has closed its input: the upstream thread calls shutdown().
Shutdown ==
    /\ upstream = "reading" /\ ~locked
    /\ upstream' = "done"
    /\ slot' = [slot EXCEPT !.ended = TRUE]
    /\ half_closed' = half_closed \union {slot.generation}
    /\ UNCHANGED <<locked, woken, failed_on, window, coordinator, offset, wire,
                   observed, cleared>>

-----------------------------------------------------------------------------
(* The coordinator and the closing thread.                                 *)

\* Fault: a partial record does not postpone the pause.
MayPauseAnywhere == ~(slot.paused \/ slot.failed \/ slot.ended \/ slot.closed)

\* try_pause answers None unless the last write was whole and ended a record.
MayPause ==
    ~(slot.paused \/ slot.failed \/ slot.ended \/ slot.closed \/ ~slot.at_boundary)

\* try_pause; a blocked transport write holds the lock, and the answer is None.
TryPause ==
    /\ coordinator = "idle" /\ ~locked /\ MayPause
    /\ slot' = [slot EXCEPT !.paused = TRUE]
    /\ coordinator' = "pausing"
    /\ offset' = slot.written
    /\ UNCHANGED <<locked, upstream, woken, failed_on, window, wire, half_closed,
                   observed, cleared>>

\* Fault: a connection installed after the end of input is left open.
EndedConnectionsOpen(c) == {}

\* replace_paused tells a connection that comes too late that no request will.
EndedConnections(c) == IF slot.ended \/ slot.closed THEN {c} ELSE {}

\* replace_paused; a closed slot only shuts the new writer down.
ReplacePaused(bootstrap) ==
    LET new == slot.generation + 1
    IN  /\ coordinator \in {"idle", "pausing"} /\ ~locked
        /\ new \in Connections \ half_closed
        /\ half_closed' = half_closed \union EndedConnections(new)
        /\ IF slot.closed
             THEN coordinator' = "idle" /\ UNCHANGED <<slot, woken>>
             ELSE /\ slot' = [slot EXCEPT !.generation = new, !.written = bootstrap,
                                          !.base = bootstrap, !.at_boundary = TRUE,
                                          !.failed = FALSE, !.paused = TRUE]
                  /\ coordinator' = "replaced"
                  /\ NotifyAll
        /\ UNCHANGED <<locked, upstream, failed_on, window, offset, wire, observed, cleared>>

\* The end of replace_paused, after the unlock: old.shutdown_write().
ShutdownOld ==
    /\ coordinator = "replaced"
    /\ coordinator' = "settling"
    /\ half_closed' = half_closed \union {slot.generation - 1}
    /\ UNCHANGED <<slot, locked, upstream, woken, failed_on, window, offset, wire,
                   observed, cleared>>

\* The coordinator fails or clears the requests of the old connection.
Settle ==
    /\ coordinator = "settling" /\ observed # {}
    /\ cleared' = cleared \union observed
    /\ observed' = {}
    /\ UNCHANGED <<slot, locked, upstream, woken, failed_on, window, coordinator, offset,
                   wire, half_closed>>

\* resume(): also the second half of replace_with_offset, and of replace.
Resume ==
    /\ coordinator \in {"pausing", "settling"} /\ ~locked
    /\ slot' = [slot EXCEPT !.paused = FALSE]
    /\ coordinator' = "idle"
    /\ NotifyAll
    /\ UNCHANGED <<locked, upstream, failed_on, window, offset, wire, half_closed,
                   observed, cleared>>

\* Fault: close() wakes nobody.
CloseSilently ==
    /\ ~slot.closed /\ ~locked
    /\ slot' = [slot EXCEPT !.closed = TRUE]
    /\ half_closed' = half_closed \union {slot.generation}
    /\ UNCHANGED <<locked, upstream, woken, failed_on, window, coordinator, offset, wire,
                   observed, cleared>>

\* close()
Close ==
    /\ ~slot.closed /\ ~locked
    /\ slot' = [slot EXCEPT !.closed = TRUE]
    /\ half_closed' = half_closed \union {slot.generation}
    /\ NotifyAll
    /\ UNCHANGED <<locked, upstream, failed_on, window, coordinator, offset, wire,
                   observed, cleared>>

Next ==
    \/ WriteObserved \/ WriteEnds \/ LookParked \/ LookStranded \/ Shutdown
    \/ TryPause \/ ShutdownOld \/ Settle \/ Resume \/ Close
    \/ \E bootstrap \in Bootstraps : ReplacePaused(bootstrap)

Spec == Init /\ [][Next]_vars

\* What is bound to happen: transport writes have their own deadlines, a notified
\* thread gets the lock, and a coordinator that has replaced or paused resumes.
WokenLooks == LookParked \/ LookStranded
CoordinatorGoesOn == ShutdownOld \/ Resume

-----------------------------------------------------------------------------
(* Properties.                                                             *)

\* "A failed window is never replayed": over all connections together, every
\* window goes out at most once and in the client's order; after a torn window
\* its connection carries nothing more.
WindowsOnce ==
    \A c, d \in Connections : \A i \in DOMAIN wire[c], j \in DOMAIN wire[d] :
        /\ c < d \/ (c = d /\ i < j) => wire[c][i][1] < wire[d][j][1]
        /\ wire[c][i][2] = "torn" => i = Len(wire[c])

\* Between try_pause and the next replacement the connection holds exactly the
\* bytes the coordinator was told, in whole records, and no write is going on;
\* and the requests it settles before it resumes have all been tried on a
\* connection it has given up.
PauseHolds ==
    /\ coordinator = "pausing" /\ ~slot.closed =>
          LET sent == wire[slot.generation]
          IN  /\ offset = slot.base + Len(sent)
              /\ sent # <<>> => sent[Len(sent)][2] = "line"
              /\ upstream # "writing"
    /\ coordinator \in {"replaced", "settling"} => wire[slot.generation] = <<>>
    /\ \A w \in cleared :
          w < window \/ (upstream = "stranded" /\ failed_on < slot.generation)

\* The end of the requests reaches every connection: each one that has been
\* replaced, and the current one after shutdown() or close(), is half-closed,
\* also when it is installed only afterwards.
EndIsSignalled ==
    /\ \A c \in 0..(slot.generation - 1) :
          c \in half_closed \/ (c = slot.generation - 1 /\ coordinator = "replaced")
    /\ slot.ended \/ slot.closed => slot.generation \in half_closed

\* A thread that waits for the end of a pause, for a replacement or for close()
\* is released by it.
WriterReleased ==
    /\ (upstream = "stranded" /\ (slot.generation # failed_on \/ slot.closed))
          ~> upstream \in {"reading", "done"}
    /\ <>[](slot.closed \/ ~slot.paused) => []<>(upstream # "parked")
=============================================================================

-------------------------------- MODULE Pump --------------------------------
(***************************************************************************)
(* The byte pumps of src/transport.rs: pump_upstream (copy_flushing, then  *)
(* the half-close) and pump_downstream.  Bytes are counted.  External: a   *)
(* source that ends, fails or is interrupted by signals, and a sink that   *)
(* shows only what has been flushed.                                       *)
(***************************************************************************)
EXTENDS Integers

CONSTANTS
    MaxBytes,       \* bound: bytes of a source
    MaxInterrupts   \* bound: reads interrupted by a signal

VARIABLES
    way,            \* "up" or "down"
    given,          \* bytes of the source
    left,           \* bytes the source has not handed over
    held,           \* bytes read and not written
    flushed,        \* bytes the other side can see
    interrupts,
    told,           \* whether the peer learnt that the requests ended
    lost,           \* the source failed: what was left never arrives
    result          \* "none" while the pump runs

vars == <<way, given, left, held, flushed, interrupts, told, lost, result>>

Init ==
    /\ way \in {"up", "down"}
    /\ given \in 0..MaxBytes
    /\ left = given
    /\ held = 0 /\ flushed = 0 /\ interrupts = 0
    /\ told = FALSE /\ lost = FALSE
    /\ result = "none"

\* pump_upstream half-closes the peer however the copy ended, and reports the
\* copy's error first; a transport without half-close makes `works` false.
EndUp(copied, works) ==
    /\ told' = works
    /\ result' = IF copied # "ok" THEN copied ELSE IF works THEN "ok" ELSE "shutdown_error"

\* The end of the source: upstream it ends the copy, downstream the client's
\* output is flushed once more, which may fail.
AtEof ==
    \/ way = "up" /\ \E works \in BOOLEAN : EndUp("ok", works)
    \/ /\ way = "down" /\ UNCHANGED told
       /\ \E ok \in BOOLEAN : result' = IF ok THEN "peer_closed" ELSE "client_gone"

Running == result = "none" /\ held = 0

Read ==
    /\ Running
    /\ \E n \in 1..left : held' = n /\ left' = left - n
    /\ UNCHANGED <<way, given, flushed, interrupts, told, lost, result>>

ReadEof ==
    /\ Running /\ left = 0
    /\ AtEof
    /\ UNCHANGED <<way, given, left, held, flushed, interrupts, lost>>

\* Fault: an interrupted read counts as the end of the stream.
OnInterruptEof == AtEof

\* A read interrupted by a signal is tried again.
OnInterrupt == UNCHANGED <<told, result>>

ReadInterrupted ==
    /\ Running /\ interrupts < MaxInterrupts
    /\ interrupts' = interrupts + 1
    /\ OnInterrupt
    /\ UNCHANGED <<way, given, left, held, flushed, lost>>

ReadFails ==
    /\ Running
    /\ lost' = TRUE
    /\ \/ way = "up" /\ \E works \in BOOLEAN : EndUp("copy_error", works)
       \/ way = "down" /\ result' = "peer_closed" /\ UNCHANGED told
    /\ UNCHANGED <<way, given, left, held, flushed, interrupts>>

\* write_all and flush of what was read, or their failure.
Write ==
    /\ result = "none" /\ held > 0
    /\ held' = 0
    /\ \/ flushed' = flushed + held /\ UNCHANGED <<told, result>>
       \/ /\ UNCHANGED flushed
          /\ \/ way = "up" /\ \E works \in BOOLEAN : EndUp("copy_error", works)
             \/ way = "down" /\ result' = "client_gone" /\ UNCHANGED told
    /\ UNCHANGED <<way, given, left, interrupts, lost>>

Next == Read \/ ReadEof \/ ReadInterrupted \/ ReadFails \/ Write

Spec == Init /\ [][Next]_vars

\* "Treating it as EOF would silently truncate a response": a pump that reports
\* the end of its source, or goes on reading, has passed on and flushed all it
\* was given; and success upstream means the peer knows that the requests ended.
NothingTruncated ==
    /\ result \in {"ok", "peer_closed"} /\ ~lost => flushed = given
    /\ result = "ok" => told /\ ~lost
=============================================================================

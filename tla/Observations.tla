---------------------------- MODULE Observations ----------------------------
(* Transport observations (observation.rs): counters and a bounded queue of  *)
(* events shared by wrapped streams, one blocking and one polled.  A polled  *)
(* operation stays in progress over many polls, until it is ready or its     *)
(* stream is dropped.  Recording never waits for the reader of the events.   *)
EXTENDS Integers, FiniteSets

CONSTANTS
    Blocking, Polled,   \* the streams, by kind
    EventCapacity,      \* event_capacity
    MaxEvents           \* bound: events

VARIABLES
    stream,        \* each stream: "none", "open" or "dropped"
    under,         \* the directions it has an operation under way in
    read_closed,   \* it has seen the end of its input
    connections, pending, errors,
    last_progress, \* the directions with a last_progress
    events,        \* how many events the queue holds
    lost_events,
    consumer,      \* the reader of the events has the queue locked
    happened,      \* how many events were recorded or lost
    taken,         \* how many the reader has taken
    moved          \* the directions in which bytes went

ovars == <<stream, under, read_closed, connections, pending, errors, last_progress, events,
           lost_events, consumer, happened, taken, moved>>

Streams == Blocking \cup Polled
Direction == {"Read", "Write"}

Init ==
    /\ stream = [s \in Streams |-> "none"] /\ under = [s \in Streams |-> {}]
    /\ read_closed = [s \in Streams |-> FALSE]
    /\ connections = 0
    /\ pending = [d \in Direction |-> 0] /\ errors = [d \in Direction |-> 0]
    /\ last_progress = {} /\ moved = {}
    /\ events = 0 /\ lost_events = 0 /\ consumer = FALSE
    /\ happened = 0 /\ taken = 0

-----------------------------------------------------------------------------

Silent == UNCHANGED <<events, lost_events, happened>>

\* record: into the queue if it is free and has room, and counted otherwise;
\* nothing if events are not wanted at all.
Record ==
    IF EventCapacity = 0 THEN Silent ELSE
    /\ happened < MaxEvents /\ happened' = happened + 1
    /\ IF ~consumer /\ events < EventCapacity
       THEN events' = events + 1 /\ UNCHANGED lost_events
       ELSE lost_events' = lost_events + 1 /\ UNCHANGED events

\* take_events, in two steps: the lock, and the queue emptied.
TakeEvents ==
    /\ IF consumer THEN taken' = taken + events /\ events' = 0 ELSE UNCHANGED <<taken, events>>
    /\ consumer' = ~consumer
    /\ UNCHANGED <<stream, under, read_closed, connections, pending, errors, last_progress,
                   lost_events, happened, moved>>

\* Fault: an empty transfer is progress too.
TransferredAny(d, bytes) == last_progress' = last_progress \cup {d} /\ UNCHANGED errors /\ Silent

\* transferred
Transferred(d, bytes) ==
    /\ last_progress' = IF bytes = 0 THEN last_progress ELSE last_progress \cup {d}
    /\ UNCHANGED errors /\ Silent

\* failed: Interrupted and WouldBlock only ask for another try.
Failed(d, kind) ==
    /\ UNCHANGED last_progress
    /\ IF kind = "again" THEN UNCHANGED errors /\ Silent
       ELSE errors' = [errors EXCEPT ![d] = @ + 1] /\ Record

\* snapshot, of a direction.
ProgressSnapshot(d) ==
    [pending |-> pending[d], busy |-> pending[d] # 0, progress |-> d \in last_progress]

-----------------------------------------------------------------------------
(* A stream is wrapped, and dropped.                                         *)

\* ObservedIo::new
ObservedNew(s) ==
    /\ stream' = [stream EXCEPT ![s] = "open"] /\ connections' = connections + 1
    /\ Record

\* AsyncObservedIo::new: an ObservedIo, nothing pending.
Wrap(s) ==
    /\ stream[s] = "none" /\ under[s] = {} /\ ObservedNew(s)
    /\ UNCHANGED <<under, read_closed, pending, errors, last_progress, consumer, taken, moved>>

\* ObservedIo::drop
ObservedDrop(s) ==
    /\ stream[s] = "open" /\ stream' = [stream EXCEPT ![s] = "dropped"]
    /\ connections' = connections - 1
    /\ Record

\* Fault: an operation in progress is left counted.
EndNothing(s) == UNCHANGED <<pending, under>>

\* AsyncObservedIo::drop: what is pending ends first.
EndAll(s) ==
    /\ pending' = [d \in Direction |-> pending[d] - (IF d \in under[s] THEN 1 ELSE 0)]
    /\ under' = [under EXCEPT ![s] = {}]

\* A blocking stream is dropped only between operations.
Drop(s) ==
    /\ s \in Blocking => under[s] = {}
    /\ EndAll(s) /\ ObservedDrop(s)
    /\ UNCHANGED <<read_closed, errors, last_progress, consumer, taken, moved>>

-----------------------------------------------------------------------------
(* An operation begins, and ends.                                            *)

Started == UNCHANGED <<stream, read_closed, connections, errors, last_progress, events,
                       lost_events, consumer, happened, taken, moved>>

\* Observations::begin, of a blocking call: its stream has no other.
Begin(s, d) ==
    /\ stream[s] = "open" /\ s \in Blocking /\ under[s] = {}
    /\ under' = [under EXCEPT ![s] = {d}]
    /\ pending' = [pending EXCEPT ![d] = @ + 1]
    /\ Started

\* Fault: every poll counts.
StartsEachPoll(s, d) == TRUE

\* AsyncObservedIo::begin: only an operation's first poll counts.
Starts(s, d) == d \notin under[s]

\* A poll finds its operation not ready.
PollPending(s, d) ==
    /\ stream[s] = "open" /\ s \in Polled
    /\ under' = [under EXCEPT ![s] = @ \cup {d}]
    /\ pending' = [pending EXCEPT ![d] = IF Starts(s, d) THEN @ + 1 ELSE @]
    /\ Started

\* Pending::drop
PendingDrop(s, d) ==
    /\ s \in Blocking /\ d \in under[s]
    /\ under' = [under EXCEPT ![s] = @ \ {d}]
    /\ pending' = [pending EXCEPT ![d] = @ - 1]
    /\ UNCHANGED <<stream, connections, consumer, taken>>

\* AsyncObservedIo::end, in the poll that began the operation or a later one.
PollEnd(s, d) ==
    /\ s \in Polled /\ stream[s] = "open"
    /\ under' = [under EXCEPT ![s] = @ \ {d}]
    /\ pending' = [pending EXCEPT ![d] = IF d \in under[s] THEN @ - 1 ELSE @]
    /\ UNCHANGED <<stream, connections, consumer, taken>>

\* What the transport answers: some bytes, none into an empty buffer, the end
\* of the input, or an error.
Answers == {"bytes", "empty", "end", "again", "broken"}

Moves(d, answer) == moved' = IF answer = "bytes" THEN moved \cup {d} ELSE moved

\* The first end of input is an event.
ReadClosed(s) ==
    /\ read_closed' = [read_closed EXCEPT ![s] = TRUE]
    /\ UNCHANGED <<errors, last_progress>>
    /\ Record

\* ObservedIo::read
Read(s, answer) ==
    /\ PendingDrop(s, "Read") /\ Moves("Read", answer)
    /\ IF answer = "end" /\ ~read_closed[s] THEN ReadClosed(s)
       ELSE /\ IF answer \in {"again", "broken"} THEN Failed("Read", answer)
               ELSE Transferred("Read", IF answer = "bytes" THEN 1 ELSE 0)
            /\ UNCHANGED read_closed

\* ObservedIo::write
Write(s, answer) ==
    /\ PendingDrop(s, "Write") /\ Moves("Write", answer) /\ answer # "end"
    /\ IF answer \in {"again", "broken"} THEN Failed("Write", answer)
       ELSE Transferred("Write", IF answer = "bytes" THEN 1 ELSE 0)
    /\ UNCHANGED read_closed

\* ObservedIo::flush
Flush(s, answer) ==
    /\ PendingDrop(s, "Write") /\ answer \notin {"bytes", "end"}
    /\ IF answer = "empty" THEN UNCHANGED <<errors, last_progress>> /\ Silent
       ELSE Failed("Write", answer)
    /\ UNCHANGED <<read_closed, moved>>

\* AsyncObservedIo::poll_read
PollRead(s, answer) ==
    /\ PollEnd(s, "Read") /\ Moves("Read", answer)
    /\ IF answer = "end" /\ ~read_closed[s] THEN ReadClosed(s)
       ELSE /\ IF answer \in {"again", "broken"} THEN Failed("Read", answer)
               ELSE Transferred("Read", IF answer = "bytes" THEN 1 ELSE 0)
            /\ UNCHANGED read_closed

\* AsyncObservedIo::poll_write
PollWrite(s, answer) ==
    /\ PollEnd(s, "Write") /\ Moves("Write", answer) /\ answer # "end"
    /\ IF answer \in {"again", "broken"} THEN Failed("Write", answer)
       ELSE Transferred("Write", IF answer = "bytes" THEN 1 ELSE 0)
    /\ UNCHANGED read_closed

\* AsyncObservedIo::poll_flush
PollFlush(s, answer) ==
    /\ PollEnd(s, "Write") /\ answer \notin {"bytes", "end"}
    /\ IF answer = "empty" THEN UNCHANGED <<errors, last_progress>> /\ Silent
       ELSE Failed("Write", answer)
    /\ UNCHANGED <<read_closed, moved>>

\* AsyncObservedIo::poll_shutdown
PollShutdown(s, answer) == PollFlush(s, answer)

Next ==
    \/ TakeEvents
    \/ \E s \in Streams :
          \/ Wrap(s) \/ Drop(s)
          \/ \E d \in Direction : Begin(s, d) \/ PollPending(s, d)
          \/ \E answer \in Answers :
                \/ Read(s, answer) \/ Write(s, answer) \/ Flush(s, answer)
                \/ PollRead(s, answer) \/ PollWrite(s, answer)
                \/ PollFlush(s, answer) \/ PollShutdown(s, answer)

-----------------------------------------------------------------------------

\* The counters add up: what is in progress is counted once however often it
\* is polled and no longer once it is over or its stream is gone, a direction
\* shows progress exactly if bytes went in it, and every event is in the queue,
\* with its reader or counted as lost
\* (Observations, ObservedIo, AsyncObservedIo).
CountersAddUp ==
    /\ connections = Cardinality({s \in Streams : stream[s] = "open"})
    /\ \A d \in Direction :
          LET busy == {s \in Streams : stream[s] = "open" /\ d \in under[s]} IN
          ProgressSnapshot(d) =
              [pending |-> Cardinality(busy), busy |-> busy # {}, progress |-> d \in moved]
    /\ happened = taken + events + lost_events /\ events <= EventCapacity
=============================================================================

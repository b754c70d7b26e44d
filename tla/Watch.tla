------------------------------- MODULE Watch -------------------------------
(* Lifecycle subscriptions (control.rs, control/watch.rs): what a service    *)
(* announces, the task that serves one subscriber, and the client that       *)
(* checks every event.  The service's state is read in three steps between   *)
(* which it changes.                                                         *)
EXTENDS Integers, Sequences

CONSTANTS
    Own,             \* the generation of this service
    Generations,     \* the generations that may be selected
    Builds,          \* build identities
    OwnBuild,        \* the build of this service
    Buffered         \* bound: events the connection holds before a write blocks

VARIABLES
    marked_ready,    \* ControlService::ready
    draining,        \* Lifecycle: admission is closed
    published,       \* the watch channel's value
    unseen,          \* the channel has changed since the task read it
    pending,         \* calls between their two effects: "ready", "retiring"
    task,            \* "published", "draining", "ready", "sending", "waiting", "ended"
    view,            \* what the task has read in this round
    previous,        \* the last event sent, <<>> before the first
    sequence,
    stream,          \* events on the connection
    latest,          \* WatchClient::latest, <<>> before the first
    subscriber       \* "open", "failed" (an event was refused), "gone"

wvars == <<marked_ready, draining, published, unseen, pending, task, view, previous,
           sequence, stream, latest, subscriber>>

\* None, which is below every generation.
NoSelection == -1

Nothing == [generation |-> NoSelection, build |-> "", retiring |-> FALSE]

Init ==
    /\ marked_ready = FALSE /\ draining = FALSE
    /\ published = Nothing /\ unseen = FALSE /\ pending = {}
    /\ task = "published"
    /\ view = [published |-> Nothing, draining |-> FALSE]
    /\ previous = <<>> /\ sequence = 0 /\ stream = <<>>
    /\ latest = <<>> /\ subscriber = "open"

Subscription == UNCHANGED <<task, view, previous, sequence, stream, latest, subscriber>>

-----------------------------------------------------------------------------
(* What the service does.                                                    *)

\* mark_ready: swap, and notify in a second step if the flag was clear.
MarkReady ==
    /\ ~marked_ready
    /\ marked_ready' = TRUE /\ pending' = pending \cup {"ready"}
    /\ UNCHANGED <<draining, published, unseen>> /\ Subscription

\* Publisher::notify
Notify ==
    /\ "ready" \in pending
    /\ pending' = pending \ {"ready"} /\ unseen' = TRUE
    /\ UNCHANGED <<marked_ready, draining, published>> /\ Subscription

\* A DRAIN request, or the application, closes admission.
StartDrain ==
    /\ ~draining /\ draining' = TRUE
    /\ UNCHANGED <<marked_ready, published, unseen, pending>> /\ Subscription

\* Fault: retirement is announced although admission is still open.
MarkRetiringOnly ==
    /\ "retiring" \notin pending /\ ~published.retiring
    /\ pending' = pending \cup {"retiring"}
    /\ UNCHANGED <<marked_ready, draining, published, unseen>> /\ Subscription

\* mark_retiring: admission is closed before retirement is announced.
MarkRetiring ==
    /\ "retiring" \notin pending /\ ~published.retiring
    /\ draining' = TRUE /\ pending' = pending \cup {"retiring"}
    /\ UNCHANGED <<marked_ready, published, unseen>> /\ Subscription

AnnounceRetiring ==
    /\ "retiring" \in pending
    /\ pending' = pending \ {"retiring"}
    /\ published' = [published EXCEPT !.retiring = TRUE] /\ unseen' = TRUE
    /\ UNCHANGED <<marked_ready, draining>> /\ Subscription

\* selection_committed: forward only, and a generation keeps its build.
SelectionCommitted(g, b) ==
    /\ ~(g = Own /\ b # OwnBuild)
    /\ g > published.generation
    /\ published' = [published EXCEPT !.generation = g, !.build = b] /\ unseen' = TRUE
    /\ UNCHANGED <<marked_ready, draining, pending>> /\ Subscription

-----------------------------------------------------------------------------
(* serve_watch: one round reads, compares and sends or waits.                *)

Service == UNCHANGED <<marked_ready, draining, published, pending>>

\* borrow_and_update
ReadPublished ==
    /\ task = "published"
    /\ view' = [view EXCEPT !.published = published] /\ unseen' = FALSE
    /\ task' = "draining"
    /\ UNCHANGED <<previous, sequence, stream, latest, subscriber>> /\ Service

ReadDraining ==
    /\ task = "draining"
    /\ view' = [view EXCEPT !.draining = draining]
    /\ task' = "ready"
    /\ UNCHANGED <<unseen, previous, sequence, stream, latest, subscriber>> /\ Service

\* The kinds of change between the last event and this one.
Kinds(old, new) ==
    {k \in {"Ready", "Draining", "SelectionChanged", "Retiring"} :
        CASE k = "Ready" -> new.ready /\ ~old.ready
          [] k = "Draining" -> new.draining # old.draining
          [] k = "SelectionChanged" -> new.generation # old.generation
          [] k = "Retiring" -> new.retiring # old.retiring}

Event(kind, n) ==
    [change |-> kind, sequence |-> n,
     ready |-> marked_ready /\ ~view.draining, draining |-> view.draining,
     generation |-> view.published.generation, build |-> view.published.build,
     retiring |-> view.published.retiring]

\* The last flag is read; an event is sent for what changed, with one kind or
\* as a snapshot; without a change the task waits.
Compare ==
    /\ task = "ready"
    /\ LET kinds == IF previous = <<>> THEN {"Snapshot"}
                    ELSE Kinds(previous[1], Event("Snapshot", 0))
           kind == IF \E k \in kinds : kinds = {k} THEN CHOOSE k \in kinds : TRUE
                   ELSE "Snapshot"
       IN  IF kinds = {}
           THEN task' = "waiting" /\ UNCHANGED <<previous, sequence>>
           ELSE /\ task' = "sending"
                /\ sequence' = sequence + 1
                /\ previous' = <<Event(kind, sequence + 1)>>
    /\ UNCHANGED <<unseen, view, stream, latest, subscriber>> /\ Service

Send ==
    /\ task = "sending" /\ subscriber # "gone" /\ Len(stream) < Buffered
    /\ stream' = stream \o previous
    /\ task' = "published"
    /\ UNCHANGED <<unseen, view, previous, sequence, latest, subscriber>> /\ Service

\* A subscriber that does not read for five seconds, or has gone.
SendFails ==
    /\ task = "sending" /\ (Len(stream) = Buffered \/ subscriber = "gone")
    /\ task' = "ended"
    /\ UNCHANGED <<unseen, view, previous, sequence, stream, latest, subscriber>> /\ Service

\* Fault: a wait ends for draining only.
WakeForDrain ==
    /\ task = "waiting"
    /\ ~view.draining /\ draining
    /\ task' = "published"
    /\ UNCHANGED <<unseen, view, previous, sequence, stream, latest, subscriber>> /\ Service

\* The select: a change of the channel, or draining if it was not yet seen.
Wake ==
    /\ task = "waiting"
    /\ unseen \/ (~view.draining /\ draining)
    /\ task' = "published"
    /\ UNCHANGED <<unseen, view, previous, sequence, stream, latest, subscriber>> /\ Service

\* subscription_closed
Closed ==
    /\ task = "waiting" /\ subscriber = "gone"
    /\ task' = "ended"
    /\ UNCHANGED <<unseen, view, previous, sequence, stream, latest, subscriber>> /\ Service

-----------------------------------------------------------------------------
(* WatchClient.                                                              *)

\* decode_event
Decodes(e) ==
    /\ e.generation = NoSelection => e.build = ""
    /\ e.generation = Own => e.build = OwnBuild
    /\ e.change = "SelectionChanged" => e.generation # NoSelection
    /\ ~(e.ready /\ e.draining) /\ (e.retiring => e.draining)
    /\ e.change = "Ready" => e.ready
    /\ e.change = "Draining" => e.draining
    /\ e.change = "Retiring" => e.retiring

\* WatchClient::connect wants a first snapshot, changed() a continuation.
Follows(e) ==
    IF latest = <<>>
    THEN e.sequence = 1 /\ e.change = "Snapshot"
    ELSE LET old == latest[1]
         IN  /\ e.sequence = old.sequence + 1
             /\ e.generation >= old.generation
             /\ e.generation = old.generation => e.build = old.build
             /\ old.draining => e.draining
             /\ old.retiring => e.retiring

Changed ==
    /\ subscriber = "open" /\ stream # <<>>
    /\ IF Decodes(Head(stream)) /\ Follows(Head(stream))
       THEN latest' = <<Head(stream)>> /\ UNCHANGED subscriber
       ELSE subscriber' = "failed" /\ UNCHANGED latest
    /\ stream' = Tail(stream)
    /\ UNCHANGED <<unseen, task, view, previous, sequence>> /\ Service

\* The client drops the subscription, or is cancelled inside a receive.
Unsubscribe ==
    /\ subscriber = "open" /\ subscriber' = "gone"
    /\ UNCHANGED <<unseen, task, view, previous, sequence, stream, latest>> /\ Service

Serve == ReadPublished \/ ReadDraining \/ Compare \/ Send \/ Wake

Complete == Notify \/ AnnounceRetiring

Next ==
    \/ MarkReady \/ StartDrain \/ MarkRetiring \/ Complete
    \/ \E g \in Generations, b \in Builds : SelectionCommitted(g, b)
    \/ Serve \/ SendFails \/ Closed
    \/ Changed \/ Unsubscribe

-----------------------------------------------------------------------------

\* The client accepts every event the service sends: a state put together from
\* three reads is never one that its checks call impossible, and the sequence
\* has no gap (serve_watch, decode_event, WatchClient::changed).
EventsAccepted == subscriber # "failed"

\* Every subscriber that keeps reading ends up with the final state of the
\* service: no change falls between two reads or between the last read and the
\* wait (serve_watch).
WatcherCatchesUp ==
    <>[](\/ task = "ended" \/ subscriber # "open"
         \/ /\ latest # <<>>
            /\ latest[1].ready = (marked_ready /\ ~draining)
            /\ latest[1].draining = draining
            /\ latest[1].generation = published.generation
            /\ latest[1].retiring = published.retiring)
=============================================================================

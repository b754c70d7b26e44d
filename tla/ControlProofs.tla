---------------------------- MODULE ControlProofs ----------------------------
(***************************************************************************)
(* Whatever the generations, the builds and the budgets: what MCSession    *)
(* promises of a subscription to events, of a control request, of the I/O  *)
(* under a session and of the wait for a selection holds.  Each part has   *)
(* an invariant of its own that its steps keep; a step of the whole is a   *)
(* step of one part, and leaves the others at rest.                        *)
(***************************************************************************)
EXTENDS MCSession, TLAPS

-----------------------------------------------------------------------------
(* A subscription to lifecycle events: Watch.                                *)

\* A selected generation, if there is one.
Selected == Nat \cup {Events!NoSelection}

Selections == [generation : Selected, build : Builds \cup {""}, retiring : BOOLEAN]
EventRecords ==
    [change : {"Snapshot", "Ready", "Draining", "SelectionChanged", "Retiring"},
     sequence : Nat, ready : BOOLEAN, draining : BOOLEAN,
     generation : Selected, build : Builds \cup {""}, retiring : BOOLEAN]

EventTypes ==
    /\ marked_ready \in BOOLEAN /\ draining \in BOOLEAN
    /\ published \in Selections
    /\ view \in [published : Selections, draining : BOOLEAN]
    /\ sequence \in Nat
    /\ stream \in Seq(EventRecords)
    /\ previous = <<>> \/ \E e \in EventRecords : previous = <<e>>
    /\ latest = <<>> \/ \E e \in EventRecords : latest = <<e>>

\* A selection and the later one: it only goes forward.
Earlier(a, b) ==
    /\ a.generation <= b.generation
    /\ a.generation = b.generation => a.build = b.build
    /\ a.retiring => b.retiring

NamesBuild(a) ==
    /\ a.generation = Events!NoSelection => a.build = ""
    /\ a.generation = Own => a.build = OwnBuild

\* What the task has read is an earlier state of the service, and, once it has
\* read the second flag, one in which retirement was announced after admission
\* was closed.
ViewIsTrue ==
    /\ NamesBuild(published) /\ NamesBuild(view.published)
    /\ Earlier(view.published, published)
    /\ view.draining => draining
    /\ published.retiring \/ "retiring" \in pending => draining
    /\ task # "draining" /\ view.published.retiring => view.draining

\* An event that was made before another, and before what the task knows now.
Before(d, e) == Earlier(d, e) /\ (d.draining => e.draining)
Known(e) == Earlier(e, view.published) /\ (e.draining => view.draining)

\* The client can decode it, and the first one is a snapshot.
Sound(e) == Events!Decodes(e) /\ (e.sequence = 1 => e.change = "Snapshot")

Learnt == IF latest = <<>> THEN 0 ELSE latest[1].sequence

\* The events that the client has taken, the ones on the connection and the one
\* about to be sent are one sequence without a gap, each before the next and
\* none ahead of the view.
EventsInOrder ==
    /\ \A i \in 1..Len(stream) :
          Sound(stream[i]) /\ Known(stream[i]) /\ stream[i].sequence = Learnt + i
    /\ \A i, j \in 1..Len(stream) : i < j => Before(stream[i], stream[j])
    /\ latest # <<>> => Known(latest[1]) /\ \A i \in 1..Len(stream) : Before(latest[1], stream[i])
    /\ previous # <<>> =>
          Sound(previous[1]) /\ Known(previous[1]) /\ previous[1].sequence = sequence
    /\ previous = <<>> <=> sequence = 0
    /\ task = "sending" =>
          /\ previous # <<>>
          /\ \A i \in 1..Len(stream) : Before(stream[i], previous[1])
          /\ latest # <<>> => Before(latest[1], previous[1])
    /\ task # "ended" =>
          sequence = Learnt + Len(stream) + (IF task = "sending" THEN 1 ELSE 0)

EventInv == EventTypes /\ ViewIsTrue /\ EventsInOrder /\ Events!EventsAccepted

\* Nothing has been announced at first.
LEMMA EventInit == Events!Init => EventInv
  <1> SUFFICES ASSUME Events!Init PROVE EventInv
    OBVIOUS
  <1>1. /\ Events!Nothing \in Selections /\ Events!Nothing.generation = Events!NoSelection
        /\ Events!Nothing.build = "" /\ ~Events!Nothing.retiring
    BY Zenon DEF Events!Nothing, Selections, Selected
  <1>2. /\ published = Events!Nothing /\ view.published = Events!Nothing /\ ~view.draining
        /\ view \in [published : Selections, draining : BOOLEAN]
    BY <1>1, Zenon DEF Events!Init
  <1>3. EventTypes
    <2>1. <<>> \in Seq(EventRecords)
      OBVIOUS
    <2> QED
      BY <1>1, <1>2, <2>1, Zenon DEF Events!Init, EventTypes
  <1>4. ViewIsTrue
    <2>1. Events!NoSelection # Own /\ Events!NoSelection <= Events!NoSelection
      BY GenerationsAreNumbers DEF Events!NoSelection
    <2>2. NamesBuild(Events!Nothing) /\ Earlier(Events!Nothing, Events!Nothing)
      BY <1>1, <2>1, Zenon DEF NamesBuild, Earlier
    <2> QED
      BY <1>1, <1>2, <2>2, Zenon DEF Events!Init, ViewIsTrue
  <1>5. EventsInOrder
    BY DEF Events!Init, EventsInOrder, Learnt
  <1> QED
    BY <1>3, <1>4, <1>5 DEF Events!Init, EventInv, Events!EventsAccepted

\* The order of selections and of events is transitive.
LEMMA EarlierTransitive ==
    ASSUME NEW a, NEW b, NEW c, a.generation \in Selected, b.generation \in Selected,
           c.generation \in Selected,
           Earlier(a, b), Earlier(b, c)
    PROVE  Earlier(a, c)
  BY DEF Earlier, Selected, Events!NoSelection

LEMMA EarlierReflexive ==
    ASSUME NEW a, a.generation \in Selected
    PROVE  Earlier(a, a)
  BY DEF Earlier, Selected, Events!NoSelection

\* What the service does: the subscription does not move.
LEMMA ServiceKeeps ==
    ASSUME EventInv,
           \/ Events!MarkReady \/ Events!StartDrain \/ Events!MarkRetiring \/ Events!Complete
           \/ \E g \in Generations, b \in Builds : Events!SelectionCommitted(g, b)
    PROVE  EventInv'
  <1> USE DEF EventInv
  <1>1. UNCHANGED <<task, view, previous, sequence, stream, latest, subscriber>>
    BY Zenon
       DEF Events!MarkReady, Events!StartDrain, Events!MarkRetiring, Events!Complete,
           Events!Notify,
       Events!AnnounceRetiring, Events!SelectionCommitted, Events!Subscription
  <1>2. EventsInOrder' /\ Events!EventsAccepted'
    BY <1>1 DEF EventsInOrder, Learnt, Known, Sound, Before, Events!EventsAccepted
  <1>3. CASE Events!MarkReady \/ Events!StartDrain \/ Events!MarkRetiring \/ Events!Notify
    <2>1. EventTypes'
      BY <1>1, <1>3, Zenon
         DEF Events!MarkReady, Events!StartDrain, Events!MarkRetiring, Events!Notify,
             EventTypes
    <2>2. ViewIsTrue'
      BY <1>1, <1>3, Zenon
         DEF Events!MarkReady, Events!StartDrain, Events!MarkRetiring, Events!Notify,
             ViewIsTrue, Earlier, NamesBuild
    <2> QED
      BY <1>2, <2>1, <2>2
  <1>4. CASE Events!AnnounceRetiring
    BY <1>1, <1>2, <1>4, Zenon
       DEF Events!AnnounceRetiring, EventTypes, Selections, ViewIsTrue, Earlier,
       NamesBuild
  <1>5. ASSUME NEW g \in Generations, NEW b \in Builds, Events!SelectionCommitted(g, b)
        PROVE  EventInv'
    <2>1. /\ published' \in Selections /\ published'.generation = g /\ published'.build = b
          /\ published'.retiring = published.retiring
          /\ g \in Nat /\ g > published.generation /\ (g = Own => b = OwnBuild)
      BY <1>5, GenerationsAreNumbers, Zenon
         DEF Events!SelectionCommitted, EventTypes, Selections, Selected
    <2>2. EventTypes'
      BY <1>1, <1>5, <2>1, Zenon DEF Events!SelectionCommitted, EventTypes
    <2>3. view.published.generation \in Selected /\ published.generation \in Selected
      BY Zenon DEF EventTypes, Selections
    <2>4. Earlier(view.published, published)'
      BY <1>1, <2>1, <2>3 DEF ViewIsTrue, Earlier, Selected, Events!NoSelection
    <2>5. NamesBuild(published)'
      <3>1. g # Events!NoSelection
        BY <2>1, <2>3 DEF Selected, Events!NoSelection
      <3> QED
        BY <2>1, <3>1, Zenon DEF NamesBuild
    <2>6. ViewIsTrue'
      BY <1>1, <1>5, <2>1, <2>4, <2>5, Zenon
         DEF Events!SelectionCommitted, ViewIsTrue, NamesBuild
    <2> QED
      BY <1>2, <2>2, <2>6
  <1> QED
    BY <1>3, <1>4, <1>5 DEF Events!Complete

\* A later view is not behind any event.
LEMMA ViewGrows ==
    ASSUME EventTypes, EventsInOrder, view' \in [published : Selections, draining : BOOLEAN],
           Earlier(view.published, view'.published), view.draining => view'.draining,
           UNCHANGED <<previous, sequence, stream, latest>>,
           task \notin {"sending", "ended"}, task' \notin {"sending", "ended"}
    PROVE  EventsInOrder'
  <1>1. ASSUME NEW e \in EventRecords, Known(e) PROVE Known(e)'
    <2>1. /\ e.generation \in Selected /\ view.published.generation \in Selected
          /\ view'.published.generation \in Selected
      BY Zenon DEF EventTypes, EventRecords, Selections
    <2> QED
      BY <1>1, <2>1, EarlierTransitive DEF Known
  <1>2. \A i \in 1..Len(stream) : stream[i] \in EventRecords
    BY DEF EventTypes
  <1>3. /\ previous # <<>> => previous[1] \in EventRecords
        /\ latest # <<>> => latest[1] \in EventRecords
    BY DEF EventTypes
  <1>4. Learnt' = Learnt
    BY DEF Learnt
  <1>5. /\ \A i \in 1..Len(stream) : Known(stream[i])'
        /\ previous # <<>> => Known(previous[1])'
        /\ latest # <<>> => Known(latest[1])'
    BY <1>1, <1>2, <1>3 DEF EventsInOrder
  <1> QED
    BY <1>4, <1>5 DEF EventsInOrder, Sound

\* The task reads the channel, then the flag.
LEMMA ReadsKeep ==
    ASSUME EventInv, Events!ReadPublished \/ Events!ReadDraining
    PROVE  EventInv'
  <1> USE DEF EventInv
  <1>1. /\ UNCHANGED <<previous, sequence, stream, latest, subscriber>> /\ Events!Service
        /\ task \in {"published", "draining"} /\ task' \in {"draining", "ready"}
    BY DEF Events!ReadPublished, Events!ReadDraining
  <1>2. CASE Events!ReadPublished
    <2>1. /\ view'.published = published /\ view'.draining = view.draining
          /\ view' \in [published : Selections, draining : BOOLEAN]
      BY <1>2 DEF Events!ReadPublished, EventTypes
    <2>2. EventsInOrder'
      BY <1>1, <2>1, ViewGrows DEF ViewIsTrue
    <2>3. Earlier(published, published)
      <3>1. published.generation \in Selected
        BY Zenon DEF EventTypes, Selections
      <3> QED
        BY <3>1, EarlierReflexive
    <2>4. ViewIsTrue'
      <3>1. UNCHANGED <<draining, published, pending>> /\ task' = "draining"
        BY <1>2 DEF Events!ReadPublished, Events!Service
      <3>2. Earlier(view.published, published)' /\ NamesBuild(published)'
        BY <2>1, <2>3, <3>1 DEF ViewIsTrue
      <3> QED
        BY <2>1, <3>1, <3>2 DEF ViewIsTrue
    <2> QED
      BY <1>1, <2>1, <2>2, <2>4 DEF Events!Service, EventTypes, Events!EventsAccepted
  <1>3. CASE Events!ReadDraining
    <2>1. /\ view'.published = view.published /\ view'.draining = draining
          /\ view' \in [published : Selections, draining : BOOLEAN]
      BY <1>3 DEF Events!ReadDraining, EventTypes
    <2>2. Earlier(view.published, view.published)
      <3>1. view.published.generation \in Selected
        BY Zenon DEF EventTypes, Selections
      <3> QED
        BY <3>1, EarlierReflexive
    <2>3. EventsInOrder'
      BY <1>1, <2>1, <2>2, ViewGrows DEF ViewIsTrue
    <2>4. ViewIsTrue'
      <3>1. UNCHANGED <<draining, published, pending>> /\ task' = "ready" /\ task = "draining"
        BY <1>3 DEF Events!ReadDraining, Events!Service
      <3>2. Earlier(view.published, published)' /\ NamesBuild(published)'
            /\ NamesBuild(view.published)'
        BY <2>1, <3>1 DEF ViewIsTrue
      <3>3. view.published.retiring => draining
        BY DEF ViewIsTrue, Earlier
      <3> QED
        BY <2>1, <3>1, <3>2, <3>3 DEF ViewIsTrue
    <2> QED
      BY <1>1, <2>1, <2>3, <2>4 DEF Events!Service, EventTypes, Events!EventsAccepted
  <1> QED
    BY <1>2, <1>3

\* An event says what the task has read.
LEMMA EventSays ==
    ASSUME EventTypes, NEW k \in {"Snapshot", "Ready", "Draining", "SelectionChanged",
           "Retiring"},
           NEW n \in Nat
    PROVE  LET e == Events!Event(k, n) IN
           /\ e \in EventRecords /\ e.change = k /\ e.sequence = n
           /\ e.ready <=> marked_ready /\ ~view.draining
           /\ e.draining <=> view.draining
           /\ e.generation = view.published.generation /\ e.build = view.published.build
           /\ e.retiring <=> view.published.retiring
  <1>1. /\ view.published \in Selections /\ view.draining \in BOOLEAN
        /\ (marked_ready /\ ~view.draining) \in BOOLEAN
    BY DEF EventTypes
  <1>2. /\ view.published.generation \in Selected /\ view.published.build \in Builds \cup {""}
        /\ view.published.retiring \in BOOLEAN
    BY <1>1, Zenon DEF Selections
  <1> QED
    BY <1>1, <1>2, Zenon DEF Events!Event, EventRecords

\* The event that is made: one kind of change, of which there is one, or a
\* snapshot.
LEMMA KindSays ==
    ASSUME EventInv, Events!Compare, task' = "sending"
    PROVE  \E kind \in {"Snapshot", "Ready", "Draining", "SelectionChanged", "Retiring"} :
              /\ previous' = <<Events!Event(kind, sequence + 1)>>
              /\ kind = "Snapshot" \/ (previous # <<>> /\ kind \in
                                        Events!Kinds(previous[1], Events!Event("Snapshot", 0)))
  <1> DEFINE kinds == IF previous = <<>> THEN {"Snapshot"}
                      ELSE Events!Kinds(previous[1], Events!Event("Snapshot", 0))
             kind == IF \E k \in kinds : kinds = {k} THEN CHOOSE k \in kinds : TRUE
                     ELSE "Snapshot"
  <1>1. previous' = <<Events!Event(kind, sequence + 1)>>
    BY DEF Events!Compare
  <1>2. kind = "Snapshot" \/ kind \in kinds
    OBVIOUS
  <1>3. kinds \subseteq {"Snapshot", "Ready", "Draining", "SelectionChanged", "Retiring"}
    BY Zenon DEF Events!Kinds
  <1>4. previous = <<>> => kind = "Snapshot"
    BY <1>2
  <1> HIDE DEF kind
  <1> QED
    BY <1>1, <1>2, <1>3, <1>4

\* What is made from a true view can be decoded, and continues what was sent.
LEMMA CompareKeeps ==
    ASSUME EventInv, Events!Compare
    PROVE  EventInv'
  <1> USE DEF EventInv
  <1>1. /\ task = "ready" /\ UNCHANGED <<view, stream, latest, subscriber>>
        /\ UNCHANGED <<marked_ready, draining, published, pending>>
        /\ \/ task' = "waiting" /\ UNCHANGED <<previous, sequence>>
           \/ task' = "sending" /\ sequence' = sequence + 1
    BY DEF Events!Compare, Events!Service
  <1>2. ViewIsTrue' /\ Events!EventsAccepted'
    BY <1>1, Zenon DEF ViewIsTrue, NamesBuild, Earlier, Events!EventsAccepted
  <1>3. Learnt' = Learnt /\ Learnt \in Nat /\ Len(stream) \in Nat /\ sequence \in Nat
    <2>1. latest # <<>> => latest[1] \in EventRecords
      BY DEF EventTypes
    <2>2. latest # <<>> => latest[1].sequence \in Nat
      BY <2>1, Zenon DEF EventRecords
    <2> QED
      BY <1>1, <2>2 DEF Learnt, EventTypes
  <1>4. CASE task' = "waiting"
    <2>1. EventTypes'
      BY <1>1, <1>4 DEF EventTypes
    <2>2. EventsInOrder'
      BY <1>1, <1>3, <1>4 DEF EventsInOrder, Sound, Known
    <2> QED
      BY <1>2, <2>1, <2>2
  <1>5. CASE task' = "sending"
    <2>1. PICK kind \in {"Snapshot", "Ready", "Draining", "SelectionChanged", "Retiring"} :
             /\ previous' = <<Events!Event(kind, sequence + 1)>>
             /\ kind = "Snapshot" \/ (previous # <<>> /\ kind \in
                                       Events!Kinds(previous[1], Events!Event("Snapshot", 0)))
      BY <1>5, KindSays
    <2> DEFINE e == Events!Event(kind, sequence + 1)
               new == Events!Event("Snapshot", 0)
    <2>2. /\ e \in EventRecords /\ e.change = kind /\ e.sequence = sequence + 1
          /\ e.ready <=> marked_ready /\ ~view.draining
          /\ e.draining <=> view.draining
          /\ e.generation = view.published.generation /\ e.build = view.published.build
          /\ e.retiring <=> view.published.retiring
      BY <1>3, EventSays
    <2>3. /\ new \in EventRecords
          /\ new.ready <=> e.ready
          /\ new.draining <=> e.draining
          /\ new.generation = e.generation
          /\ new.retiring <=> e.retiring
      BY <2>2, EventSays
    <2>4. kind # "Snapshot" =>
             /\ previous[1] \in EventRecords /\ Known(previous[1])
             /\ kind \in Events!Kinds(previous[1], new)
      BY <2>1 DEF EventTypes, EventsInOrder
    <2> HIDE DEF e, new
    <2>5. view.published.generation \in Selected
      BY Zenon DEF EventTypes, Selections
    <2>6. Events!Decodes(e)
      <3>1. /\ e.generation = Events!NoSelection => e.build = ""
            /\ e.generation = Own => e.build = OwnBuild
        BY <2>2, Zenon DEF ViewIsTrue, NamesBuild
      <3>2. ~(e.ready /\ e.draining) /\ (e.retiring => e.draining)
        BY <1>1, <2>2 DEF ViewIsTrue
      <3>3. kind = "SelectionChanged" => e.generation # Events!NoSelection
        <4>1. kind = "SelectionChanged" => new.generation # previous[1].generation
          BY <2>4 DEF Events!Kinds
        <4>2. kind = "SelectionChanged" =>
                 previous[1].generation \in Selected /\ previous[1].generation <= e.generation
          BY <2>2, <2>4, Zenon DEF Known, Earlier, EventRecords
        <4> QED
          BY <2>2, <2>3, <2>5, <4>1, <4>2 DEF Selected, Events!NoSelection
      <3>4. kind = "Ready" => e.ready
        BY <2>3, <2>4 DEF Events!Kinds
      <3>5. kind = "Draining" => e.draining
        BY <2>2, <2>3, <2>4, Zenon DEF Events!Kinds, Known, EventRecords
      <3>6. kind = "Retiring" => e.retiring
        BY <2>2, <2>3, <2>4, Zenon DEF Events!Kinds, Known, Earlier, EventRecords
      <3> QED
        BY <2>2, <3>1, <3>2, <3>3, <3>4, <3>5, <3>6, Zenon
           DEF Events!Decodes, Events!NoSelection
    <2>7. Sound(e)
      BY <1>3, <2>1, <2>2, <2>6 DEF Sound, EventsInOrder
    <2>8. Known(e)
      BY <2>2, <2>5 DEF Known, Earlier, Selected, Events!NoSelection
    <2>9. \A x : Known(x) => Before(x, e)
      BY <2>2 DEF Known, Before, Earlier
    <2>10. PICK ev \in EventRecords : ev = e
      BY <2>2
    <2>11. previous' = <<ev>> /\ previous'[1] = ev /\ previous' # <<>>
      BY <2>1, <2>10 DEF e
    <2>12. EventTypes'
      BY <1>1, <1>3, <1>5, <2>11 DEF EventTypes
    <2>13. EventsInOrder'
      <3>1. Sound(ev)' /\ Known(ev)' /\ ev.sequence = sequence'
        BY <1>1, <1>5, <2>2, <2>7, <2>8, <2>10 DEF Sound, Known
      <3>2. \A x : Known(x) => Known(x)' /\ Before(x, ev)
        BY <1>1, <2>9, <2>10 DEF Known
      <3>3. sequence' # 0 /\ sequence' = Learnt + Len(stream) + 1
        BY <1>1, <1>3, <1>5 DEF EventsInOrder
      <3> QED
        BY <1>1, <1>3, <1>5, <2>11, <3>1, <3>2, <3>3 DEF EventsInOrder, Sound
    <2> QED
      BY <1>2, <2>12, <2>13
  <1> QED
    BY <1>1, <1>4, <1>5

\* What the client has received is counted by its latest event.
LEMMA LearntIsNatural ==
    ASSUME EventTypes
    PROVE  Learnt \in Nat /\ (latest # <<>> => latest[1] \in EventRecords)
  <1>1. latest # <<>> => latest[1] \in EventRecords
    BY DEF EventTypes
  <1>2. latest # <<>> => latest[1].sequence \in Nat
    BY <1>1, Zenon DEF EventRecords
  <1> QED
    BY <1>1, <1>2 DEF Learnt

\* The event goes on the connection.
LEMMA SendKeeps ==
    ASSUME EventInv, Events!Send
    PROVE  EventInv'
  <1> USE DEF EventInv
  <1>1. /\ task = "sending" /\ task' = "published" /\ stream' = stream \o previous
        /\ UNCHANGED <<view, previous, sequence, latest, subscriber>>
        /\ UNCHANGED <<marked_ready, draining, published, pending>>
    BY DEF Events!Send, Events!Service
  <1>2. PICK p \in EventRecords : previous = <<p>>
    BY <1>1 DEF EventTypes, EventsInOrder
  <1>3. /\ stream \in Seq(EventRecords) /\ stream' = Append(stream, p) /\ previous[1] = p
        /\ Learnt \in Nat
    BY <1>1, <1>2, LearntIsNatural DEF EventTypes
  <1>4. /\ stream' \in Seq(EventRecords) /\ Len(stream') = Len(stream) + 1
        /\ \A i \in 1..Len(stream) : stream'[i] = stream[i]
        /\ stream'[Len(stream) + 1] = p
        /\ Len(stream) \in Nat
    BY <1>3
  <1>5. EventTypes' /\ ViewIsTrue' /\ Events!EventsAccepted'
    BY <1>1, <1>4, Zenon DEF EventTypes, ViewIsTrue, NamesBuild, Earlier, Events!EventsAccepted
  <1>6. Learnt' = Learnt
    BY <1>1 DEF Learnt
  <1>7. /\ Sound(p) /\ Known(p) /\ p.sequence = Learnt + Len(stream) + 1
        /\ \A i \in 1..Len(stream) : Before(stream[i], p)
        /\ latest # <<>> => Before(latest[1], p)
    BY <1>1, <1>2, <1>3 DEF EventsInOrder
  <1>8. \A x : Known(x) => Known(x)'
    BY <1>1 DEF Known
  <1>9. \A i \in 1..Len(stream') :
           Sound(stream'[i]) /\ Known(stream[i])' /\ stream'[i].sequence = Learnt + i
    <2> TAKE i \in 1..Len(stream')
    <2>1. CASE i \in 1..Len(stream)
      BY <1>4, <1>8, <2>1 DEF EventsInOrder
    <2>2. CASE i = Len(stream) + 1
      BY <1>3, <1>4, <1>7, <1>8, <2>2
    <2> QED
      BY <1>4, <2>1, <2>2
  <1>10. \A i, j \in 1..Len(stream') : i < j => Before(stream'[i], stream'[j])
    <2> TAKE i, j \in 1..Len(stream')
    <2>1. CASE i \in 1..Len(stream) /\ j \in 1..Len(stream)
      BY <1>4, <2>1 DEF EventsInOrder
    <2>2. CASE i \in 1..Len(stream) /\ j = Len(stream) + 1
      BY <1>4, <1>7, <2>2
    <2> QED
      BY <1>4, <2>1, <2>2
  <1>11. latest # <<>> => \A i \in 1..Len(stream') : Before(latest[1], stream'[i])
    <2> SUFFICES ASSUME latest # <<>>, NEW i \in 1..Len(stream')
                 PROVE  Before(latest[1], stream'[i])
      OBVIOUS
    <2>1. CASE i \in 1..Len(stream)
      BY <1>4, <2>1 DEF EventsInOrder
    <2>2. CASE i = Len(stream) + 1
      BY <1>4, <1>7, <2>2, SMTT(30)
    <2> QED
      BY <1>4, <2>1, <2>2
  <1>12. EventsInOrder'
    BY <1>1, <1>3, <1>4, <1>6, <1>8, <1>9, <1>10, <1>11 DEF EventsInOrder, Sound
  <1> QED
    BY <1>5, <1>12

\* The client takes an event: it always can.
LEMMA ChangedKeeps ==
    ASSUME EventInv, Events!Changed
    PROVE  EventInv'
  <1> USE DEF EventInv
  <1>1. /\ stream # <<>> /\ stream' = Tail(stream) /\ stream \in Seq(EventRecords)
        /\ UNCHANGED <<task, view, previous, sequence>>
        /\ UNCHANGED <<marked_ready, draining, published, pending>>
    BY DEF Events!Changed, Events!Service, EventTypes
  <1>2. PICK h \in EventRecords : h = Head(stream) /\ h = stream[1]
    BY <1>1
  <1>3. /\ stream' \in Seq(EventRecords) /\ Len(stream) \in Nat \ {0}
        /\ Len(stream') = Len(stream) - 1
        /\ \A i \in 1..Len(stream') : i + 1 \in 1..Len(stream) /\ stream'[i] = stream[i + 1]
    BY <1>1
  <1>4. /\ Sound(h) /\ Known(h) /\ h.sequence = Learnt + 1 /\ Learnt \in Nat
        /\ latest # <<>> => Before(latest[1], h) /\ latest[1] \in EventRecords
    BY <1>2, <1>3, LearntIsNatural DEF EventsInOrder
  <1>5. Events!Follows(h)
    <2>1. CASE latest = <<>>
      BY <1>4, <2>1 DEF Events!Follows, Sound, Learnt
    <2>2. CASE latest # <<>>
      <3>1. h.sequence = latest[1].sequence + 1
        BY <1>4, <2>2 DEF Learnt
      <3>2. h.generation >= latest[1].generation
        BY <1>4, <2>2, Zenon DEF Before, Earlier, EventRecords
      <3> QED
        BY <1>4, <2>2, <3>1, <3>2 DEF Events!Follows, Before, Earlier
    <2> QED
      BY <2>1, <2>2
  <1>6. latest' = <<h>> /\ UNCHANGED subscriber
    BY <1>2, <1>4, <1>5 DEF Events!Changed, Sound
  <1>7. latest'[1] = h /\ latest' # <<>> /\ Learnt' = Learnt + 1
    BY <1>4, <1>6 DEF Learnt
  <1>8. EventTypes' /\ ViewIsTrue' /\ Events!EventsAccepted'
    BY <1>1, <1>3, <1>6, Zenon
       DEF EventTypes, ViewIsTrue, NamesBuild, Earlier, Events!EventsAccepted
  <1>9. \A x : Known(x) => Known(x)'
    BY <1>1 DEF Known
  <1>10. \A i \in 1..Len(stream') :
            /\ Sound(stream'[i]) /\ Known(stream[i])' /\ stream'[i].sequence = Learnt + 1 + i
            /\ Before(h, stream'[i])
    <2> TAKE i \in 1..Len(stream')
    <2>1. i + 1 \in 1..Len(stream) /\ stream'[i] = stream[i + 1] /\ 1 \in 1..Len(stream)
          /\ 1 < i + 1
      BY <1>3
    <2>2. stream[i + 1].sequence = Learnt + (i + 1) /\ Sound(stream[i + 1])
          /\ Known(stream[i + 1])
          /\ Before(stream[1], stream[i + 1])
      BY <2>1 DEF EventsInOrder
    <2> QED
      BY <1>2, <1>4, <1>9, <2>1, <2>2, SMTT(30)
  <1>11. \A i, j \in 1..Len(stream') : i < j => Before(stream'[i], stream'[j])
    BY <1>3 DEF EventsInOrder
  <1>12. task = "sending" =>
            /\ \A i \in 1..Len(stream') : Before(stream'[i], previous[1])
            /\ Before(h, previous[1])
    BY <1>2, <1>3 DEF EventsInOrder
  <1>13. task # "ended" =>
            sequence = Learnt + 1 + Len(stream') + (IF task = "sending" THEN 1 ELSE 0)
    BY <1>3, <1>4, SMTT(30) DEF EventsInOrder
  <1>14. EventsInOrder'
    BY <1>1, <1>4, <1>7, <1>9, <1>10, <1>11, <1>12, <1>13 DEF EventsInOrder, Sound
  <1> QED
    BY <1>8, <1>14

\* Every step of the service, the task and the client keeps the invariant.
LEMMA EventStep ==
    ASSUME EventInv, [Events!Next]_event_vars
    PROVE  EventInv'
  <1>1. CASE Events!SendFails \/ Events!Wake \/ Events!Closed \/ Events!Unsubscribe
             \/ UNCHANGED event_vars
    <2>1. /\ UNCHANGED <<view, previous, sequence, stream, latest>>
          /\ UNCHANGED <<marked_ready, draining, published, pending>>
          /\ \/ task' = task
             \/ task \in {"sending", "waiting"} /\ task' = "ended"
             \/ task = "waiting" /\ task' = "published"
          /\ subscriber' \in {subscriber, "gone"}
      BY <1>1
         DEF Events!SendFails, Events!Wake, Events!Closed, Events!Unsubscribe, Events!Service,
         event_vars
    <2>4. EventTypes'
      BY <2>1, Zenon DEF EventInv, EventTypes
    <2>2. ViewIsTrue' /\ Events!EventsAccepted'
      BY <2>1, Zenon DEF EventInv, ViewIsTrue, NamesBuild, Earlier, Events!EventsAccepted
    <2>3. EventsInOrder'
      BY <2>1 DEF EventInv, EventsInOrder, Sound, Known, Learnt
    <2> QED
      BY <2>2, <2>3, <2>4 DEF EventInv
  <1> QED
    BY <1>1, ServiceKeeps, ReadsKeep, CompareKeeps, SendKeeps, ChangedKeeps
       DEF Events!Next, Events!Serve

-----------------------------------------------------------------------------
(* A control request: Request.                                               *)

\* An attempt that has passed authentication is connected to one process, of
\* this user and the expected one; what that process answered is true; and a
\* request that some service may have executed is past the attempts that are
\* repeated.
AskInv ==
    /\ \A c, d \in endpoint : c = d
    /\ \A c, d \in connection : c = d
    /\ step \in {"exchange", "Protocol"} =>
          \A c \in connection : c.listener \in OwnUser /\ expected \subseteq {c.listener}
    /\ step = "exchange" => connection # {}
    /\ \A r \in reply : operation = "DRAIN" => r.draining /\ r.process_id \in drained
    /\ handled \in {0, 1}
    /\ reply = {} => handled = 0
    /\ step \in {"connect", "authenticate", "Unavailable"} => reply = {}
    /\ Ask!AnswersAreTrue

\* Nobody is connected at first.
LEMMA AskInit == Ask!Init => AskInv
  BY DEF Ask!Init, AskInv, Ask!AnswersAreTrue

\* What the invariant says of repeated requests.
LEMMA AskPromise == AskInv => Ask!AnswersAreTrue /\ Ask!NeverReplayed
  BY DEF AskInv, Ask!NeverReplayed

\* Every step of the request, the service and the endpoint keeps the invariant.
LEMMA AskStep ==
    ASSUME AskInv, [Ask!Next]_ask_vars
    PROVE  AskInv'
  <1> USE DEF AskInv, Ask!AnswersAreTrue, Ask!Client, Ask!World, Ask!Outcome
  <1>1. CASE Ask!Move
    BY <1>1, SMTT(30) DEF Ask!Move
  <1>2. CASE Ask!DeadlinePasses \/ Ask!ExchangeFails
    BY <1>2 DEF Ask!DeadlinePasses, Ask!ExchangeFails
  <1>3. CASE Ask!Handle
    <2>1. PICK c \in connection :
             /\ drained' = IF operation = "DRAIN" THEN drained \cup {c.server} ELSE drained
             /\ reply' = {[process_id |-> c.server, draining |-> c.server \in drained']}
      BY <1>3, Zenon DEF Ask!Handle
    <2>2. drained \subseteq drained' /\ (operation = "DRAIN" => c.server \in drained')
      BY <2>1
    <2>3. \A r \in reply' : operation = "DRAIN" => r.draining /\ r.process_id \in drained'
      <3>1. TAKE r \in reply'
      <3>2. r = [process_id |-> c.server, draining |-> c.server \in drained']
        BY <2>1
      <3>3. r.process_id = c.server /\ r.draining = (c.server \in drained')
        BY <3>2, Zenon
      <3> QED
        BY <2>2, <3>3, Zenon
    <2>4. UNCHANGED <<endpoint, connection, step, operation, expected, health>>
      BY <1>3 DEF Ask!Handle
    <2>5. Ask!AnswersAreTrue'
      BY <2>2, <2>4
    <2>6. handled' = 1 /\ reply' # {} /\ step \in {"exchange", "Protocol"}
      BY <1>3, <2>1 DEF Ask!Handle
    <2> QED
      BY <2>3, <2>4, <2>5, <2>6
  <1>4. CASE Ask!Connect
    BY <1>4, SMTT(30) DEF Ask!Connect, Ask!ConnectErrors, Ask!ConnectError, Ask!IsTransient
  <1>5. CASE Ask!Authenticate
    <2>1. step' = "exchange" =>
             /\ connection # {}
             /\ \A c \in connection : c.listener \in OwnUser /\ expected \subseteq {c.listener}
      <3>1. SUFFICES ASSUME step' = "exchange"
                     PROVE  /\ connection # {}
                            /\ \A c \in connection :
                                  c.listener \in OwnUser /\ expected \subseteq {c.listener}
        OBVIOUS
      <3>2. PICK c \in Ask!Credentials : c.same_user /\ c.pid # NoPid /\ expected \subseteq {c.pid}
        BY <1>5, <3>1 DEF Ask!Authenticate, Ask!ExpectedProcess, Ask!SameUser, Ask!MatchPid
      <3>3. PICK d \in connection : d.listener \in OwnUser
        <4>1. PICK d \in connection, p \in {NoPid} \cup {f.listener : f \in connection} :
                 c = [pid |-> p, same_user |-> d.listener \in OwnUser]
          BY DEF Ask!Credentials
        <4>2. d.listener \in OwnUser
          BY <3>2, <4>1, Zenon
        <4> QED
          BY <4>2
      <3>4. PICK e \in connection : c.pid = e.listener
        BY <3>2 DEF Ask!Credentials
      <3> QED
        BY <3>2, <3>3, <3>4
    <2>2. step' \in {"Credentials", "Peer", "Late", "exchange"}
      BY <1>5 DEF Ask!Authenticate
    <2> QED
      BY <1>5, <2>1, <2>2 DEF Ask!Authenticate
  <1>6. CASE Ask!Receive
    BY <1>6 DEF Ask!Receive, Ask!Trustworthy
  <1>7. CASE Ask!Again
    BY <1>7 DEF Ask!Again, Ask!Transient
  <1>8. CASE UNCHANGED ask_vars
    BY <1>8 DEF ask_vars
  <1> QED
    BY <1>1, <1>2, <1>3, <1>4, <1>5, <1>6, <1>7, <1>8, Zenon DEF Ask!Next

-----------------------------------------------------------------------------
(* The setup of a connection and a transfer on a pipe: SetupIo.              *)

\* On a socket the mode follows the reader's deadline; who holds the transition
\* lock is inside a bounded write or between making the socket blocking and
\* ending setup, so a writer that finds setup active under the lock finds the
\* socket nonblocking; and the reader reads only while it does not clear.
SetupInv ==
    /\ socket => (nonblocking <=> bounded)
    /\ bounded => active
    /\ active => bounded \/ clearing = "blocking"
    /\ clearing = "blocking" => ~bounded
    /\ socket /\ writing \in {"locked", "bounded"} => transition = "writer"
    /\ clearing = "locked" \/ (socket /\ clearing = "blocking") => transition = "reader"
    /\ writing \in {"locking", "locked"} \/ clearing = "locked" => socket
    /\ socket /\ writing = "bounded" => bounded
    /\ writing = "plain" => ~bounded
    /\ reading # "idle" => clearing \in {"idle", "failed"}
    /\ reading = "bounded" => bounded
    /\ reading = "plain" => ~bounded
    /\ due \in {"later", "soon", "past"}
    /\ writing = "failed" \/ reading = "failed" => due # "later" /\ (socket => due = "past")

\* The halves begin with the mode that the deadline asks for.
LEMMA SetupInit == Setup!Init => SetupInv
  BY DEF Setup!Init, Setup!set_read_deadline, Setup!split_windows, SetupInv

\* What the invariant says of modes.
LEMMA SetupPromise == SetupInv => Setup!ModesMatch
  BY DEF SetupInv, Setup!ModesMatch

\* Every step of the halves, the clock and the peer keeps the invariant.
LEMMA SetupStep ==
    ASSUME SetupInv, [Setup!Next]_setup_vars
    PROVE  SetupInv'
  <1> USE DEF SetupInv, Setup!Socket, Setup!Writer, Setup!Clock, Setup!Halves, Setup!GivesUp,
          Setup!InTime
  <1>1. CASE Setup!FirstLook \/ Setup!TakeTransition \/ Setup!SecondLook
    BY <1>1 DEF Setup!FirstLook, Setup!TakeTransition, Setup!SecondLook
  <1>2. CASE Setup!BoundedWrite \/ Setup!WindowsWrite \/ Setup!PlainWrite
    BY <1>2 DEF Setup!BoundedWrite, Setup!WindowsWrite, Setup!PlainWrite
  <1>3. CASE Setup!Read \/ Setup!WindowsRead \/ Setup!ReadUntil \/ Setup!PlainRead
    BY <1>3 DEF Setup!Read, Setup!WindowsRead, Setup!ReadUntil, Setup!PlainRead
  <1>4. CASE Setup!BeginClear \/ Setup!LockToClear \/ Setup!ClearFails
    BY <1>4 DEF Setup!BeginClear, Setup!LockToClear, Setup!ClearFails
  <1>5. CASE Setup!MakeBlocking
    BY <1>5 DEF Setup!MakeBlocking
  <1>6. CASE Setup!EndSetup \/ Setup!WindowsClear
    BY <1>6 DEF Setup!EndSetup, Setup!WindowsClear
  <1>7. CASE Setup!DeadlinePasses \/ Setup!PeerMoves
    BY <1>7 DEF Setup!DeadlinePasses, Setup!PeerMoves
  <1>8. CASE UNCHANGED setup_vars
    BY <1>8 DEF setup_vars
  <1> QED
    BY <1>1, <1>2, <1>3, <1>4, <1>5, <1>6, <1>7, <1>8, Zenon
       DEF Setup!Next, Setup!Write, Setup!Clear

\* A transfer that has not begun is unknown to the kernel, one whose event is
\* set is no longer pending, and neither is one that has returned.
TransferInv ==
    /\ transfer = "begin" => kernel = "none" /\ ~signalled
    /\ signalled => kernel # "pending"
    /\ transfer = "returned" => kernel # "pending"

\* A transfer has not begun at first.
LEMMA TransferInit == Setup!TransferInit => TransferInv
  BY Zenon DEF Setup!TransferInit, TransferInv

\* What the invariant says of the caller's buffer.
LEMMA TransferPromise == TransferInv => Setup!BufferIsReturned
  BY DEF TransferInv, Setup!BufferIsReturned

\* Every step of the transfer and of the kernel keeps the invariant.
LEMMA TransferStep ==
    ASSUME TransferInv, [Setup!TransferNext]_pipe_vars
    PROVE  TransferInv'
  <1> USE DEF TransferInv, Setup!Return
  <1>1. CASE Setup!Start
    BY <1>1 DEF Setup!Start
  <1>2. CASE Setup!Complete \/ Setup!Cancelled
    BY <1>2 DEF Setup!Complete, Setup!Cancelled
  <1>3. CASE Setup!Wait
    BY <1>3 DEF Setup!Wait
  <1>4. CASE Setup!Cancel \/ Setup!Reap
    BY <1>4 DEF Setup!Cancel, Setup!Reap, Setup!Terminal
  <1>5. CASE UNCHANGED pipe_vars
    BY <1>5 DEF pipe_vars
  <1> QED
    BY <1>1, <1>2, <1>3, <1>4, <1>5 DEF Setup!TransferNext

-----------------------------------------------------------------------------
(* The wait for a selection: Selection.                                      *)

\* Times that the wait knows have passed, and there is at most one of each kind.
ChoiceTimes ==
    /\ Choice!TypeOK
    /\ readAt <= elapsed
    /\ \A t \in named : t <= elapsed
    /\ \A s, t \in named : s = t
    /\ committedAt = {} \/ \E at \in 0..elapsed : committedAt = {at}

\* A noted commit is one that the record named by then; what a round has read it
\* read at readAt, so a commit that it has not seen came later; the bound of a
\* probe is that of the commit noted; and a call that waits has no result.
ChoiceKnows ==
    /\ \A at \in committedAt : named # {} /\ \A t \in named : t <= at
    /\ round = "note" /\ seen => named # {} /\ \A t \in named : t <= readAt
    /\ round = "note" /\ ~seen /\ committedAt = {} => \A t \in named : t >= readAt
    /\ round \in {"probe", "answer"} =>
          /\ committedAt = {} => \A t \in named : t >= readAt
          /\ until = Choice!WatchUntil(committedAt)
    /\ round # "returned" => result = "Waiting"
    /\ result = "Committed" => committedAt # {}

ChoiceInv ==
    /\ ChoiceTimes /\ ChoiceKnows
    /\ Choice!EvidenceIsReal /\ Choice!BudgetsAreUsed /\ Choice!MissedCommitIsNew

\* Watch::until, before a commit is noted and after.
LEMMA UntilOf ==
    ASSUME ChoiceTimes
    PROVE  /\ Choice!WatchUntil({}) = CommitBudget
           /\ Choice!WatchUntil(committedAt) \in 0..CommitBudget
           /\ \A at \in Nat :
                Choice!WatchUntil({at}) =
                    IF at + proofBudget < CommitBudget THEN at + proofBudget ELSE CommitBudget
  <1>1. CommitBudget \in Nat /\ proofBudget \in Nat
    BY BudgetsAreTimes DEF ChoiceTimes, Choice!TypeOK
  <1>2. Choice!WatchUntil({}) = CommitBudget
    BY DEF Choice!WatchUntil
  <1>3. \A at \in Nat :
           Choice!WatchUntil({at}) =
                IF at + proofBudget < CommitBudget THEN at + proofBudget ELSE CommitBudget
    <2>1. TAKE at \in Nat
    <2>2. (CHOOSE t \in {at} : TRUE) = at
      OBVIOUS
    <2> QED
      BY <1>1, <2>2 DEF Choice!WatchUntil, Choice!Min
  <1>4. committedAt = {} \/ \E at \in Nat : committedAt = {at}
    BY <1>1 DEF ChoiceTimes, Choice!TypeOK
  <1> QED
    BY <1>1, <1>2, <1>3, <1>4

\* The wait begins without knowing anything.
LEMMA ChoiceInit == Choice!Init => ChoiceInv
  <1> SUFFICES ASSUME Choice!Init PROVE ChoiceInv
    OBVIOUS
  <1>1. Choice!TypeOK
    <2>1. 0 \in 0..Choice!Horizon /\ 0 \in 0..CommitBudget
      BY BudgetsAreTimes DEF Choice!Horizon
    <2>2. named \in SUBSET (0..Choice!Horizon)
      BY <2>1 DEF Choice!Init
    <2> QED
      BY <2>1, <2>2, Zenon DEF Choice!Init, Choice!TypeOK, Choice!Results
  <1>2. ChoiceTimes
    BY <1>1 DEF Choice!Init, ChoiceTimes
  <1>3. ChoiceKnows
    BY DEF Choice!Init, ChoiceKnows
  <1> QED
    BY <1>2, <1>3 DEF Choice!Init, ChoiceInv, Choice!EvidenceIsReal, Choice!BudgetsAreUsed,
       Choice!MissedCommitIsNew

\* A decision returns evidence, gives up when the budget of what it noted is
\* used, or waits.
LEMMA DecideKeeps ==
    ASSUME ChoiceInv, round \in {"probe", "answer"},
           NEW proven \in BOOLEAN, proven => reached /\ elapsed < until, Choice!Decide(proven)
    PROVE  ChoiceInv'
  <1>1. CommitBudget \in Nat /\ proofBudget \in Nat /\ PollInterval \in Nat /\ elapsed \in Nat
    BY BudgetsAreTimes DEF ChoiceInv, ChoiceTimes, Choice!TypeOK, Choice!Horizon
  <1>2. UNCHANGED <<runner, proofBudget, elapsed, named, serving, seen, committedAt, readAt,
                    until, reached>>
    BY DEF Choice!Decide
  <1>3. \/ proven /\ round' = "returned" /\ result' = "Current" /\ nap' = nap
        \/ /\ elapsed >= until /\ round' = "returned" /\ nap' = nap
           /\ result' = IF committedAt = {} THEN "NotCommitted" ELSE "Committed"
        \/ round' = "wait" /\ result' = result /\ nap' \in Nat
    BY <1>1, UntilOf DEF Choice!Decide, Choice!Return, Choice!Min, ChoiceInv, ChoiceKnows
  <1>4. ChoiceTimes'
    BY <1>1, <1>2, <1>3
       DEF ChoiceInv, ChoiceTimes, Choice!TypeOK, Choice!Horizon, Choice!Results
  <1>5. ChoiceKnows'
    BY <1>2, <1>3 DEF ChoiceInv, ChoiceKnows
  <1>6. \A at \in committedAt : committedAt = {at} /\ at \in Nat
    BY <1>1 DEF ChoiceInv, ChoiceTimes
  <1>7. Choice!EvidenceIsReal'
    BY <1>1, <1>2, <1>3, <1>6, UntilOf DEF ChoiceInv, ChoiceKnows, Choice!EvidenceIsReal
  <1>8. Choice!BudgetsAreUsed'
    BY <1>1, <1>2, <1>3, <1>6, UntilOf DEF ChoiceInv, ChoiceKnows, Choice!BudgetsAreUsed
  <1>9. Choice!MissedCommitIsNew'
    BY <1>2, <1>3 DEF ChoiceInv, ChoiceKnows, Choice!MissedCommitIsNew
  <1> QED
    BY <1>4, <1>5, <1>7, <1>8, <1>9 DEF ChoiceInv

\* Every step of the wait, the record, the candidate and the clock keeps the
\* invariant.
LEMMA ChoiceStep ==
    ASSUME ChoiceInv, [Choice!Next]_choice_vars
    PROVE  ChoiceInv'
  <1>1. CommitBudget \in Nat /\ proofBudget \in Nat /\ elapsed \in Nat /\ readAt \in Nat
    BY BudgetsAreTimes, SMTT(30) DEF ChoiceInv, ChoiceTimes, Choice!TypeOK, Choice!Horizon
  <1> USE DEF ChoiceInv, ChoiceTimes, ChoiceKnows, Choice!TypeOK, Choice!Horizon,
  Choice!Results,
        Choice!EvidenceIsReal, Choice!BudgetsAreUsed, Choice!MissedCommitIsNew
  <1>2. CASE Choice!Commit
    BY <1>1, <1>2 DEF Choice!Commit, Choice!WatchUntil
  <1>3. CASE Choice!Toggle
    BY <1>1, <1>3, SMTT(30) DEF Choice!Toggle, Choice!WatchUntil
  <1>4. CASE Choice!Tick
    BY <1>1, <1>4, SMTT(30) DEF Choice!Tick, Choice!WatchUntil
  <1>5. CASE Choice!ReadRecord
    <2>1. /\ seen' \in BOOLEAN /\ readAt' = elapsed /\ round' = "note"
          /\ seen' => named # {}
          /\ committedAt = {} /\ ~seen' => named = {}
          /\ UNCHANGED <<runner, proofBudget, elapsed, named, serving, committedAt, until, reached,
                         nap, result>>
      BY <1>5, Zenon DEF Choice!ReadRecord
    <2>2. ChoiceTimes'
      BY <1>1, <2>1
    <2>3. ChoiceKnows'
      BY <1>1, <1>5, <2>1, SMTT(30) DEF Choice!ReadRecord
    <2> QED
      BY <1>1, <1>5, <2>1, <2>2, <2>3 DEF Choice!ReadRecord
  <1>6. CASE Choice!NoteRecord
    <2>1. /\ round = "note" /\ round' = "probe" /\ reached' = FALSE
          /\ until' = Choice!WatchUntil(committedAt')
          /\ UNCHANGED <<runner, proofBudget, elapsed, named, serving, seen, readAt, nap, result>>
      BY <1>6 DEF Choice!NoteRecord
    <2>2. \/ committedAt' = {elapsed} /\ seen
          \/ committedAt' = committedAt /\ (seen => committedAt # {})
      BY <1>6 DEF Choice!NoteRecord, Choice!WatchRecord
    <2>3. until' \in 0..CommitBudget
      BY <1>1, <2>1, <2>2, UntilOf
    <2>4. ChoiceTimes'
      <3>1. committedAt' \in SUBSET (0..Choice!Horizon)
        BY <1>1, <2>2, Zenon
      <3>2. committedAt' = {} \/ \E at \in 0..elapsed : committedAt' = {at}
        <4>1. CASE committedAt' = {elapsed}
          BY <1>1, <4>1
        <4>2. CASE committedAt' = committedAt
          BY <4>2
        <4> QED
          BY <2>2, <4>1, <4>2
      <3> QED
        BY <2>1, <2>3, <3>1, <3>2, Zenon
    <2>5. ChoiceKnows'
      <3>1. \A at \in committedAt' : named # {} /\ \A t \in named : t <= at
        BY <1>1, <2>1, <2>2, Zenon
      <3>2. until' = Choice!WatchUntil(committedAt)'
        BY <2>1, <2>2, SMTT(30) DEF Choice!WatchUntil
      <3> QED
        BY <1>1, <2>1, <2>2, <3>1, <3>2
    <2> QED
      BY <2>1, <2>4, <2>5
  <1>7. CASE Choice!ProbeReaches
    BY <1>1, <1>7 DEF Choice!ProbeReaches, Choice!WatchUntil
  <1>8. CASE Choice!ProbeAnswers
    BY <1>8, DecideKeeps, Zenon DEF Choice!ProbeAnswers, Choice!Proven
  <1>9. CASE Choice!ProbeTimesOut
    BY <1>9, DecideKeeps, Zenon DEF Choice!ProbeTimesOut
  <1>10. CASE Choice!EvidenceFails
    BY <1>1, <1>10, SMTT(30) DEF Choice!EvidenceFails, Choice!Return
  <1>11. CASE Choice!NextRound
    BY <1>1, <1>11, SMTT(30) DEF Choice!NextRound
  <1>12. CASE UNCHANGED choice_vars
    BY <1>12 DEF choice_vars, Choice!WatchUntil
  <1> QED
    BY <1>2, <1>3, <1>4, <1>5, <1>6, <1>7, <1>8, <1>9, <1>10, <1>11, <1>12, Zenon
       DEF Choice!Next

-----------------------------------------------------------------------------
(* The parts together.                                                       *)

\* A step of the whole is, for every part, a step of it or none.
LEMMA StepOfParts ==
    ASSUME [Next]_vars
    PROVE  /\ [Events!Next]_event_vars /\ [Ask!Next]_ask_vars
           /\ [Setup!Next]_setup_vars /\ [Setup!TransferNext]_pipe_vars
           /\ [Choice!Next]_choice_vars
  BY DEF Next, vars

\* Whatever the generations and the builds: a client accepts every event that the
\* service sends, believes only the process it expects, and repeats no request
\* that was executed (serve_watch, decode_event, client::request).
THEOREM AnswersCorrect == Spec => []AnswersAreTrue
  <1>1. Init => EventInv /\ AskInv
    BY EventInit, AskInit DEF Init
  <1>2. EventInv /\ AskInv /\ [Next]_vars => (EventInv /\ AskInv)'
    BY EventStep, AskStep, StepOfParts
  <1>3. EventInv /\ AskInv => AnswersAreTrue
    BY AskPromise DEF EventInv, AnswersAreTrue
  <1> QED
    BY <1>1, <1>2, <1>3, PTL DEF Spec

\* However the reader, the writer and the deadline interleave: no operation meets
\* a socket in the wrong mode, and no buffer is returned while the kernel has it
\* (UnixReader::read, UnixWriter::write, transfer_overlapped).
THEOREM IoCorrect == Spec => []IoIsSafe
  <1>1. Init => SetupInv /\ TransferInv
    BY SetupInit, TransferInit DEF Init
  <1>2. SetupInv /\ TransferInv /\ [Next]_vars => (SetupInv /\ TransferInv)'
    BY SetupStep, TransferStep, StepOfParts
  <1>3. SetupInv /\ TransferInv => IoIsSafe
    BY SetupPromise, TransferPromise DEF IoIsSafe
  <1> QED
    BY <1>1, <1>2, <1>3, PTL DEF Spec

\* Whatever the budgets and the poll interval: what the wait for a selection
\* reports is evidence of what happened (decide, Watch::record).
THEOREM EvidenceCorrect == Spec => []EvidenceIsReal
  <1>1. Init => ChoiceInv
    BY ChoiceInit DEF Init
  <1>2. ChoiceInv /\ [Next]_vars => ChoiceInv'
    BY ChoiceStep, StepOfParts
  <1>3. ChoiceInv => EvidenceIsReal
    BY DEF ChoiceInv, EvidenceIsReal
  <1> QED
    BY <1>1, <1>2, <1>3, PTL DEF Spec

\* Whatever the budgets and the poll interval: the wait uses its budgets before it
\* gives up, and misses only a commit it could not have read (decide, watch).
THEOREM GivingUpCorrect == Spec => []GivesUpRightly
  <1>1. Init => ChoiceInv
    BY ChoiceInit DEF Init
  <1>2. ChoiceInv /\ [Next]_vars => ChoiceInv'
    BY ChoiceStep, StepOfParts
  <1>3. ChoiceInv => GivesUpRightly
    BY DEF ChoiceInv, ChoiceTimes, GivesUpRightly, Choice!GivesUpRightly
  <1> QED
    BY <1>1, <1>2, <1>3, PTL DEF Spec
=============================================================================

----------------------------- MODULE RelayProofs -----------------------------
(***************************************************************************)
(* The safety properties of a relay session for any number of keys,        *)
(* waiters, streams, windows, replacements and bytes.                      *)
(*                                                                         *)
(* The parts share no state, so each has an inductive invariant of its     *)
(* own.  Outstanding: what is owed is what this epoch's connection has     *)
(* still to answer, and no connection is ahead of the epoch (Owing).       *)
(* WriterSlot: which windows can already be on a wire (Sequence), when the *)
(* thread may be writing (Writing) and what a pause has settled (Paused,   *)
(* Cleared).  Pump: no byte is lost while it runs.  Observations: each     *)
(* counter counts a set of streams (Counted).                              *)
(***************************************************************************)
EXTENDS MCRelay, Sequences, FiniteSetTheorems, TLAPS

-----------------------------------------------------------------------------
(* Outstanding requests.                                                   *)

\* tracked is compared with the capacity and needs no sign here.
OutstandingType ==
    /\ keys \in [Keys -> Nat]
    /\ epoch \in EpochNumbers
    /\ overflowed \in BOOLEAN
    /\ failing \in Nat
    /\ transitions \in Nat
    /\ reporting \subseteq Failers
    /\ moving \subseteq Movers
    /\ owed \in [Keys -> Int]
    /\ inflight \in [EpochNumbers -> [Keys -> Nat]]
    /\ replied \in [EpochNumbers -> [Keys -> Nat]]

\* The client is owed what the connection of this epoch has not answered, and
\* no later connection exists.
Owing ==
    /\ \A k \in Keys : owed[k] = inflight[epoch][k]
    /\ \A e \in EpochNumbers : e > epoch =>
          \A k \in Keys : inflight[e][k] = 0 /\ replied[e][k] = 0

\* Guards are counted.
Guards == failing = Cardinality(reporting) /\ transitions = Cardinality(moving)

OutstandingInd == OutstandingType /\ Owing /\ Guards /\ TracksExactly

-----------------------------------------------------------------------------
(* The replaceable writer.                                                 *)

SlotType ==
    /\ slot \in [generation : Slot!Connections, paused : BOOLEAN, at_boundary : BOOLEAN,
                 base : Nat, written : 0..MaxOffset,
                 failed : BOOLEAN, ended : BOOLEAN, closed : BOOLEAN]
    /\ locked \in BOOLEAN
    /\ upstream \in {"reading", "parked", "writing", "stranded", "done"}
    /\ failed_on \in Slot!Connections
    /\ window \in Nat
    /\ coordinator \in {"idle", "pausing", "replaced", "settling"}
    /\ offset \in Nat
    /\ wire \in [Slot!Connections -> Seq(Nat \X Slot!Outcomes)]
    /\ observed \subseteq Nat
    /\ cleared \subseteq Nat

\* What is on a wire was read before, except for what is left of the window
\* that the thread is stranded with; no wire is ahead of the generation.
Sequence ==
    /\ \A c \in Slot!Connections : \A i \in DOMAIN wire[c] :
          wire[c][i][1] < window \/ (wire[c][i][1] = window /\ upstream = "stranded")
    /\ \A c \in Slot!Connections : c > slot.generation => wire[c] = <<>>

\* A write holds the lock, so that a pause, a replacement and close() find none.
Writing ==
    /\ upstream = "writing" => locked /\ ~slot.closed /\ ~slot.paused
    /\ failed_on <= slot.generation
    /\ \A i \in DOMAIN wire[slot.generation] : wire[slot.generation][i][2] = "torn" =>
          slot.closed \/ (upstream = "stranded" /\ failed_on = slot.generation)

\* The byte count and the record boundary are right until a write fails.
Offsets ==
    ~slot.failed =>
        LET on == wire[slot.generation]
        IN  /\ slot.written = slot.base + Len(on)
            /\ slot.at_boundary /\ on # <<>> => on[Len(on)][2] = "line"

\* From try_pause or replace_paused to resume() the slot is paused.
Paused ==
    /\ coordinator # "idle" => slot.paused
    /\ coordinator = "pausing" =>
          LET on == wire[slot.generation]
          IN  /\ offset = slot.base + Len(on)
              /\ on # <<>> => on[Len(on)][2] = "line"
    /\ coordinator \in {"replaced", "settling"} =>
          wire[slot.generation] = <<>> /\ (upstream = "stranded" => failed_on < slot.generation)

\* Requests are observed when their window is tried, and settled later.
Cleared ==
    /\ \A w \in observed : w < window \/ (w = window /\ upstream \in {"writing", "stranded"})
    /\ \A w \in cleared :
          w < window \/ (w = window /\ upstream = "stranded" /\ failed_on < slot.generation)

SlotInd ==
    /\ SlotType /\ Sequence /\ Writing /\ Offsets /\ Paused /\ Cleared
    /\ Slot!WindowsOnce /\ Slot!EndIsSignalled

-----------------------------------------------------------------------------
(* The pumps.                                                              *)

\* No byte is lost while a pump runs; how it ends is what happened.
PumpInd ==
    /\ way \in {"up", "down"}
    /\ given \in Nat /\ left \in Nat /\ held \in Nat /\ flushed \in Nat
    /\ told \in BOOLEAN /\ lost \in BOOLEAN
    /\ result \in {"none", "ok", "shutdown_error", "copy_error", "peer_closed", "client_gone"}
    /\ result = "none" => flushed + held + left = given /\ ~lost
    /\ Copy!NothingTruncated

-----------------------------------------------------------------------------
(* The observed streams.                                                   *)

Open == {s \in Observed!Streams : stream[s] = "open"}
Busy(d) == {s \in Observed!Streams : d \in under[s]}

ObservedType ==
    /\ stream \in [Observed!Streams -> {"none", "open", "dropped"}]
    /\ under \in [Observed!Streams -> SUBSET Observed!Direction]
    /\ pending \in [Observed!Direction -> Nat]
    /\ events \in Nat /\ lost_events \in Nat /\ happened \in Nat /\ taken \in Nat
    /\ last_progress \subseteq Observed!Direction

\* Each counter is the size of a set of streams, and only an open stream has
\* anything under way.
Counted ==
    /\ \A s \in Observed!Streams : under[s] # {} => stream[s] = "open"
    /\ connections = Cardinality(Open)
    /\ \A d \in Observed!Direction : pending[d] = Cardinality(Busy(d))

\* Events are in the queue, with their reader or lost.
Events ==
    /\ happened = taken + events + lost_events /\ events <= EventCapacity
    /\ last_progress = moved

ObservedInd == ObservedType /\ Counted /\ Events

RelayInd == OutstandingInd /\ SlotInd /\ PumpInd /\ ObservedInd

-----------------------------------------------------------------------------
(* Steps of Outstanding.                                                  *)

\* The epochs are natural numbers.
LEMMA EpochsAreNat == \A e : e \in EpochNumbers <=> e \in Nat /\ e <= MaxEpoch
  BY OutstandingConstants DEF EpochNumbers

\* One count of one epoch changes.
LEMMA CountChanges ==
    ASSUME NEW f \in [EpochNumbers -> [Keys -> Nat]], NEW e \in EpochNumbers, NEW k \in Keys,
           NEW n \in Nat, NEW g, g = [f EXCEPT ![e][k] = n]
    PROVE  /\ g \in [EpochNumbers -> [Keys -> Nat]]
           /\ \A d \in EpochNumbers : \A j \in Keys :
                 g[d][j] = IF d = e /\ j = k THEN n ELSE f[d][j]
  OBVIOUS

\* Guards come and go one at a time.
LEMMA GuardCounts ==
    ASSUME NEW All, IsFiniteSet(All), NEW S \in SUBSET All, NEW g \in All
    PROVE  /\ Cardinality(S) \in Nat
           /\ g \notin S => Cardinality(S \union {g}) = Cardinality(S) + 1
           /\ g \in S => Cardinality(S \ {g}) = Cardinality(S) - 1 /\ Cardinality(S) >= 1
  <1>1. IsFiniteSet(S) /\ Cardinality(S) \in Nat
    BY FS_Subset, FS_CardinalityType
  <1>2. g \notin S => Cardinality(S \union {g}) = Cardinality(S) + 1
    BY <1>1, FS_AddElement, Zenon
  <1>3. ASSUME g \in S PROVE Cardinality(S \ {g}) = Cardinality(S) - 1 /\ Cardinality(S) >= 1
    <2>1. IsFiniteSet(S \ {g}) /\ Cardinality(S \ {g}) \in Nat
      BY <1>1, FS_Subset, FS_CardinalityType
    <2>2. (S \ {g}) \union {g} = S
      BY <1>3
    <2>3. Cardinality((S \ {g}) \union {g}) = Cardinality(S \ {g}) + 1
      BY <2>1, FS_AddElement, Zenon
    <2>4. Cardinality(S) = Cardinality(S \ {g}) + 1
      BY <2>2, <2>3
    <2> QED
      BY <2>1, <2>4
  <1> QED
    BY <1>1, <1>2, <1>3

\* Every step keeps the invariant, action by action and conjunct by conjunct.
LEMMA OutstandingSteps == ASSUME OutstandingInd, Next PROVE OutstandingInd'
  <1> USE DEF OutstandingInd
  \* A request is sent.
  <1>1. ASSUME NEW k \in Keys, Begin(k) PROVE OutstandingInd'
    <2> USE <1>1
    <2>a. inflight[epoch][k] + 1 \in Nat /\ inflight' = [inflight EXCEPT ![epoch][k] = inflight[epoch][k] + 1]
      BY DEF Begin, OutstandingType
    <2>b. /\ inflight' \in [EpochNumbers -> [Keys -> Nat]]
          /\ \A e \in EpochNumbers : \A j \in Keys :
                inflight'[e][j] = IF e = epoch /\ j = k THEN inflight[e][j] + 1 ELSE inflight[e][j]
      BY <2>a, CountChanges DEF OutstandingType
    <2>1. OutstandingType'
      <3>1. keys' \in [Keys -> Nat]
        BY DEF Begin, Track, OutstandingType
      <3>2. owed' \in [Keys -> Int]
        BY DEF Begin, OutstandingType
      <3>3. overflowed' \in BOOLEAN
        BY Zenon DEF Begin, Track, OutstandingType
      <3> QED
        BY <2>b, <3>1, <3>2, <3>3 DEF Begin, OutstandingType
    <2>2. Owing'
      <3>1. \A j \in Keys : owed'[j] = IF j = k THEN owed[j] + 1 ELSE owed[j]
        BY DEF Begin, OutstandingType
      <3>2. epoch \in EpochNumbers /\ epoch \in Nat /\ UNCHANGED <<epoch, replied>>
        BY EpochsAreNat DEF Begin, OutstandingType
      <3> QED
        BY <2>b, <3>1, <3>2 DEF Owing
    <2>3. TracksExactly'
      <3>1. \A j \in Keys : owed'[j] = IF j = k THEN owed[j] + 1 ELSE owed[j]
        BY DEF Begin, OutstandingType
      <3>2. ~overflowed' => \A j \in Keys : keys'[j] = IF j = k THEN keys[j] + 1 ELSE keys[j]
        BY DEF Begin, Track, OutstandingType
      <3>3. \A j \in Keys : owed[j] \in Int /\ replied[epoch][j] \in Nat /\ keys[j] \in Nat
        BY DEF OutstandingType
      <3>4. UNCHANGED <<epoch, replied>> /\ (overflowed => overflowed')
        BY DEF Begin, Track
      <3> QED
        BY <3>1, <3>2, <3>3, <3>4 DEF TracksExactly
    <2>4. Guards'
      BY DEF Begin, Track, Guards
    <2> QED
      BY <2>1, <2>2, <2>3, <2>4
  \* A reply reaches the client.
  <1>2. ASSUME NEW e \in EpochNumbers, NEW k \in Keys, Reply(e, k) PROVE OutstandingInd'
    <2> USE <1>2
    <2>a. /\ inflight[e][k] - 1 \in Nat /\ inflight' = [inflight EXCEPT ![e][k] = inflight[e][k] - 1]
          /\ replied[e][k] + 1 \in Nat /\ replied' = [replied EXCEPT ![e][k] = replied[e][k] + 1]
      BY DEF Reply, OutstandingType
    <2>b. \A d \in EpochNumbers : \A j \in Keys :
            /\ inflight'[d][j] = IF d = e /\ j = k THEN inflight[d][j] - 1 ELSE inflight[d][j]
            /\ replied'[d][j] = IF d = e /\ j = k THEN replied[d][j] + 1 ELSE replied[d][j]
      BY <2>a, CountChanges DEF OutstandingType
    <2>c. \A j \in Keys : owed'[j] = IF e = epoch /\ j = k THEN owed[j] - 1 ELSE owed[j]
      BY DEF Reply, OutstandingType
    <2>d. epoch \in EpochNumbers /\ epoch \in Nat /\ UNCHANGED epoch
      BY EpochsAreNat DEF Reply, set_vars, OutstandingType
    <2>e. inflight[e][k] > 0 /\ UNCHANGED <<keys, overflowed>>
      BY DEF Reply, set_vars
    <2>1. OutstandingType'
      BY OutstandingConstants DEF Reply, set_vars, OutstandingType, None
    <2>2. Owing'
      <3>1. e \in Nat /\ e <= epoch
        BY <2>d, <2>e, EpochsAreNat DEF Owing
      <3> QED
        BY <2>b, <2>c, <2>d, <3>1, EpochsAreNat DEF Owing
    <2>3. TracksExactly'
      <3>1. \A j \in Keys : owed[j] \in Int /\ replied[epoch][j] \in Nat /\ keys[j] \in Nat
        BY DEF OutstandingType
      <3> QED
        BY <2>b, <2>c, <2>d, <2>e, <3>1 DEF TracksExactly
    <2>4. Guards'
      BY DEF Reply, set_vars, Guards
    <2> QED
      BY <2>1, <2>2, <2>3, <2>4
  \* A reply of this epoch is settled once; an older one settles nothing.
  <1>3. ASSUME NEW e \in EpochNumbers, NEW k \in Keys, Settle(e, k) PROVE OutstandingInd'
    <2> USE <1>3
    <2>a. replied[e][k] - 1 \in Nat /\ replied' = [replied EXCEPT ![e][k] = replied[e][k] - 1]
      BY DEF Settle, OutstandingType
    <2>b. \A d \in EpochNumbers : \A j \in Keys :
            replied'[d][j] = IF d = e /\ j = k THEN replied[d][j] - 1 ELSE replied[d][j]
      BY <2>a, CountChanges DEF OutstandingType
    <2>c. replied[e][k] > 0 /\ epoch \in EpochNumbers /\ UNCHANGED <<epoch, owed, inflight>>
      BY DEF Settle, OutstandingType
    <2>1. OutstandingType'
      BY OutstandingConstants DEF Settle, Applies, OutstandingType, None
    <2>2. Owing'
      <3>1. e \in Nat /\ e <= epoch
        BY <2>c, EpochsAreNat DEF Owing
      <3> QED
        BY <2>b, <2>c, <3>1, EpochsAreNat DEF Owing
    <2>3. TracksExactly'
      <3>1. \A j \in Keys :
              /\ keys'[j] = IF e = epoch /\ keys[k] > 0 /\ j = k THEN keys[j] - 1 ELSE keys[j]
              /\ owed[j] \in Nat /\ replied[epoch][j] \in Nat /\ keys[j] \in Nat
        BY <2>c DEF Settle, Applies, OutstandingType, Owing
      <3>2. UNCHANGED overflowed
        BY DEF Settle
      <3>3. ASSUME ~overflowed, e = epoch PROVE keys[k] > 0
        BY <2>c, <3>1, <3>3 DEF TracksExactly
      <3> QED
        BY <2>b, <2>c, <3>1, <3>2, <3>3 DEF TracksExactly
    <2>4. Guards'
      BY DEF Settle, Applies, Guards
    <2> QED
      BY <2>1, <2>2, <2>3, <2>4
  \* Nothing is owed, and a new epoch begins.
  <1>4. ASSUME Clear PROVE OutstandingInd'
    <2> USE <1>4
    <2>1. OutstandingType'
      <3>1. epoch + 1 \in EpochNumbers
        BY EpochsAreNat, OutstandingConstants DEF Clear, OutstandingType
      <3> QED
        BY <3>1, Zenon DEF Clear, relay_vars, OutstandingType, None
    <2>2. Owing'
      BY OutstandingConstants DEF Clear, relay_vars, OutstandingType, Owing, None, EpochNumbers
    <2>3. TracksExactly'
      BY OutstandingConstants
         DEF Clear, relay_vars, OutstandingType, Owing, TracksExactly, None, EpochNumbers
    <2>4. Guards'
      BY DEF Clear, relay_vars, Guards
    <2> QED
      BY <2>1, <2>2, <2>3, <2>4
  \* The requests fail together.
  <1>5. ASSUME NEW f \in Failers, Fail(f) PROVE OutstandingInd'
    <2> USE <1>5
    <2>1. OutstandingType'
      <3>1. epoch + 1 \in EpochNumbers
        BY EpochsAreNat, OutstandingConstants DEF Fail, OutstandingType
      <3>2. keys' \in [Keys -> Nat] /\ owed' \in [Keys -> Int]
        BY DEF Fail, ForgetRequests, None
      <3>3. failing' \in Nat /\ reporting' \subseteq Failers
        BY DEF Fail, OutstandingType
      <3> QED
        BY <3>1, <3>2, <3>3, Zenon DEF Fail, OutstandingType
    <2>2. Owing'
      BY OutstandingConstants
         DEF Fail, ForgetRequests, OutstandingType, Owing, None, EpochNumbers
    <2>3. Guards'
      BY GuardCounts, OutstandingConstants DEF Fail, OutstandingType, Guards
    <2>4. TracksExactly'
      BY OutstandingConstants
         DEF Fail, ForgetRequests, OutstandingType, Owing, TracksExactly, None, EpochNumbers
    <2> QED
      BY <2>1, <2>2, <2>3, <2>4
  \* A report ends.
  <1>6. ASSUME NEW f \in Failers, Reported(f) PROVE OutstandingInd'
    <2> USE <1>6
    <2>1. OutstandingType'
      <3>1. Cardinality(reporting) \in Nat /\ Cardinality(reporting) >= 1
        <4>1. IsFiniteSet(Failers) /\ reporting \in SUBSET Failers /\ f \in reporting
          BY OutstandingConstants DEF Reported, OutstandingType
        <4> QED
          BY <4>1, GuardCounts, Zenon
      <3>2. failing - 1 \in Nat
        BY <3>1 DEF Guards
      <3> QED
        BY <3>2 DEF Reported, OutstandingType
    <2>2. Guards'
      BY GuardCounts, OutstandingConstants DEF Reported, OutstandingType, Guards
    <2>3. Owing' /\ TracksExactly'
      BY DEF Reported, Owing, TracksExactly
    <2> QED
      BY <2>1, <2>2, <2>3
  \* A transition begins.
  <1>7. ASSUME NEW m \in Movers, Transition(m) PROVE OutstandingInd'
    <2> USE <1>7
    <2>1. OutstandingType'
      BY OutstandingConstants DEF Transition, OutstandingType, None
    <2>2. Guards'
      BY GuardCounts, OutstandingConstants, Zenon DEF Transition, OutstandingType, Guards
    <2>3. Owing' /\ TracksExactly'
      BY DEF Transition, Owing, TracksExactly
    <2> QED
      BY <2>1, <2>2, <2>3
  \* A transition ends.
  <1>8. ASSUME NEW m \in Movers, Moved(m) PROVE OutstandingInd'
    <2> USE <1>8
    <2>1. OutstandingType'
      <3>1. Cardinality(moving) \in Nat /\ Cardinality(moving) >= 1
        <4>1. IsFiniteSet(Movers) /\ moving \in SUBSET Movers /\ m \in moving
          BY OutstandingConstants DEF Moved, OutstandingType
        <4> QED
          BY <4>1, GuardCounts, Zenon
      <3>2. transitions - 1 \in Nat
        BY <3>1 DEF Guards
      <3> QED
        BY <3>2 DEF Moved, OutstandingType
    <2>2. Guards'
      BY GuardCounts, OutstandingConstants, Zenon DEF Moved, OutstandingType, Guards
    <2>3. Owing' /\ TracksExactly'
      BY DEF Moved, Owing, TracksExactly
    <2> QED
      BY <2>1, <2>2, <2>3
  \* Threads wait and look.
  <1>9. ASSUME NEW w \in Waiters, Wait(w) \/ Look(w) \/ SpuriousWakeup(w) PROVE OutstandingInd'
    <2> USE <1>9
    <2>1. OutstandingType' /\ Owing' /\ Guards' /\ TracksExactly'
      BY DEF Wait, Look, SpuriousWakeup, set_vars, relay_vars, OutstandingType, Owing, Guards,
         TracksExactly
    <2> QED
      BY <2>1
  <1> QED
    BY <1>1, <1>2, <1>3, <1>4, <1>5, <1>6, <1>7, <1>8, <1>9 DEF Next

-----------------------------------------------------------------------------
(* Steps of WriterSlot.                                                    *)

\* Connections and windows are numbered, and a wire is a sequence.
LEMMA SlotFacts ==
    ASSUME SlotType
    PROVE  /\ slot.generation \in Slot!Connections /\ slot.generation \in Nat
           /\ slot.base \in Nat /\ slot.written \in Nat /\ slot.written <= MaxOffset
           /\ failed_on \in Nat /\ window \in Nat
           /\ \A c \in Slot!Connections :
                 /\ c \in Nat /\ Len(wire[c]) \in Nat /\ DOMAIN wire[c] = 1..Len(wire[c])
                 /\ wire[c] = <<>> <=> Len(wire[c]) = 0
                 /\ \A i \in DOMAIN wire[c] : wire[c][i] \in Nat \X Slot!Outcomes /\ wire[c][i][1] \in Nat
  <1>1. /\ slot.generation \in Slot!Connections /\ slot.base \in Nat
        /\ slot.written \in Nat /\ slot.written <= MaxOffset
    BY RelayConstants DEF SlotType
  <1>2. \A c \in Slot!Connections : c \in Nat
    BY DEF Slot!Connections
  <1>3. ASSUME NEW c \in Slot!Connections
        PROVE  /\ Len(wire[c]) \in Nat /\ DOMAIN wire[c] = 1..Len(wire[c])
               /\ wire[c] = <<>> <=> Len(wire[c]) = 0
               /\ \A i \in DOMAIN wire[c] : wire[c][i] \in Nat \X Slot!Outcomes /\ wire[c][i][1] \in Nat
    <2>1. wire[c] \in Seq(Nat \X Slot!Outcomes)
      BY DEF SlotType
    <2> QED
      BY <2>1
  <1> QED
    BY <1>1, <1>2, <1>3 DEF SlotType

\* A window is put on the wire of one connection, behind all others.
LEMMA WireGrows ==
    ASSUME SlotType, NEW entry \in Nat \X Slot!Outcomes, NEW g \in Slot!Connections,
           wire' = [wire EXCEPT ![g] = Append(@, entry)]
    PROVE  /\ wire' \in [Slot!Connections -> Seq(Nat \X Slot!Outcomes)]
           /\ \A c \in Slot!Connections : c # g => wire'[c] = wire[c]
           /\ Len(wire'[g]) = Len(wire[g]) + 1
           /\ DOMAIN wire'[g] = 1..(Len(wire[g]) + 1)
           /\ \A i \in 1..Len(wire[g]) : wire'[g][i] = wire[g][i]
           /\ wire'[g][Len(wire[g]) + 1] = entry
  <1>1. wire[g] \in Seq(Nat \X Slot!Outcomes) /\ wire'[g] = Append(wire[g], entry)
    BY DEF SlotType
  <1>2. wire' \in [Slot!Connections -> Seq(Nat \X Slot!Outcomes)]
    BY DEF SlotType
  <1>3. \A c \in Slot!Connections : c # g => wire'[c] = wire[c]
    BY DEF SlotType
  <1>4. /\ Len(wire'[g]) = Len(wire[g]) + 1
        /\ DOMAIN wire'[g] = 1..(Len(wire[g]) + 1)
        /\ \A i \in 1..Len(wire[g]) : wire'[g][i] = wire[g][i]
        /\ wire'[g][Len(wire[g]) + 1] = entry
    BY <1>1
  <1> QED
    BY <1>2, <1>3, <1>4

\* A window that goes out, whole or torn, is the last on the last wire.
LEMMA GoesOut ==
    ASSUME SlotInd, upstream = "writing", NEW outcome \in Slot!Outcomes,
           wire' = [wire EXCEPT ![slot.generation] = Append(@, <<window, outcome>>)]
    PROVE  /\ wire' \in [Slot!Connections -> Seq(Nat \X Slot!Outcomes)]
           /\ Len(wire'[slot.generation]) = Len(wire[slot.generation]) + 1
           /\ wire'[slot.generation][Len(wire[slot.generation]) + 1] = <<window, outcome>>
           /\ \A c \in Slot!Connections : \A i \in DOMAIN wire'[c] :
                 wire'[c][i][1] \in Nat /\ wire'[c][i][1] <= window
           /\ \A c \in Slot!Connections : c > slot.generation => wire'[c] = <<>>
           /\ \A i \in DOMAIN wire'[slot.generation] :
                 wire'[slot.generation][i][2] = "torn" => outcome = "torn"
           /\ Slot!WindowsOnce'
  <1> DEFINE g == slot.generation
             Old(c, i) == i \in DOMAIN wire[c] /\ wire'[c][i] = wire[c][i]
             New(c, i) == c = g /\ i = Len(wire[g]) + 1 /\ wire'[c][i] = <<window, outcome>>
  <1> USE DEF SlotInd
  <1>1. /\ g \in Slot!Connections /\ g \in Nat /\ window \in Nat /\ Len(wire[g]) \in Nat
        /\ DOMAIN wire[g] = 1..Len(wire[g]) /\ <<window, outcome>> \in Nat \X Slot!Outcomes
    BY SlotFacts
  <1>2. /\ wire' \in [Slot!Connections -> Seq(Nat \X Slot!Outcomes)]
        /\ \A c \in Slot!Connections : c # g => wire'[c] = wire[c]
        /\ Len(wire'[g]) = Len(wire[g]) + 1 /\ DOMAIN wire'[g] = 1..(Len(wire[g]) + 1)
        /\ \A i \in 1..Len(wire[g]) : wire'[g][i] = wire[g][i]
        /\ wire'[g][Len(wire[g]) + 1] = <<window, outcome>>
    BY <1>1, WireGrows, Zenon
  <1>3. ASSUME NEW c \in Slot!Connections, NEW i \in DOMAIN wire[c]
        PROVE  /\ c \in Nat /\ c <= g /\ i \in Nat /\ i <= Len(wire[c])
               /\ wire[c][i][1] \in Nat /\ wire[c][i][1] < window
               /\ wire[c][i][2] = "torn" => c # g /\ i = Len(wire[c])
    <2>1. c \in Nat /\ DOMAIN wire[c] = 1..Len(wire[c]) /\ Len(wire[c]) \in Nat /\ wire[c][i][1] \in Nat
      BY SlotFacts
    <2>2. wire[c] # <<>>
      BY SlotFacts
    <2>3. c <= g
      BY <1>1, <2>1, <2>2 DEF Sequence
    <2>4. wire[c][i][1] < window
      BY DEF Sequence
    <2>5. wire[c][i][2] = "torn" => c # g /\ i = Len(wire[c])
      BY DEF Writing, Slot!WindowsOnce
    <2> QED
      BY <2>1, <2>3, <2>4, <2>5
  <1>4. ASSUME NEW c \in Slot!Connections, NEW i \in DOMAIN wire'[c]
        PROVE Old(c, i) \/ New(c, i)
    <2>1. CASE c # g
      BY <1>2, <2>1
    <2>2. CASE c = g
      <3>1. i \in 1..Len(wire[g]) \/ i = Len(wire[g]) + 1
        BY <1>1, <1>2, <2>2
      <3> QED
        BY <1>1, <1>2, <2>2, <3>1
    <2> QED
      BY <2>1, <2>2
  <1>5. ASSUME NEW c \in Slot!Connections, NEW i \in DOMAIN wire'[c]
        PROVE  wire'[c][i][1] \in Nat /\ wire'[c][i][1] <= window
    <2>1. CASE Old(c, i)
      BY <1>1, <1>3, <2>1
    <2>2. CASE New(c, i)
      BY <1>1, <2>2
    <2> QED
      BY <1>4, <2>1, <2>2
  <1>6. ASSUME NEW i \in DOMAIN wire'[g], wire'[g][i][2] = "torn" PROVE outcome = "torn"
    <2>1. CASE Old(g, i)
      BY <1>1, <1>3, <1>6, <2>1
    <2>2. CASE New(g, i)
      BY <1>6, <2>2
    <2> QED
      BY <1>1, <1>4, <2>1, <2>2
  <1>7. ASSUME NEW c \in Slot!Connections, c > g PROVE wire'[c] = <<>>
    <2>1. c # g /\ wire[c] = <<>>
      BY <1>1, <1>7, SlotFacts DEF Sequence
    <2> QED
      BY <1>2, <2>1
  <1>8. ASSUME NEW c \in Slot!Connections, NEW d \in Slot!Connections,
               NEW i \in DOMAIN wire'[c], NEW j \in DOMAIN wire'[d]
        PROVE  /\ c < d \/ (c = d /\ i < j) => wire'[c][i][1] < wire'[d][j][1]
               /\ wire'[c][i][2] = "torn" => i = Len(wire'[c])
    <2>1. CASE Old(c, i)
      <3>1. wire'[c][i][2] = "torn" => i = Len(wire'[c])
        BY <1>2, <1>3, <2>1
      <3>2. CASE Old(d, j)
        BY <2>1, <3>1, <3>2 DEF Slot!WindowsOnce
      <3>3. CASE New(d, j)
        BY <1>3, <2>1, <3>1, <3>3
      <3> QED
        BY <1>4, <3>2, <3>3
    <2>2. CASE New(c, i)
      <3>1. i = Len(wire'[c])
        BY <1>2, <2>2
      <3>2. CASE Old(d, j)
        <4>1. d \in Nat /\ d <= g /\ j \in Nat /\ j <= Len(wire[d])
          BY <1>3, <3>2
        <4>2. ~(c < d) /\ ~(c = d /\ i < j)
          BY <1>1, <2>2, <4>1
        <4> QED
          BY <3>1, <4>2
      <3>3. CASE New(d, j)
        <4>1. c = d /\ i = j /\ c \in Nat /\ i \in Nat
          BY <1>1, <2>2, <3>3
        <4>2. ~(c < d) /\ ~(c = d /\ i < j)
          BY <4>1
        <4> QED
          BY <3>1, <4>2
      <3> QED
        BY <1>4, <3>2, <3>3
    <2> QED
      BY <1>4, <2>1, <2>2
  <1>9. Slot!WindowsOnce'
    BY <1>8 DEF Slot!WindowsOnce
  <1> QED
    BY <1>2, <1>5, <1>6, <1>7, <1>9

\* What write_observed does when it has the lock.
LEMMA EnterCases ==
    ASSUME Slot!WriteObserved \/ Slot!LookParked
    PROVE  /\ upstream \in {"reading", "parked"}
           /\ UNCHANGED <<slot, failed_on, coordinator, offset, wire, half_closed, cleared>>
           /\ \/ upstream' = "reading" /\ window' = window + 1 /\ UNCHANGED <<locked, observed>>
              \/ upstream' = "parked" /\ UNCHANGED <<window, locked, observed>>
              \/ /\ upstream' = "writing" /\ locked' = TRUE /\ UNCHANGED window
                 /\ observed' = observed \union {window} /\ ~slot.closed /\ ~slot.paused
  BY DEF Slot!WriteObserved, Slot!LookParked, Slot!Enter, Slot!NextWindow

\* It goes on with this window or the next.
LEMMA EnterGoesOn ==
    ASSUME window \in Nat, Slot!WriteObserved \/ Slot!LookParked
    PROVE  window' \in Nat /\ window' >= window
  <1>1. window' = window + 1 \/ window' = window
    BY EnterCases, Zenon
  <1>2. CASE window' = window + 1
    BY <1>2
  <1>3. CASE window' = window
    BY <1>3
  <1> QED
    BY <1>1, <1>2, <1>3

\* A new connection begins empty, paused, with no write going on.
LEMMA Replaces ==
    ASSUME SlotType, Sequence, Writing, NEW bootstrap \in Bootstraps,
           Slot!ReplacePaused(bootstrap), ~slot.closed
    PROVE  /\ slot'.generation \in Slot!Connections /\ slot'.generation = slot.generation + 1
           /\ slot'.generation > slot.generation
           /\ slot'.written = bootstrap /\ slot'.base = bootstrap
           /\ ~slot'.failed /\ slot'.paused /\ slot'.at_boundary
           /\ slot'.ended = slot.ended /\ slot'.closed = slot.closed
           /\ coordinator' = "replaced" /\ upstream # "writing"
           /\ UNCHANGED <<upstream, locked, wire, window, failed_on, observed, cleared>>
           /\ wire[slot'.generation] = <<>> /\ Len(wire[slot'.generation]) = 0
           /\ DOMAIN wire[slot'.generation] = {}
  <1> DEFINE new == slot.generation + 1
  <1>1. /\ slot' = [slot EXCEPT !.generation = new, !.written = bootstrap, !.base = bootstrap,
                                !.at_boundary = TRUE, !.failed = FALSE, !.paused = TRUE]
        /\ coordinator' = "replaced" /\ ~locked /\ new \in Slot!Connections
        /\ UNCHANGED <<upstream, locked, wire, window, failed_on, observed, cleared>>
    BY DEF Slot!ReplacePaused
  <1>2. /\ slot'.generation = new /\ slot'.written = bootstrap /\ slot'.base = bootstrap
        /\ ~slot'.failed /\ slot'.paused /\ slot'.at_boundary
        /\ slot'.ended = slot.ended /\ slot'.closed = slot.closed
    BY <1>1 DEF SlotType
  <1>3. new > slot.generation
    BY SlotFacts
  <1>4. wire[new] = <<>>
    BY <1>1, <1>3 DEF Sequence
  <1>5. Len(wire[new]) = 0 /\ DOMAIN wire[new] = {}
    BY <1>1, <1>4, SlotFacts
  <1>6. upstream # "writing"
    BY <1>1 DEF Writing
  <1> QED
    BY <1>1, <1>2, <1>3, <1>4, <1>5, <1>6

\* Every step keeps the invariant, action by action and conjunct by conjunct.
LEMMA SlotSteps == ASSUME SlotInd, Slot!Next PROVE SlotInd'
  <1> USE DEF SlotInd
  \* The thread takes a window, waits, or gives it up.
  <1>1. ASSUME Slot!WriteObserved \/ Slot!LookParked PROVE SlotInd'
    <2> USE <1>1
    <2>a. window \in Nat
      BY SlotFacts
    <2>b. upstream \in {"reading", "parked"}
      BY EnterCases, Zenon
    <2>1. SlotType'
      <3>1. window' \in Nat /\ observed' \subseteq Nat /\ locked' \in BOOLEAN
            /\ upstream' \in {"reading", "parked", "writing", "stranded", "done"}
        <4>1. window' \in Nat
          BY <2>a, EnterGoesOn
        <4>2. observed' \subseteq Nat
          BY <2>a, EnterCases, Zenon DEF SlotType
        <4>3. locked' \in BOOLEAN /\ upstream' \in {"reading", "parked", "writing", "stranded", "done"}
          BY EnterCases, Zenon DEF SlotType
        <4> QED
          BY <4>1, <4>2, <4>3
      <3> QED
        BY <3>1, EnterCases, Zenon DEF SlotType
    <2>2. Sequence'
      <3>1. \A c \in Slot!Connections : \A i \in DOMAIN wire[c] :
              wire[c][i][1] \in Nat /\ wire[c][i][1] < window
        BY <2>b, SlotFacts DEF Sequence
      <3>2. window' \in Nat /\ window' >= window /\ UNCHANGED <<wire, slot>>
        BY <2>a, EnterCases, EnterGoesOn, Zenon
      <3> QED
        BY <2>a, <3>1, <3>2 DEF Sequence
    <2>3. Writing'
      BY EnterCases, Zenon DEF Writing
    <2>4. Paused'
      BY EnterCases, Zenon DEF Paused
    <2>5. Cleared'
      <3>1. \A w \in observed \union cleared : w \in Nat /\ w < window
        BY <2>b DEF SlotType, Cleared
      <3>2. window' \in Nat /\ window' >= window /\ UNCHANGED cleared
        BY <2>a, EnterCases, EnterGoesOn, Zenon
      <3>3. observed' = observed \/ (observed' = observed \union {window} /\ window' = window /\ upstream' = "writing")
        BY EnterCases, Zenon
      <3> QED
        BY <2>a, <3>1, <3>2, <3>3 DEF Cleared
    <2>6. Offsets' /\ Slot!WindowsOnce' /\ Slot!EndIsSignalled'
      BY DEF Slot!WriteObserved, Slot!LookParked, Slot!Enter, Slot!NextWindow, Offsets,
         Slot!WindowsOnce, Slot!EndIsSignalled
    <2> QED
      BY <2>1, <2>2, <2>3, <2>4, <2>5, <2>6
  \* The window is on the wire, after all earlier ones.
  <1>2. ASSUME NEW outcome \in {"line", "fragment"}, Slot!Written(outcome) PROVE SlotInd'
    <2> USE <1>2
    <2>a. /\ upstream = "writing" /\ outcome \in Slot!Outcomes /\ outcome # "torn"
          /\ wire' = [wire EXCEPT ![slot.generation] = Append(@, <<window, outcome>>)]
          /\ upstream' = "reading" /\ window' = window + 1 /\ window \in Nat
          /\ slot'.generation = slot.generation
      BY SlotFacts DEF Slot!Written, Slot!NextWindow, SlotType, Slot!Outcomes
    <2>1. SlotType'
      <3>1. wire' \in [Slot!Connections -> Seq(Nat \X Slot!Outcomes)]
        BY <2>a, GoesOut, Zenon
      <3>2. slot' \in [generation : Slot!Connections, paused : BOOLEAN, at_boundary : BOOLEAN,
                       base : Nat, written : 0..MaxOffset,
                       failed : BOOLEAN, ended : BOOLEAN, closed : BOOLEAN]
        <4>1. (IF slot.written < MaxOffset THEN slot.written + 1 ELSE slot.written) \in 0..MaxOffset
          BY SlotFacts, RelayConstants
        <4>2. (slot.failed \/ slot.written = MaxOffset) \in BOOLEAN /\ (outcome = "line") \in BOOLEAN
          OBVIOUS
        <4> QED
          BY <4>1, <4>2, Zenon DEF Slot!Written, SlotType
      <3>3. window' \in Nat /\ upstream' = "reading" /\ locked' = FALSE
        BY SlotFacts DEF Slot!Written, Slot!NextWindow
      <3> QED
        BY <3>1, <3>2, <3>3, Zenon DEF Slot!Written, SlotType
    <2>2. Sequence'
      <3>1. \A c \in Slot!Connections : \A i \in DOMAIN wire'[c] :
              wire'[c][i][1] \in Nat /\ wire'[c][i][1] <= window
        BY <2>a, GoesOut, Zenon
      <3>2. \A c \in Slot!Connections : c > slot'.generation => wire'[c] = <<>>
        BY <2>a, GoesOut, Zenon
      <3>3. \A c \in Slot!Connections : \A i \in DOMAIN wire'[c] : wire'[c][i][1] < window'
        BY <2>a, <3>1
      <3> QED
        BY <3>2, <3>3 DEF Sequence
    <2>3. Writing'
      <3>1. \A i \in DOMAIN wire'[slot.generation] : wire'[slot.generation][i][2] # "torn"
        BY <2>a, GoesOut, Zenon
      <3> QED
        BY <2>a, <3>1 DEF Slot!Written, Writing
    <2>4. Offsets'
      <3>1. /\ Len(wire'[slot.generation]) = Len(wire[slot.generation]) + 1
            /\ wire'[slot.generation][Len(wire[slot.generation]) + 1] = <<window, outcome>>
            /\ Len(wire[slot.generation]) \in Nat
        BY <2>a, GoesOut, SlotFacts, Zenon
      <3>2. ~slot'.failed => ~slot.failed /\ slot'.written = slot.written + 1
        <4>1. /\ ~slot'.failed => ~slot.failed /\ slot.written # MaxOffset
              /\ slot'.written = IF slot.written < MaxOffset THEN slot.written + 1 ELSE slot.written
          BY Zenon DEF Slot!Written, SlotType
        <4>2. slot.written # MaxOffset => slot.written < MaxOffset
          BY SlotFacts, RelayConstants
        <4> QED
          BY <4>1, <4>2
      <3>3. slot'.base = slot.base /\ (slot'.at_boundary <=> outcome = "line")
        BY Zenon DEF Slot!Written, SlotType
      <3> QED
        <4>1. ~slot'.failed => slot'.written = slot'.base + Len(wire'[slot.generation])
          <5>1. ~slot.failed => slot.written = slot.base + Len(wire[slot.generation])
            BY DEF Offsets
          <5>2. slot.base \in Nat /\ slot.written \in Nat
            BY SlotFacts
          <5>3. ASSUME ~slot'.failed
                PROVE slot'.written = slot'.base + Len(wire'[slot.generation])
            <6>1. slot'.written = slot.written + 1 /\ slot.written = slot.base + Len(wire[slot.generation])
              BY <3>2, <5>1, <5>3
            <6>2. slot'.base = slot.base
              BY <3>3
            <6> QED
              BY <3>1, <5>2, <6>1, <6>2
          <5> QED
            BY <5>3
        <4>2. wire'[slot.generation][Len(wire'[slot.generation])][2] = outcome
          BY <3>1
        <4> QED
          BY <2>a, <3>3, <4>1, <4>2 DEF Offsets
    <2>5. Paused'
      <3>1. coordinator = "idle" /\ coordinator' = "idle"
        BY DEF Slot!Written, SlotType, Writing, Paused
      <3> QED
        BY <3>1 DEF Paused
    <2>6. Cleared'
      <3>1. window \in Nat /\ window' = window + 1 /\ upstream = "writing" /\ UNCHANGED <<observed, cleared>>
        BY SlotFacts DEF Slot!Written, Slot!NextWindow
      <3>2. \A w \in observed \union cleared : w \in Nat /\ w <= window
        BY <3>1 DEF SlotType, Cleared
      <3> QED
        BY <3>1, <3>2 DEF Cleared
    <2>7. Slot!WindowsOnce'
      BY <2>a, GoesOut, Zenon
    <2>8. Slot!EndIsSignalled'
      BY RelayConstants
         DEF Slot!Written, Slot!NextWindow, SlotType, Slot!EndIsSignalled, Slot!Connections
    <2> QED
      BY <2>1, <2>2, <2>3, <2>4, <2>5, <2>6, <2>7, <2>8
  \* Part of the window may be on the wire.
  <1>3. ASSUME NEW some \in BOOLEAN, Slot!WriteFails(some) PROVE SlotInd'
    <2> USE <1>3
    <2>1. SlotType'
      <3>1. <<window, "torn">> \in Nat \X Slot!Outcomes
        BY DEF SlotType, Slot!Outcomes
      <3>2. wire' \in [Slot!Connections -> Seq(Nat \X Slot!Outcomes)]
        <4>1. CASE some
          BY <3>1, <4>1, WireGrows, SlotFacts, Zenon DEF Slot!WriteFails
        <4>2. CASE ~some
          BY <4>2 DEF Slot!WriteFails, SlotType
        <4> QED
          BY <4>1, <4>2
      <3>3. slot' \in [generation : Slot!Connections, paused : BOOLEAN, at_boundary : BOOLEAN,
                       base : Nat, written : 0..MaxOffset,
                       failed : BOOLEAN, ended : BOOLEAN, closed : BOOLEAN]
        BY Zenon DEF Slot!WriteFails, SlotType
      <3> QED
        BY <3>2, <3>3, SlotFacts, Zenon DEF Slot!WriteFails, SlotType
    <2>2. Sequence'
      <3>1. CASE some
        <4>1. /\ upstream = "writing" /\ "torn" \in Slot!Outcomes /\ upstream' = "stranded"
              /\ wire' = [wire EXCEPT ![slot.generation] = Append(@, <<window, "torn">>)]
              /\ window' = window /\ window \in Nat /\ slot'.generation = slot.generation
          BY <3>1, SlotFacts DEF Slot!WriteFails, SlotType, Slot!Outcomes
        <4>2. \A c \in Slot!Connections : \A i \in DOMAIN wire'[c] :
                wire'[c][i][1] \in Nat /\ wire'[c][i][1] <= window
          BY <4>1, GoesOut, Zenon
        <4>3. \A c \in Slot!Connections : c > slot'.generation => wire'[c] = <<>>
          BY <4>1, GoesOut, Zenon
        <4>4. \A c \in Slot!Connections : \A i \in DOMAIN wire'[c] :
                wire'[c][i][1] < window' \/ wire'[c][i][1] = window'
          BY <4>1, <4>2
        <4> QED
          BY <4>1, <4>3, <4>4 DEF Sequence
      <3>2. CASE ~some
        BY <3>2 DEF Slot!WriteFails, SlotType, Sequence
      <3> QED
        BY <3>1, <3>2
    <2>3. Writing'
      BY SlotFacts DEF Slot!WriteFails, SlotType, Writing
    <2>4. Offsets'
      BY RelayConstants DEF Slot!WriteFails, SlotType, Offsets
    <2>5. Paused'
      <3>1. coordinator = "idle" /\ coordinator' = "idle"
        BY DEF Slot!WriteFails, SlotType, Writing, Paused
      <3> QED
        BY <3>1 DEF Paused
    <2>6. Cleared'
      BY DEF Slot!WriteFails, SlotType, Cleared
    <2>7. Slot!WindowsOnce'
      <3>1. CASE some
        <4>1. /\ upstream = "writing" /\ "torn" \in Slot!Outcomes /\ upstream' = "stranded"
              /\ wire' = [wire EXCEPT ![slot.generation] = Append(@, <<window, "torn">>)]
              /\ window' = window /\ window \in Nat /\ slot'.generation = slot.generation
          BY <3>1, SlotFacts DEF Slot!WriteFails, SlotType, Slot!Outcomes
        <4> QED
          BY <4>1, GoesOut, Zenon
      <3>2. CASE ~some
        BY <3>2 DEF Slot!WriteFails, Slot!WindowsOnce
      <3> QED
        BY <3>1, <3>2
    <2>8. Slot!EndIsSignalled'
      BY RelayConstants DEF Slot!WriteFails, SlotType, Slot!EndIsSignalled, Slot!Connections
    <2> QED
      BY <2>1, <2>2, <2>3, <2>4, <2>5, <2>6, <2>7, <2>8
  \* The failed window is given up.
  <1>4. ASSUME Slot!LookStranded PROVE SlotInd'
    <2> USE <1>4
    <2>a. /\ window \in Nat /\ upstream = "stranded"
          /\ \/ UNCHANGED <<upstream, window>>
             \/ upstream' = "reading" /\ window' = window + 1
          /\ UNCHANGED <<slot, locked, failed_on, coordinator, offset, wire, half_closed, observed, cleared>>
      BY SlotFacts, Zenon DEF Slot!LookStranded, Slot!Abandon, Slot!NextWindow
    <2>1. SlotType'
      <3>1. window' \in Nat
        BY <2>a
      <3> QED
        BY <2>a, <3>1 DEF SlotType
    <2>2. Sequence'
      <3>1. \A c \in Slot!Connections : \A i \in DOMAIN wire[c] :
              wire[c][i][1] \in Nat /\ wire[c][i][1] <= window
        BY <2>a, SlotFacts DEF Sequence
      <3> QED
        BY <2>a, <3>1 DEF Sequence
    <2>3. Writing'
      BY RelayConstants, Zenon
         DEF Slot!LookStranded, Slot!Abandon, Slot!NextWindow, SlotType, Writing
    <2>4. Paused'
      BY RelayConstants
         DEF Slot!LookStranded, Slot!Abandon, Slot!NextWindow, SlotType, Paused, Writing
    <2>5. Cleared'
      <3>1. \A w \in observed \union cleared : w \in Nat /\ w <= window
        BY <2>a DEF SlotType, Cleared
      <3> QED
        BY <2>a, <3>1 DEF Cleared
    <2>6. Offsets' /\ Slot!WindowsOnce' /\ Slot!EndIsSignalled'
      BY DEF Slot!LookStranded, Slot!Abandon, Slot!NextWindow, Offsets, Slot!WindowsOnce,
         Slot!EndIsSignalled
    <2> QED
      BY <2>1, <2>2, <2>3, <2>4, <2>5, <2>6
  \* The client has closed its input.
  <1>5. ASSUME Slot!Shutdown PROVE SlotInd'
    <2> USE <1>5
    <2>1. SlotType'
      BY RelayConstants, Zenon DEF Slot!Shutdown, SlotType, Slot!Connections, Slot!Outcomes
    <2>2. Sequence'
      BY RelayConstants DEF Slot!Shutdown, SlotType, Sequence
    <2>3. Writing'
      BY RelayConstants DEF Slot!Shutdown, SlotType, Writing
    <2>4. Offsets'
      BY RelayConstants DEF Slot!Shutdown, SlotType, Offsets
    <2>5. Paused'
      BY RelayConstants DEF Slot!Shutdown, SlotType, Paused, Writing
    <2>6. Cleared'
      BY RelayConstants DEF Slot!Shutdown, SlotType, Cleared, Writing
    <2>7. Slot!EndIsSignalled'
      BY RelayConstants DEF Slot!Shutdown, SlotType, Slot!EndIsSignalled, Slot!Connections
    <2>8. Slot!WindowsOnce'
      BY DEF Slot!Shutdown, Slot!WindowsOnce
    <2> QED
      BY <2>1, <2>2, <2>3, <2>4, <2>5, <2>6, <2>7, <2>8
  \* The coordinator pauses between two records.
  <1>6. ASSUME Slot!TryPause PROVE SlotInd'
    <2> USE <1>6
    <2>1. SlotType'
      <3>1. slot' \in [generation : Slot!Connections, paused : BOOLEAN, at_boundary : BOOLEAN,
                       base : Nat, written : 0..MaxOffset,
                       failed : BOOLEAN, ended : BOOLEAN, closed : BOOLEAN]
        BY Zenon DEF Slot!TryPause, SlotType
      <3>2. offset' \in Nat /\ coordinator' = "pausing"
        BY SlotFacts DEF Slot!TryPause
      <3> QED
        BY <3>1, <3>2 DEF Slot!TryPause, SlotType
    <2>2. Sequence'
      BY RelayConstants DEF Slot!TryPause, Slot!MayPause, SlotType, Sequence
    <2>3. Writing'
      BY RelayConstants DEF Slot!TryPause, Slot!MayPause, SlotType, Writing
    <2>4. Offsets'
      BY RelayConstants DEF Slot!TryPause, Slot!MayPause, SlotType, Offsets
    <2>5. Paused'
      <3>1. /\ ~slot.failed /\ slot.at_boundary /\ offset' = slot.written /\ coordinator' = "pausing"
            /\ slot' = [slot EXCEPT !.paused = TRUE] /\ UNCHANGED wire
        BY DEF Slot!TryPause, Slot!MayPause
      <3>2. slot'.generation = slot.generation /\ slot'.base = slot.base /\ slot'.paused
        BY <3>1 DEF SlotType
      <3> QED
        BY <3>1, <3>2 DEF Offsets, Paused
    <2>6. Cleared'
      BY RelayConstants DEF Slot!TryPause, Slot!MayPause, SlotType, Cleared, Writing
    <2>7. Slot!EndIsSignalled'
      BY RelayConstants
         DEF Slot!TryPause, Slot!MayPause, SlotType, Slot!EndIsSignalled, Slot!Connections
    <2>8. Slot!WindowsOnce'
      BY DEF Slot!TryPause, Slot!MayPause, Slot!WindowsOnce
    <2> QED
      BY <2>1, <2>2, <2>3, <2>4, <2>5, <2>6, <2>7, <2>8
  \* A new connection takes over.
  <1>7. ASSUME NEW bootstrap \in Bootstraps, Slot!ReplacePaused(bootstrap) PROVE SlotInd'
    <2> USE <1>7
    <2>1. SlotType'
      <3>1. slot.generation + 1 \in Slot!Connections /\ bootstrap \in 0..MaxOffset /\ bootstrap \in Nat
        BY RelayConstants DEF Slot!ReplacePaused
      <3>2. slot' \in [generation : Slot!Connections, paused : BOOLEAN, at_boundary : BOOLEAN,
                       base : Nat, written : 0..MaxOffset,
                       failed : BOOLEAN, ended : BOOLEAN, closed : BOOLEAN]
        BY <3>1, Zenon DEF Slot!ReplacePaused, SlotType
      <3>3. coordinator' \in {"idle", "pausing", "replaced", "settling"}
        BY DEF Slot!ReplacePaused
      <3> QED
        BY <3>2, <3>3 DEF Slot!ReplacePaused, SlotType
    <2>2. Sequence'
      <3>1. CASE ~slot.closed
        BY <3>1, Replaces, SlotFacts DEF Sequence
      <3>2. CASE slot.closed
        <4>1. UNCHANGED <<slot, upstream, locked, wire, window, failed_on, observed, cleared>>
          BY <3>2 DEF Slot!ReplacePaused
        <4>2. coordinator' = "idle"
          BY <3>2 DEF Slot!ReplacePaused
        <4> QED
          BY <4>1, <4>2 DEF Sequence
      <3> QED
        BY <3>1, <3>2
    <2>3. Writing'
      <3>1. CASE ~slot.closed
        <4>1. /\ wire'[slot'.generation] = <<>> /\ DOMAIN wire'[slot'.generation] = {}
              /\ slot'.generation > slot.generation /\ slot'.generation \in Nat
              /\ upstream' # "writing" /\ UNCHANGED failed_on
          BY <3>1, Replaces, SlotFacts
        <4>2. failed_on <= slot.generation /\ failed_on \in Nat /\ slot.generation \in Nat
          BY SlotFacts DEF Writing
        <4>3. failed_on' <= slot'.generation
          BY <4>1, <4>2
        <4> QED
          BY <4>1, <4>3 DEF Writing
      <3>2. CASE slot.closed
        <4>1. UNCHANGED <<slot, upstream, locked, wire, window, failed_on, observed, cleared>>
          BY <3>2 DEF Slot!ReplacePaused
        <4> QED
          BY <4>1 DEF Writing
      <3> QED
        BY <3>1, <3>2
    <2>4. Offsets'
      <3>1. CASE ~slot.closed
        BY <3>1, Replaces, RelayConstants DEF Offsets
      <3>2. CASE slot.closed
        <4>1. UNCHANGED <<slot, upstream, locked, wire, window, failed_on, observed, cleared>>
          BY <3>2 DEF Slot!ReplacePaused
        <4>2. coordinator' = "idle"
          BY <3>2 DEF Slot!ReplacePaused
        <4> QED
          BY <4>1, <4>2 DEF Offsets
      <3> QED
        BY <3>1, <3>2
    <2>5. Paused'
      <3>1. CASE ~slot.closed
        <4>1. /\ coordinator' = "replaced" /\ slot'.paused /\ wire'[slot'.generation] = <<>>
              /\ slot'.generation > slot.generation /\ UNCHANGED <<upstream, failed_on>>
              /\ slot'.generation \in Nat
          BY <3>1, Replaces, SlotFacts
        <4>2. failed_on <= slot.generation /\ failed_on \in Nat /\ slot.generation \in Nat
          BY SlotFacts DEF Writing
        <4>3. failed_on' < slot'.generation
          BY <4>1, <4>2
        <4> QED
          BY <4>1, <4>3 DEF Paused
      <3>2. CASE slot.closed
        <4>1. UNCHANGED <<slot, upstream, locked, wire, window, failed_on, observed, cleared>>
          BY <3>2 DEF Slot!ReplacePaused
        <4>2. coordinator' = "idle"
          BY <3>2 DEF Slot!ReplacePaused
        <4> QED
          BY <4>1, <4>2 DEF Paused
      <3> QED
        BY <3>1, <3>2
    <2>6. Cleared'
      <3>1. CASE ~slot.closed
        BY <3>1, Replaces, SlotFacts DEF Cleared
      <3>2. CASE slot.closed
        <4>1. UNCHANGED <<slot, upstream, locked, wire, window, failed_on, observed, cleared>>
          BY <3>2 DEF Slot!ReplacePaused
        <4>2. coordinator' = "idle"
          BY <3>2 DEF Slot!ReplacePaused
        <4> QED
          BY <4>1, <4>2 DEF Cleared
      <3> QED
        BY <3>1, <3>2
    <2>7. Slot!EndIsSignalled'
      <3>1. CASE ~slot.closed
        <4> DEFINE new == slot.generation + 1
        <4>1. /\ new \in Nat /\ slot.generation \in Nat
              /\ slot'.generation = new /\ slot'.ended = slot.ended /\ slot'.closed = slot.closed
              /\ coordinator' = "replaced" /\ coordinator # "replaced"
              /\ half_closed' = half_closed \union Slot!EndedConnections(new)
          BY <3>1, SlotFacts, Zenon DEF Slot!ReplacePaused, SlotType
        <4>2. slot.ended => new \in half_closed'
          BY <4>1 DEF Slot!EndedConnections
        <4>3. \A c \in 0..(new - 1) : c \in half_closed' \/ c = new - 1
          BY <4>1 DEF Slot!EndIsSignalled
        <4> QED
          BY <3>1, <4>1, <4>2, <4>3 DEF Slot!EndIsSignalled
      <3>2. CASE slot.closed
        BY <3>2 DEF Slot!ReplacePaused, Slot!EndIsSignalled
      <3> QED
        BY <3>1, <3>2
    <2>8. Slot!WindowsOnce'
      BY DEF Slot!ReplacePaused, Slot!EndedConnections, Slot!NotifyAll, Slot!WindowsOnce
    <2> QED
      BY <2>1, <2>2, <2>3, <2>4, <2>5, <2>6, <2>7, <2>8
  \* The old one learns that its requests ended.
  <1>8. ASSUME Slot!ShutdownOld PROVE SlotInd'
    <2> USE <1>8
    <2>1. SlotType'
      BY RelayConstants DEF Slot!ShutdownOld, SlotType, Slot!Connections, Slot!Outcomes
    <2>2. Paused'
      BY RelayConstants DEF Slot!ShutdownOld, SlotType, Paused, Writing
    <2>3. Slot!EndIsSignalled'
      BY RelayConstants DEF Slot!ShutdownOld, SlotType, Slot!EndIsSignalled, Slot!Connections
    <2>4. Sequence' /\ Writing' /\ Offsets'
      BY DEF Slot!ShutdownOld, Sequence, Writing, Offsets
    <2>5. Cleared' /\ Slot!WindowsOnce'
      BY DEF Slot!ShutdownOld, Cleared, Slot!WindowsOnce
    <2> QED
      BY <2>1, <2>2, <2>3, <2>4, <2>5
  \* The coordinator settles what has been tried.
  <1>9. ASSUME Slot!Settle PROVE SlotInd'
    <2> USE <1>9
    <2>1. SlotType'
      BY RelayConstants DEF Slot!Settle, SlotType, Slot!Connections, Slot!Outcomes
    <2>2. Cleared'
      BY SlotFacts DEF Slot!Settle, SlotType, Cleared, Paused, Writing
    <2>3. Sequence' /\ Writing' /\ Offsets'
      BY DEF Slot!Settle, Sequence, Writing, Offsets
    <2>4. Paused' /\ Slot!WindowsOnce' /\ Slot!EndIsSignalled'
      BY DEF Slot!Settle, Paused, Slot!WindowsOnce, Slot!EndIsSignalled
    <2> QED
      BY <2>1, <2>2, <2>3, <2>4
  \* The pause ends.
  <1>10. ASSUME Slot!Resume PROVE SlotInd'
    <2> USE <1>10
    <2>1. SlotType'
      BY RelayConstants, Zenon
         DEF Slot!Resume, Slot!NotifyAll, SlotType, Slot!Connections, Slot!Outcomes
    <2>2. Sequence'
      BY RelayConstants DEF Slot!Resume, Slot!NotifyAll, SlotType, Sequence
    <2>3. Writing'
      BY RelayConstants DEF Slot!Resume, Slot!NotifyAll, SlotType, Writing
    <2>4. Offsets'
      BY RelayConstants DEF Slot!Resume, Slot!NotifyAll, SlotType, Offsets
    <2>5. Paused'
      BY RelayConstants DEF Slot!Resume, Slot!NotifyAll, SlotType, Paused, Writing
    <2>6. Cleared'
      BY RelayConstants DEF Slot!Resume, Slot!NotifyAll, SlotType, Cleared, Writing
    <2>7. Slot!EndIsSignalled'
      BY RelayConstants
         DEF Slot!Resume, Slot!NotifyAll, SlotType, Slot!EndIsSignalled, Slot!Connections
    <2>8. Slot!WindowsOnce'
      BY DEF Slot!Resume, Slot!NotifyAll, Slot!WindowsOnce
    <2> QED
      BY <2>1, <2>2, <2>3, <2>4, <2>5, <2>6, <2>7, <2>8
  \* The slot is closed.
  <1>11. ASSUME Slot!Close PROVE SlotInd'
    <2> USE <1>11
    <2>1. SlotType'
      BY RelayConstants, Zenon
         DEF Slot!Close, Slot!NotifyAll, SlotType, Slot!Connections, Slot!Outcomes
    <2>2. Sequence'
      BY RelayConstants DEF Slot!Close, Slot!NotifyAll, SlotType, Sequence
    <2>3. Writing'
      BY RelayConstants DEF Slot!Close, Slot!NotifyAll, SlotType, Writing
    <2>4. Offsets'
      BY RelayConstants DEF Slot!Close, Slot!NotifyAll, SlotType, Offsets
    <2>5. Paused'
      BY RelayConstants DEF Slot!Close, Slot!NotifyAll, SlotType, Paused, Writing
    <2>6. Cleared'
      BY RelayConstants DEF Slot!Close, Slot!NotifyAll, SlotType, Cleared, Writing
    <2>7. Slot!EndIsSignalled'
      BY RelayConstants
         DEF Slot!Close, Slot!NotifyAll, SlotType, Slot!EndIsSignalled, Slot!Connections
    <2>8. Slot!WindowsOnce'
      BY DEF Slot!Close, Slot!NotifyAll, Slot!WindowsOnce
    <2> QED
      BY <2>1, <2>2, <2>3, <2>4, <2>5, <2>6, <2>7, <2>8
  <1> QED
    BY <1>1, <1>2, <1>3, <1>4, <1>5, <1>6, <1>7, <1>8, <1>9, <1>10, <1>11
       DEF Slot!Next, Slot!WriteEnds

-----------------------------------------------------------------------------
(* Steps of the pumps.                                                     *)

\* A read, the end of the source, a signal, an error and a write.
LEMMA PumpStep == ASSUME PumpInd, Copy!Next PROVE PumpInd'
  <1> USE DEF PumpInd
  <1>1. ASSUME Copy!Read PROVE PumpInd'
    <2>1. PICK n \in 1..left : held' = n /\ left' = left - n
      BY <1>1 DEF Copy!Read
    <2>2. /\ held = 0 /\ result = "none"
          /\ UNCHANGED <<way, given, flushed, told, lost, result>>
      BY <1>1 DEF Copy!Read, Copy!Running
    <2>3. held' \in Nat /\ left' \in Nat /\ flushed + held' + left' = given
      BY <2>1, <2>2
    <2> QED
      BY <2>2, <2>3, Zenon DEF Copy!NothingTruncated
  <1>2. ASSUME Copy!ReadEof PROVE PumpInd'
    <2>1. flushed = given /\ ~lost /\ UNCHANGED <<way, given, left, held, flushed, lost>>
      BY <1>2 DEF Copy!ReadEof, Copy!Running
    <2>2. \/ result' = "ok" /\ told' = TRUE
          \/ result' = "shutdown_error" /\ told' = FALSE
          \/ result' \in {"peer_closed", "client_gone"} /\ told' = told
      BY <1>2 DEF Copy!ReadEof, Copy!AtEof, Copy!EndUp
    <2> QED
      BY <2>1, <2>2, Zenon DEF Copy!NothingTruncated
  <1>3. ASSUME Copy!ReadInterrupted PROVE PumpInd'
    BY <1>3 DEF Copy!ReadInterrupted, Copy!OnInterrupt, Copy!NothingTruncated
  <1>4. ASSUME Copy!ReadFails PROVE PumpInd'
    <2>1. lost' = TRUE /\ UNCHANGED <<way, given, left, held, flushed>>
      BY <1>4 DEF Copy!ReadFails
    <2>2. (result' = "copy_error" /\ told' \in BOOLEAN) \/ (result' = "peer_closed" /\ told' = told)
      BY <1>4 DEF Copy!ReadFails, Copy!EndUp
    <2> QED
      BY <2>1, <2>2 DEF Copy!NothingTruncated
  <1>5. ASSUME Copy!Write PROVE PumpInd'
    <2>1. result = "none" /\ held' = 0 /\ UNCHANGED <<way, given, left, lost>>
      BY <1>5 DEF Copy!Write
    <2>2. \/ flushed' = flushed + held /\ UNCHANGED <<told, result>>
          \/ flushed' = flushed /\ result' = "copy_error" /\ told' \in BOOLEAN
          \/ flushed' = flushed /\ result' = "client_gone" /\ UNCHANGED told
      BY <1>5 DEF Copy!Write, Copy!EndUp
    <2>3. CASE flushed' = flushed + held /\ UNCHANGED <<told, result>>
      BY <2>1, <2>3 DEF Copy!NothingTruncated
    <2>4. CASE flushed' = flushed /\ result' = "copy_error" /\ told' \in BOOLEAN
      BY <2>1, <2>4 DEF Copy!NothingTruncated
    <2>5. CASE flushed' = flushed /\ result' = "client_gone" /\ UNCHANGED told
      BY <2>1, <2>5 DEF Copy!NothingTruncated
    <2> QED
      BY <2>2, <2>3, <2>4, <2>5
  <1> QED
    BY <1>1, <1>2, <1>3, <1>4, <1>5 DEF Copy!Next


-----------------------------------------------------------------------------
(* Steps of Observations.                                                  *)

\* There are finitely many streams.
LEMMA StreamsAreFinite == IsFiniteSet(Observed!Streams)
  BY RelayConstants, FS_Union, Zenon DEF Observed!Streams

\* A stream has more or fewer operations under way, and each direction one
\* stream more or less, or as many as before.
LEMMA UnderChanges ==
    ASSUME ObservedType, NEW s \in Observed!Streams, NEW X \in SUBSET Observed!Direction,
           under' = [under EXCEPT ![s] = X], NEW e \in Observed!Direction
    PROVE  /\ Cardinality(Busy(e)) \in Nat
           /\ (e \in X <=> e \in under[s]) => Cardinality(Busy(e)') = Cardinality(Busy(e))
           /\ e \in X /\ e \notin under[s] => Cardinality(Busy(e)') = Cardinality(Busy(e)) + 1
           /\ e \notin X /\ e \in under[s] =>
                 Cardinality(Busy(e)') = Cardinality(Busy(e)) - 1 /\ Cardinality(Busy(e)) >= 1
  <1>1. \A t \in Observed!Streams : under'[t] = IF t = s THEN X ELSE under[t]
    BY DEF ObservedType
  <1>2. Busy(e) \in SUBSET Observed!Streams /\ (s \in Busy(e) <=> e \in under[s])
    BY DEF Busy
  <1>3. /\ (e \in X <=> e \in under[s]) => Busy(e)' = Busy(e)
        /\ e \in X => Busy(e)' = Busy(e) \union {s}
        /\ e \notin X => Busy(e)' = Busy(e) \ {s}
    BY <1>1 DEF Busy
  <1>4. /\ Cardinality(Busy(e)) \in Nat
        /\ s \notin Busy(e) => Cardinality(Busy(e) \union {s}) = Cardinality(Busy(e)) + 1
        /\ s \in Busy(e) => Cardinality(Busy(e) \ {s}) = Cardinality(Busy(e)) - 1
                            /\ Cardinality(Busy(e)) >= 1
    BY <1>2, StreamsAreFinite, GuardCounts, Zenon
  <1> QED
    BY <1>2, <1>3, <1>4, Zenon

\* A stream opens or goes.
LEMMA OpenChanges ==
    ASSUME ObservedType, NEW s \in Observed!Streams, NEW now \in {"open", "dropped"},
           stream' = [stream EXCEPT ![s] = now]
    PROVE  /\ Cardinality(Open) \in Nat
           /\ now = "open" /\ stream[s] # "open" => Cardinality(Open') = Cardinality(Open) + 1
           /\ now # "open" /\ stream[s] = "open" => Cardinality(Open') = Cardinality(Open) - 1
  <1>1. \A t \in Observed!Streams : stream'[t] = IF t = s THEN now ELSE stream[t]
    BY DEF ObservedType
  <1>2. Open \in SUBSET Observed!Streams /\ (s \in Open <=> stream[s] = "open")
    BY DEF Open
  <1>3. /\ now = "open" => Open' = Open \union {s}
        /\ now # "open" => Open' = Open \ {s}
    BY <1>1 DEF Open
  <1>4. /\ Cardinality(Open) \in Nat
        /\ s \notin Open => Cardinality(Open \union {s}) = Cardinality(Open) + 1
        /\ s \in Open => Cardinality(Open \ {s}) = Cardinality(Open) - 1
    BY <1>2, StreamsAreFinite, GuardCounts, Zenon
  <1> QED
    BY <1>2, <1>3, <1>4, Zenon

\* Every event goes to the queue or is counted as lost.
LEMMA RecordKeeps ==
    ASSUME ObservedType, Events, Observed!Record \/ Observed!Silent, UNCHANGED taken
    PROVE  /\ events' \in Nat /\ lost_events' \in Nat /\ happened' \in Nat
           /\ happened' = taken' + events' + lost_events' /\ events' <= EventCapacity
  <1>1. /\ events \in Nat /\ lost_events \in Nat /\ happened \in Nat /\ taken \in Nat
        /\ happened = taken + events + lost_events /\ events <= EventCapacity /\ EventCapacity \in Nat
    BY RelayConstants DEF ObservedType, Events
  <1>2. \/ UNCHANGED <<events, lost_events, happened>>
        \/ happened' = happened + 1 /\ events' = events + 1 /\ events < EventCapacity /\ UNCHANGED lost_events
        \/ happened' = happened + 1 /\ lost_events' = lost_events + 1 /\ UNCHANGED events
    BY DEF Observed!Record, Observed!Silent
  <1>3. CASE UNCHANGED <<events, lost_events, happened>>
    BY <1>1, <1>3
  <1>4. CASE happened' = happened + 1 /\ events' = events + 1 /\ events < EventCapacity /\ UNCHANGED lost_events
    BY <1>1, <1>4
  <1>5. CASE happened' = happened + 1 /\ lost_events' = lost_events + 1 /\ UNCHANGED events
    BY <1>1, <1>5
  <1> QED
    BY <1>2, <1>3, <1>4, <1>5

\* An operation that begins is counted once.
LEMMA Begins ==
    ASSUME ObservedInd, NEW s \in Observed!Streams, NEW d \in Observed!Direction,
           Observed!Begin(s, d) \/ Observed!PollPending(s, d)
    PROVE  /\ under' \in [Observed!Streams -> SUBSET Observed!Direction]
           /\ pending' \in [Observed!Direction -> Nat]
           /\ Counted'
  <1> USE DEF ObservedInd
  <1>1. /\ stream[s] = "open" /\ under' = [under EXCEPT ![s] = under[s] \union {d}]
        /\ pending' = [pending EXCEPT ![d] = IF d \in under[s] THEN pending[d] ELSE pending[d] + 1]
        /\ UNCHANGED <<stream, connections>>
    BY DEF Observed!Begin, Observed!PollPending, Observed!Starts, Observed!Started
  <1>2. under[s] \union {d} \in SUBSET Observed!Direction
    BY DEF ObservedType
  <1>3. under' \in [Observed!Streams -> SUBSET Observed!Direction]
    BY <1>1, <1>2 DEF ObservedType
  <1>4. pending' \in [Observed!Direction -> Nat]
    BY <1>1 DEF ObservedType
  <1>5. ASSUME NEW e \in Observed!Direction PROVE pending'[e] = Cardinality(Busy(e)')
    <2>1. pending[e] = Cardinality(Busy(e)) /\ pending[e] \in Nat
      BY DEF Counted, ObservedType
    <2>2. pending'[e] = IF e = d /\ d \notin under[s] THEN pending[e] + 1 ELSE pending[e]
      BY <1>1 DEF ObservedType
    <2>3. e \in under[s] \union {d} <=> e \in under[s] \/ e = d
      OBVIOUS
    <2> QED
      BY <1>1, <1>2, <2>1, <2>2, <2>3, UnderChanges, Zenon
  <1>6. \A t \in Observed!Streams : under'[t] # {} => stream'[t] = "open"
    BY <1>1 DEF Counted, ObservedType
  <1> QED
    BY <1>1, <1>3, <1>4, <1>5, <1>6 DEF Counted, Open

\* An operation that ends is counted no more.
LEMMA Ends ==
    ASSUME ObservedInd, NEW s \in Observed!Streams, NEW d \in Observed!Direction,
           Observed!PendingDrop(s, d) \/ Observed!PollEnd(s, d)
    PROVE  /\ under' \in [Observed!Streams -> SUBSET Observed!Direction]
           /\ pending' \in [Observed!Direction -> Nat]
           /\ Counted' /\ UNCHANGED <<stream, taken>>
  <1> USE DEF ObservedInd
  <1>1. /\ under' = [under EXCEPT ![s] = under[s] \ {d}]
        /\ pending' = [pending EXCEPT ![d] = IF d \in under[s] THEN pending[d] - 1 ELSE pending[d]]
        /\ UNCHANGED <<stream, connections, taken>>
    BY DEF Observed!PendingDrop, Observed!PollEnd
  <1>2. under[s] \ {d} \in SUBSET Observed!Direction
    BY DEF ObservedType
  <1>3. under' \in [Observed!Streams -> SUBSET Observed!Direction]
    BY <1>1, <1>2 DEF ObservedType
  <1>4. ASSUME NEW e \in Observed!Direction
        PROVE pending'[e] = Cardinality(Busy(e)') /\ pending'[e] \in Nat
    <2>1. pending[e] = Cardinality(Busy(e)) /\ pending[e] \in Nat
      BY DEF Counted, ObservedType
    <2>2. pending'[e] = IF e = d /\ d \in under[s] THEN pending[e] - 1 ELSE pending[e]
      BY <1>1 DEF ObservedType
    <2>3. e \in under[s] \ {d} <=> e \in under[s] /\ e # d
      OBVIOUS
    <2>4. CASE e = d /\ d \in under[s]
      <3>1. Cardinality(Busy(e)') = Cardinality(Busy(e)) - 1 /\ Cardinality(Busy(e)) >= 1
        BY <1>1, <1>2, <2>3, <2>4, UnderChanges, Zenon
      <3>2. pending'[e] = pending[e] - 1
        BY <2>2, <2>4
      <3> QED
        BY <2>1, <3>1, <3>2
    <2>5. CASE ~(e = d /\ d \in under[s])
      BY <1>1, <1>2, <2>1, <2>2, <2>3, <2>5, UnderChanges, Zenon
    <2> QED
      BY <2>4, <2>5
  <1>5. pending' \in [Observed!Direction -> Nat]
    <2>1. DOMAIN pending' = Observed!Direction
      BY <1>1 DEF ObservedType
    <2>2. pending' = [e \in Observed!Direction |-> pending'[e]]
      BY <1>1, <2>1, Zenon DEF ObservedType
    <2> QED
      BY <1>4, <2>2
  <1>6. \A t \in Observed!Streams : under'[t] # {} => stream'[t] = "open"
    BY <1>1 DEF Counted, ObservedType
  <1> QED
    BY <1>1, <1>3, <1>4, <1>5, <1>6 DEF Counted, Open

\* With a stream go the operations it has under way.
LEMMA AllEnd ==
    ASSUME ObservedInd, NEW s \in Observed!Streams, Observed!Drop(s)
    PROVE  /\ under' \in [Observed!Streams -> SUBSET Observed!Direction]
           /\ pending' \in [Observed!Direction -> Nat]
           /\ stream' \in [Observed!Streams -> {"none", "open", "dropped"}]
           /\ Counted'
  <1> USE DEF ObservedInd
  <1>1. /\ stream[s] = "open" /\ stream' = [stream EXCEPT ![s] = "dropped"]
        /\ connections' = connections - 1 /\ under' = [under EXCEPT ![s] = {}]
        /\ pending' = [d \in Observed!Direction |-> pending[d] - (IF d \in under[s] THEN 1 ELSE 0)]
    BY DEF Observed!Drop, Observed!EndAll, Observed!ObservedDrop
  <1>2. ASSUME NEW e \in Observed!Direction
        PROVE pending'[e] = Cardinality(Busy(e)') /\ pending'[e] \in Nat
    <2>1. pending[e] = Cardinality(Busy(e)) /\ pending[e] \in Nat
      BY DEF Counted, ObservedType
    <2>2. {} \in SUBSET Observed!Direction /\ e \notin {}
      OBVIOUS
    <2>3. CASE e \in under[s]
      <3>1. pending'[e] = pending[e] - 1
        BY <1>1, <2>3
      <3>2. Cardinality(Busy(e)') = Cardinality(Busy(e)) - 1 /\ Cardinality(Busy(e)) >= 1
        BY <1>1, <2>2, <2>3, UnderChanges, Zenon
      <3> QED
        BY <2>1, <3>1, <3>2
    <2>4. CASE e \notin under[s]
      <3>1. pending'[e] = pending[e]
        BY <1>1, <2>1, <2>4
      <3>2. Cardinality(Busy(e)') = Cardinality(Busy(e))
        BY <1>1, <2>2, <2>4, UnderChanges, Zenon
      <3> QED
        BY <2>1, <3>1, <3>2
    <2> QED
      BY <2>3, <2>4
  <1>3. under' \in [Observed!Streams -> SUBSET Observed!Direction] /\ pending' \in [Observed!Direction -> Nat]
    BY <1>1, <1>2 DEF ObservedType
  <1>4. stream' \in [Observed!Streams -> {"none", "open", "dropped"}]
    BY <1>1 DEF ObservedType
  <1>5. connections' = Cardinality(Open')
    BY <1>1, OpenChanges, Zenon DEF Counted
  <1>6. \A t \in Observed!Streams : under'[t] # {} => stream'[t] = "open"
    BY <1>1 DEF Counted, ObservedType
  <1> QED
    BY <1>2, <1>3, <1>4, <1>5, <1>6 DEF Counted

\* Every step keeps the invariant, action by action and conjunct by conjunct.
LEMMA ObservedSteps == ASSUME ObservedInd, Observed!Next PROVE ObservedInd'
  <1> USE DEF ObservedInd
  \* The reader takes the queue.
  <1>1. ASSUME Observed!TakeEvents PROVE ObservedInd'
    <2> USE <1>1
    <2>1. ObservedType'
      BY RelayConstants DEF Observed!TakeEvents, ObservedType, Observed!Direction
    <2>2. Events'
      <3>1. /\ events \in Nat /\ taken \in Nat /\ lost_events \in Nat /\ EventCapacity \in Nat
            /\ happened = taken + events + lost_events /\ events <= EventCapacity
        BY RelayConstants DEF ObservedType, Events
      <3>2. CASE consumer
        BY <3>1, <3>2 DEF Observed!TakeEvents, Events
      <3>3. CASE ~consumer
        BY <3>1, <3>3 DEF Observed!TakeEvents, Events
      <3> QED
        BY <3>2, <3>3
    <2>3. Counted'
      BY DEF Observed!TakeEvents, Counted, Open, Busy
    <2> QED
      BY <2>1, <2>2, <2>3
  \* A stream is wrapped.
  <1>2. ASSUME NEW s \in Observed!Streams, Observed!Wrap(s) PROVE ObservedInd'
    <2> USE <1>2
    <2>1. ObservedType'
      <3>1. Observed!Record /\ UNCHANGED taken
        BY DEF Observed!Wrap, Observed!ObservedNew
      <3> QED
        BY <3>1, RecordKeeps DEF Observed!Wrap, Observed!ObservedNew, ObservedType
    <2>2. Counted'
      <3>1. /\ stream[s] # "open" /\ stream' = [stream EXCEPT ![s] = "open"]
            /\ connections' = connections + 1 /\ UNCHANGED <<under, pending>>
        BY DEF Observed!Wrap, Observed!ObservedNew
      <3>2. connections' = Cardinality(Open')
        BY <3>1, OpenChanges, Zenon DEF Counted
      <3>3. \A t \in Observed!Streams : under'[t] # {} => stream'[t] = "open"
        BY <3>1 DEF Counted, ObservedType
      <3> QED
        BY <3>1, <3>2, <3>3 DEF Counted, Busy
    <2>3. Events'
      <3>1. Observed!Record /\ UNCHANGED <<taken, last_progress, moved>>
        BY DEF Observed!Wrap, Observed!ObservedNew
      <3> QED
        BY <3>1, RecordKeeps DEF Events
    <2> QED
      BY <2>1, <2>2, <2>3
  \* What is pending ends with the stream.
  <1>3. ASSUME NEW s \in Observed!Streams, Observed!Drop(s) PROVE ObservedInd'
    <2> USE <1>3
    <2>1. ObservedType'
      <3>1. Observed!Record /\ UNCHANGED <<taken, last_progress>>
        BY DEF Observed!Drop, Observed!ObservedDrop
      <3> QED
        BY <3>1, AllEnd, RecordKeeps DEF ObservedType
    <2>2. Counted'
      BY AllEnd
    <2>3. Events'
      <3>1. Observed!Record /\ UNCHANGED <<taken, last_progress, moved>>
        BY DEF Observed!Drop, Observed!ObservedDrop
      <3> QED
        BY <3>1, RecordKeeps DEF Events
    <2> QED
      BY <2>1, <2>2, <2>3
  \* An operation is counted when it begins.
  <1>4. ASSUME NEW s \in Observed!Streams, NEW d \in Observed!Direction, Observed!Begin(s,
               d) \/ Observed!PollPending(s, d)
        PROVE ObservedInd'
    <2> USE <1>4
    <2>1. ObservedType'
      BY Begins DEF Observed!Begin, Observed!PollPending, Observed!Started, ObservedType
    <2>2. Counted'
      BY Begins
    <2>3. Events'
      BY DEF Observed!Begin, Observed!PollPending, Observed!Starts, Observed!Started, Events,
         Open, Busy
    <2> QED
      BY <2>1, <2>2, <2>3
  \* A read ends.
  <1>5. ASSUME NEW s \in Observed!Streams, NEW answer \in Observed!Answers, Observed!Read(s,
               answer) \/ Observed!PollRead(s, answer)
        PROVE ObservedInd'
    <2> USE <1>5
    <2>a. Observed!PendingDrop(s, "Read") \/ Observed!PollEnd(s, "Read")
      BY DEF Observed!Read, Observed!PollRead
    <2>b. "Read" \in Observed!Direction
      BY DEF Observed!Direction
    <2>c. Observed!Record \/ Observed!Silent
      BY DEF Observed!Read, Observed!PollRead, Observed!Failed, Observed!Transferred,
         Observed!ReadClosed
    <2>d. last_progress' = (IF answer = "bytes" THEN last_progress \union {"Read"} ELSE last_progress)
          /\ moved' = (IF answer = "bytes" THEN moved \union {"Read"} ELSE moved)
      BY DEF Observed!Read, Observed!PollRead, Observed!Moves, Observed!Failed,
         Observed!Transferred, Observed!ReadClosed
    <2>1. ObservedType'
      BY <2>a, <2>b, <2>c, <2>d, Ends, RecordKeeps DEF ObservedType
    <2>2. Counted'
      BY <2>a, <2>b, Ends
    <2>3. Events'
      BY <2>a, <2>b, <2>c, <2>d, Ends, RecordKeeps DEF Events
    <2> QED
      BY <2>1, <2>2, <2>3
  \* A write ends.
  <1>6. ASSUME NEW s \in Observed!Streams, NEW answer \in Observed!Answers, Observed!Write(s,
               answer) \/ Observed!PollWrite(s, answer)
        PROVE ObservedInd'
    <2> USE <1>6
    <2>a. Observed!PendingDrop(s, "Write") \/ Observed!PollEnd(s, "Write")
      BY DEF Observed!Write, Observed!PollWrite
    <2>b. "Write" \in Observed!Direction
      BY DEF Observed!Direction
    <2>c. Observed!Record \/ Observed!Silent
      BY DEF Observed!Write, Observed!PollWrite, Observed!Failed, Observed!Transferred,
         Observed!ReadClosed
    <2>d. last_progress' = (IF answer = "bytes" THEN last_progress \union {"Write"} ELSE last_progress)
          /\ moved' = (IF answer = "bytes" THEN moved \union {"Write"} ELSE moved)
      BY DEF Observed!Write, Observed!PollWrite, Observed!Moves, Observed!Failed,
         Observed!Transferred, Observed!ReadClosed
    <2>1. ObservedType'
      BY <2>a, <2>b, <2>c, <2>d, Ends, RecordKeeps DEF ObservedType
    <2>2. Counted'
      BY <2>a, <2>b, Ends
    <2>3. Events'
      BY <2>a, <2>b, <2>c, <2>d, Ends, RecordKeeps DEF Events
    <2> QED
      BY <2>1, <2>2, <2>3
  \* A flush or a shutdown ends.
  <1>7. ASSUME NEW s \in Observed!Streams, NEW answer \in Observed!Answers, Observed!Flush(s,
               answer) \/ Observed!PollFlush(s, answer)
        PROVE ObservedInd'
    <2> USE <1>7
    <2>a. Observed!PendingDrop(s, "Write") \/ Observed!PollEnd(s, "Write")
      BY DEF Observed!Flush, Observed!PollFlush
    <2>b. "Write" \in Observed!Direction
      BY DEF Observed!Direction
    <2>c. Observed!Record \/ Observed!Silent
      BY DEF Observed!Flush, Observed!PollFlush, Observed!Failed, Observed!Transferred,
         Observed!ReadClosed
    <2>d. UNCHANGED <<last_progress, moved>>
      BY DEF Observed!Flush, Observed!PollFlush, Observed!Moves, Observed!Failed,
         Observed!Transferred, Observed!ReadClosed
    <2>1. ObservedType'
      BY <2>a, <2>b, <2>c, <2>d, Ends, RecordKeeps DEF ObservedType
    <2>2. Counted'
      BY <2>a, <2>b, Ends
    <2>3. Events'
      BY <2>a, <2>b, <2>c, <2>d, Ends, RecordKeeps DEF Events
    <2> QED
      BY <2>1, <2>2, <2>3
  <1> QED
    BY <1>1, <1>2, <1>3, <1>4, <1>5, <1>6, <1>7 DEF Observed!Next, Observed!PollShutdown

-----------------------------------------------------------------------------
(* Beginnings and steps.                                                   *)

\* Nothing is owed.
LEMMA OutstandingBegins == ASSUME Init PROVE OutstandingInd
  <1>1. 0 \in EpochNumbers
    BY EpochsAreNat, OutstandingConstants
  <1>2. OutstandingType
    <2>1. None \in [Keys -> Nat] /\ None \in [Keys -> Int]
      BY DEF None
    <2>2. [e \in EpochNumbers |-> None] \in [EpochNumbers -> [Keys -> Nat]]
      BY <2>1
    <2> QED
      BY <1>1, <2>1, <2>2, Zenon DEF Init, OutstandingType
  <1>3. Owing /\ TracksExactly
    BY <1>1 DEF Init, Owing, TracksExactly, None
  <1>4. Guards
    BY FS_EmptySet DEF Init, Guards
  <1> QED
    BY <1>2, <1>3, <1>4 DEF OutstandingInd

\* The first connection is there and empty.
LEMMA SlotBegins == ASSUME Slot!Init PROVE SlotInd
  <1>1. 0 \in Slot!Connections /\ 0 \in 0..MaxOffset
    BY RelayConstants DEF Slot!Connections
  <1>2. /\ slot.generation = 0 /\ slot.base = 0 /\ slot.written = 0 /\ ~slot.closed /\ ~slot.ended
        /\ \A c \in Slot!Connections : wire[c] = <<>> /\ Len(wire[c]) = 0 /\ DOMAIN wire[c] = {}
    <2>1. wire = [c \in Slot!Connections |-> <<>>]
      BY DEF Slot!Init
    <2>2. Len(<<>>) = 0 /\ DOMAIN <<>> = {}
      OBVIOUS
    <2> QED
      BY <2>1, <2>2 DEF Slot!Init
  <1>3. SlotType
    <2>1. slot \in [generation : Slot!Connections, paused : BOOLEAN, at_boundary : BOOLEAN,
                   base : Nat, written : 0..MaxOffset,
                   failed : BOOLEAN, ended : BOOLEAN, closed : BOOLEAN]
      <3>1. slot = [generation |-> 0, paused |-> FALSE, at_boundary |-> TRUE, base |-> 0,
                    written |-> 0, failed |-> FALSE, ended |-> FALSE, closed |-> FALSE]
        BY DEF Slot!Init
      <3> QED
        BY <1>1, <3>1
    <2>2. wire \in [Slot!Connections -> Seq(Nat \X Slot!Outcomes)]
      <3>1. <<>> \in Seq(Nat \X Slot!Outcomes) /\ wire = [c \in Slot!Connections |-> <<>>]
        BY DEF Slot!Init
      <3> QED
        BY <3>1
    <2> QED
      BY <1>1, <2>1, <2>2, Zenon DEF Slot!Init, SlotType
  <1>4. Sequence
    BY <1>2 DEF Slot!Init, Sequence
  <1>5. Writing
    <2>1. DOMAIN wire[slot.generation] = {} /\ failed_on = 0 /\ upstream = "reading"
      BY <1>1, <1>2 DEF Slot!Init
    <2>2. failed_on <= slot.generation
      BY <1>2, <2>1
    <2> QED
      BY <2>1, <2>2 DEF Writing
  <1>6. Offsets
    <2>1. wire[0] = <<>> /\ Len(wire[0]) = 0
      BY <1>1, <1>2
    <2> QED
      BY <1>2, <2>1 DEF Offsets
  <1>7. Paused /\ Cleared
    BY <1>1, <1>2 DEF Slot!Init, Paused, Cleared
  <1>8. Slot!WindowsOnce
    BY <1>2 DEF Slot!WindowsOnce
  <1>9. Slot!EndIsSignalled
    BY <1>2 DEF Slot!EndIsSignalled
  <1> QED
    BY <1>3, <1>4, <1>6, <1>7, <1>8, <1>9, <1>5 DEF SlotInd

\* The source has all its bytes.
LEMMA PumpBegins == ASSUME Copy!Init PROVE PumpInd
  <1>1. given \in Nat
    BY RelayConstants DEF Copy!Init
  <1>2. flushed + held + left = given
    BY <1>1 DEF Copy!Init
  <1> QED
    BY <1>1, <1>2, Zenon DEF Copy!Init, PumpInd, Copy!NothingTruncated

\* No stream is wrapped.
LEMMA ObservedBegins == ASSUME Observed!Init PROVE ObservedInd
  <1>1. Open = {} /\ \A d \in Observed!Direction : Busy(d) = {}
    BY DEF Observed!Init, Open, Busy
  <1>2. ObservedType
    BY DEF Observed!Init, ObservedType
  <1>3. Counted
    BY <1>1, FS_EmptySet DEF Observed!Init, Counted
  <1>4. Events
    BY RelayConstants DEF Observed!Init, Events
  <1> QED
    BY <1>2, <1>3, <1>4 DEF ObservedInd

\* What does not move keeps its invariant.
LEMMA AtRest ==
    /\ OutstandingInd /\ UNCHANGED vars => OutstandingInd'
    /\ SlotInd /\ UNCHANGED slot_vars => SlotInd'
    /\ PumpInd /\ UNCHANGED pump_vars => PumpInd'
    /\ ObservedInd /\ UNCHANGED observation_vars => ObservedInd'
  <1>1. OutstandingInd /\ UNCHANGED vars => OutstandingInd'
    <2>1. OutstandingType /\ UNCHANGED vars => OutstandingType'
      BY DEF vars, OutstandingType
    <2>2. Owing /\ UNCHANGED vars => Owing'
      BY DEF vars, Owing
    <2>3. Guards /\ TracksExactly /\ UNCHANGED vars => Guards' /\ TracksExactly'
      BY DEF vars, Guards, TracksExactly
    <2> QED
      BY <2>1, <2>2, <2>3 DEF OutstandingInd
  <1>2. SlotInd /\ UNCHANGED slot_vars => SlotInd'
    <2>1. SlotType /\ Sequence /\ UNCHANGED slot_vars => SlotType' /\ Sequence'
      BY DEF slot_vars, SlotType, Sequence
    <2>2. Writing /\ UNCHANGED slot_vars => Writing'
      BY DEF slot_vars, Writing
    <2>3. Offsets /\ UNCHANGED slot_vars => Offsets'
      BY DEF slot_vars, Offsets
    <2>4. Paused /\ UNCHANGED slot_vars => Paused'
      BY DEF slot_vars, Paused
    <2>5. Cleared /\ UNCHANGED slot_vars => Cleared'
      BY DEF slot_vars, Cleared
    <2>6. /\ Slot!WindowsOnce /\ UNCHANGED slot_vars => Slot!WindowsOnce'
          /\ Slot!EndIsSignalled /\ UNCHANGED slot_vars => Slot!EndIsSignalled'
      BY DEF slot_vars, Slot!WindowsOnce, Slot!EndIsSignalled
    <2> QED
      BY <2>1, <2>2, <2>3, <2>4, <2>5, <2>6 DEF SlotInd
  <1>3. PumpInd /\ UNCHANGED pump_vars => PumpInd'
    BY DEF pump_vars, PumpInd, Copy!NothingTruncated
  <1>4. ObservedInd /\ UNCHANGED observation_vars => ObservedInd'
    BY DEF observation_vars, ObservedInd, ObservedType, Counted, Events, Open, Busy
  <1> QED
    BY <1>1, <1>2, <1>3, <1>4

\* The invariant of the whole session.
THEOREM RelayInvariant == RelaySpec => []RelayInd
  <1> DEFINE all == <<part, vars, slot_vars, pump_vars, observation_vars>>
  <1>1. RelayInit => RelayInd
    BY OutstandingBegins, SlotBegins, PumpBegins, ObservedBegins DEF RelayInit, RelayInd
  <1>2. RelayInd /\ [RelayNext]_all => RelayInd'
    BY OutstandingSteps, SlotSteps, PumpStep, ObservedSteps, AtRest DEF RelayNext, RelayInd
  <1> QED
    BY <1>1, <1>2, PTL DEF RelaySpec

-----------------------------------------------------------------------------
(* What the session promises.                                              *)

\* The set of outstanding requests is exact: unless it has overflowed it holds
\* what the client is owed, and it says it is settled only when nothing is owed
\* and no failure or transition is under way (Outstanding::begin, settle,
\* is_settled).
THEOREM OutstandingCorrect == RelaySpec => []OutstandingIsExact
  <1>1. ASSUME OutstandingInd PROVE OutstandingIsExact
    <2> USE <1>1 DEF OutstandingInd
    <2>1. IsFiniteSet(reporting) /\ IsFiniteSet(moving)
      BY OutstandingConstants, FS_Subset DEF OutstandingType
    <2>2. ASSUME Settled PROVE reporting = {} /\ moving = {}
      BY <2>1, <2>2, FS_EmptySet, Zenon DEF Guards, Settled
    <2>3. ASSUME Settled, NEW k \in Keys PROVE owed[k] = 0
      <3>1. keys[k] = 0 /\ keys[k] = owed[k] + replied[epoch][k]
        BY <2>3 DEF Settled, TracksExactly
      <3>2. owed[k] \in Nat /\ replied[epoch][k] \in Nat
        BY DEF OutstandingType, Owing
      <3> QED
        BY <3>1, <3>2
    <2> QED
      BY <2>2, <2>3 DEF OutstandingIsExact, SettledMeansAnswered
  <1> QED
    BY <1>1, RelayInvariant, PTL DEF RelayInd

\* A window goes out at most once and in order, a pause holds until the next
\* replacement, every connection learns that its requests ended, and a pump
\* that ends well has dropped nothing (WriterSlot, pump_upstream,
\* pump_downstream).
THEOREM BytesCorrect == RelaySpec => []BytesArriveOnce
  <1>1. ASSUME SlotInd PROVE Slot!WindowsOnce /\ Slot!PauseHolds /\ Slot!EndIsSignalled
    <2>1. coordinator = "pausing" => slot.paused
      BY <1>1 DEF SlotInd, Paused
    <2>2. \A w \in cleared : w < window \/ (upstream = "stranded" /\ failed_on < slot.generation)
      BY <1>1 DEF SlotInd, Cleared
    <2>3. Slot!PauseHolds
      BY <1>1, <2>1, <2>2 DEF SlotInd, Paused, Writing, Slot!PauseHolds
    <2> QED
      BY <1>1, <2>3 DEF SlotInd
  <1>2. RelayInd => BytesArriveOnce
    BY <1>1 DEF RelayInd, PumpInd, BytesArriveOnce
  <1> QED
    BY <1>2, RelayInvariant, PTL

\* The module's own cardinality is the usual one.
LEMMA SameCardinality == \A S : Observed!Cardinality(S) = Cardinality(S)
  BY DEF Observed!Cardinality, Cardinality

\* Operations in progress, open connections and events are each counted once,
\* however often an operation is polled and whenever its stream is dropped
\* (Observations, ObservedIo, AsyncObservedIo).
THEOREM CountersCorrect == RelaySpec => []CountersAddUp
  <1>1. ASSUME ObservedInd PROVE CountersAddUp
    <2> USE <1>1 DEF ObservedInd
    <2>1. ASSUME NEW d \in Observed!Direction
          PROVE  LET busy == {s \in Observed!Streams : stream[s] = "open" /\ d \in under[s]}
                 IN  /\ pending[d] = Cardinality(busy)
                     /\ pending[d] # 0 <=> busy # {}
                     /\ d \in last_progress <=> d \in moved
      <3> DEFINE busy == {s \in Observed!Streams : stream[s] = "open" /\ d \in under[s]}
      <3>1. busy = Busy(d) /\ pending[d] = Cardinality(Busy(d))
        BY DEF Counted, Busy
      <3>2. IsFiniteSet(busy)
        BY StreamsAreFinite, FS_Subset
      <3>3. Cardinality(busy) = 0 <=> busy = {}
        BY <3>2, FS_EmptySet
      <3> QED
        BY <3>1, <3>3 DEF Events
    <2>2. ASSUME NEW d \in Observed!Direction
          PROVE  LET busy == {s \in Observed!Streams : stream[s] = "open" /\ d \in under[s]}
                 IN  Observed!ProgressSnapshot(d) =
                        [pending |-> Cardinality(busy), busy |-> busy # {}, progress |-> d \in moved]
      <3> DEFINE busy == {s \in Observed!Streams : stream[s] = "open" /\ d \in under[s]}
      <3>1. pending[d] = Cardinality(busy) /\ (pending[d] # 0) = (busy # {})
        BY <2>1, Zenon
      <3>2. last_progress = moved
        BY DEF Events
      <3> QED
        BY <3>1, <3>2, Zenon DEF Observed!ProgressSnapshot
    <2>3. connections = Cardinality({s \in Observed!Streams : stream[s] = "open"})
      BY DEF Counted, Open
    <2> QED
      BY <2>2, <2>3, SameCardinality, Zenon DEF CountersAddUp, Observed!CountersAddUp, Events
  <1> QED
    BY <1>1, RelayInvariant, PTL DEF RelayInd
==============================================================================

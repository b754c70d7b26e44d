----------------------------- MODULE ServeProofs -----------------------------
(***************************************************************************)
(* The safety properties of Serve for any number of connections, any       *)
(* limits and any drain budget.                                            *)
(*                                                                         *)
(* What the loop reports at its end is the sum of what it did before, so   *)
(* the inductive invariant says at every position which connection is in   *)
(* hand (InHand), that the counts are those of the fates so far (Counts),  *)
(* and what has happened to the handlers (Joined, Aborts) and to the last  *)
(* connection of a drain (LetGo, Late).                                    *)
(***************************************************************************)
EXTENDS Serve, FiniteSetTheorems, TLAPS

\* The connection between accept and its decision is in hand, and no other.
InHand ==
    /\ \A c \in Connections : c \in hand <=> state[c] \in {"accepted", "permitted"}
    /\ \A c, d \in hand : c = d
    /\ pc \notin {"authenticate", "check", "spawn"} => hand = {}
    /\ \A c \in hand : state[c] = IF pc = "authenticate" THEN "accepted" ELSE "permitted"

\* Connections that hold a permit of p.
Holders(p) == {c \in Are({"permitted"} \union Running) : p \in pool[c]}

\* Capacity.active counts the permits that are alive.
Permits == \A p \in Pools : active[p] = others[p] + Cardinality(Holders(p)) /\ active[p] <= Limit[p]

\* Served so far.
Counts ==
    /\ served.unauthenticated = Cardinality(Are({"rejected"}))
    /\ served.over_capacity = Cardinality(Are({"refused"}))
    /\ served.admitted = Cardinality(Are(Running \union Ended))
    /\ served.aborted = Cardinality(joined \intersect Are({"cancelled"}))

\* A handler is joined after it has ended, and run() returns without handlers.
Joined ==
    /\ \A c \in joined : state[c] \in Ended
    /\ pc = "returned" => \A c \in Connections : state[c] \in Running \union Ended => c \in joined

\* Handlers are aborted by finish() after its deadline, or with the future.
Aborts ==
    \A c \in Connections :
        state[c] \in {"aborting", "cancelled"} =>
            pc \in {"reap", "returned", "dropped"} /\ (pc # "dropped" => left = 0)

\* One connection at most is let go, and the loop stops with it.
LetGo ==
    /\ pc \notin {"finish", "reap", "returned", "dropped"} => stopped = "no"
    /\ \A c \in Connections :
          state[c] = "let go" =>
              stopped = "Ok" /\ \A d \in Connections : state[d] = "let go" => c = d

\* After a late connection the loop comes to none of the places where it would
\* take another one, or serve this one.
Late ==
    /\ late # {} => draining /\ pc \notin {"join", "accept", "backoff", "spawn"}
    /\ \A c, d \in late : c = d
    /\ \A c \in late : state[c] \notin Running \union Ended \union {"absent"}

IndInv ==
    /\ TypeOK /\ InHand /\ Permits /\ Counts /\ Joined /\ Aborts /\ LetGo /\ Late

-----------------------------------------------------------------------------
(* Sets of connections and their sizes.                                    *)

\* The limits are natural numbers.
LEMMA LimitType == Limit \in [Pools -> Nat]
  BY ServeConstants DEF Limit

\* Sets of connections are finite.
LEMMA Finite ==
    ASSUME NEW S \in SUBSET Connections
    PROVE  IsFiniteSet(S) /\ Cardinality(S) \in Nat
  BY ServeConstants, FS_Subset, FS_CardinalityType

\* A new member counts one more.
LEMMA Grows ==
    ASSUME NEW S \in SUBSET Connections, NEW c \in Connections, c \notin S
    PROVE  Cardinality(S \union {c}) = Cardinality(S) + 1
  BY Finite, FS_AddElement

\* A lost member counts one less.
LEMMA Shrinks ==
    ASSUME NEW S \in SUBSET Connections, NEW c \in Connections, c \in S
    PROVE  Cardinality(S \ {c}) = Cardinality(S) - 1 /\ Cardinality(S) >= 1
  <1>1. IsFiniteSet(S \ {c}) /\ Cardinality(S \ {c}) \in Nat
    BY Finite
  <1>2. (S \ {c}) \union {c} = S
    OBVIOUS
  <1>3. Cardinality((S \ {c}) \union {c}) = Cardinality(S \ {c}) + 1
    BY <1>1, Grows
  <1> QED
    BY <1>1, <1>2, <1>3

\* No member, and one at most.
LEMMA Few ==
    ASSUME NEW S \in SUBSET Connections, \A c, d \in S : c = d
    PROVE  Cardinality(S) <= 1
  <1>1. CASE S = {}
    BY <1>1, FS_EmptySet
  <1>2. ASSUME NEW c \in S PROVE Cardinality(S) <= 1
    <2>1. S = {} \union {c}
      OBVIOUS
    <2>2. Cardinality({} \union {c}) = 1
      BY FS_EmptySet, FS_AddElement
    <2> QED
      BY <2>1, <2>2
  <1> QED
    BY <1>1, <1>2

\* The counts are numbers, and so is one more.
LEMMA Served ==
    ASSUME TypeOK, NEW count \in {"admitted", "unauthenticated", "over_capacity", "aborted"}
    PROVE  [served EXCEPT ![count] = @ + 1]
              \in [{"admitted", "unauthenticated", "over_capacity", "aborted"} -> Nat]
  BY DEF TypeOK

\* Where no connection enters or leaves a set of fates, the set is the same.
LEMMA SameAre ==
    ASSUME NEW fates, \A c \in Connections : state'[c] \in fates <=> state[c] \in fates
    PROVE  Are(fates)' = Are(fates)
  BY DEF Are

\* One connection comes to one of these fates.
LEMMA MoreAre ==
    ASSUME TypeOK, NEW fates, NEW c \in Connections, NEW fate,
           state' = [state EXCEPT ![c] = fate], state[c] \notin fates, fate \in fates
    PROVE  Cardinality(Are(fates)') = Cardinality(Are(fates)) + 1
  <1>1. Are(fates)' = Are(fates) \union {c}
    BY DEF TypeOK, Are
  <1>2. c \notin Are(fates) /\ Are(fates) \in SUBSET Connections
    BY DEF Are
  <1> QED
    BY <1>1, <1>2, Grows

\* A permit lives as long as its connection is permitted or its handler runs.
Holding == {"permitted"} \union Running

\* The number of permits held is a number.
LEMMA HoldersCount ==
    \A p : Holders(p) \in SUBSET Connections /\ Cardinality(Holders(p)) \in Nat
  <1>1. \A p : Holders(p) \in SUBSET Connections
    BY DEF Holders, Are
  <1> QED
    BY <1>1, Finite

\* No permit is taken or dropped.
LEMMA PermitsStay ==
    ASSUME Permits, UNCHANGED <<active, others, pool>>,
           \A c \in Connections : state'[c] \in Holding <=> state[c] \in Holding
    PROVE  Permits'
  <1>1. \A p : Holders(p)' = Holders(p)
    BY SameAre DEF Holders, Holding
  <1> QED
    BY <1>1 DEF Permits

\* A connection that held a permit drops it.
LEMMA PermitDropped ==
    ASSUME TypeOK, Permits, UNCHANGED <<others, pool>>, NEW c \in Connections, NEW fate,
           state[c] \in Holding, fate \notin Holding, state' = [state EXCEPT ![c] = fate],
           Release(c)
    PROVE  Permits' /\ active' \in [Pools -> Nat]
  <1>1. ASSUME NEW p \in Pools
        PROVE  /\ active'[p] \in Nat
               /\ active'[p] = others'[p] + Cardinality(Holders(p)') /\ active'[p] <= Limit[p]
    <2>1. active[p] \in Nat /\ others[p] \in Nat /\ Limit[p] \in Nat
      BY LimitType, ServeConstants DEF TypeOK
    <2>2. Holders(p) \in SUBSET Connections /\ Cardinality(Holders(p)) \in Nat
      BY HoldersCount
    <2>3. CASE p \in pool[c]
      <3>1. c \in Holders(p) /\ Holders(p)' = Holders(p) \ {c}
        BY <2>3 DEF TypeOK, Holders, Are, Holding
      <3>2. Cardinality(Holders(p)') = Cardinality(Holders(p)) - 1 /\ Cardinality(Holders(p)) >= 1
        BY <2>2, <3>1, Shrinks
      <3>3. active'[p] = active[p] - 1
        BY <2>3 DEF Release
      <3> QED
        BY <2>1, <2>2, <3>2, <3>3 DEF Permits
    <2>4. CASE p \notin pool[c]
      <3>1. Holders(p)' = Holders(p)
        BY <2>4 DEF TypeOK, Holders, Are, Holding
      <3>2. active'[p] = active[p]
        BY <2>4 DEF Release
      <3> QED
        BY <2>1, <3>1, <3>2 DEF Permits
    <2> QED
      BY <2>3, <2>4
  <1>2. active' \in [Pools -> Nat]
    BY <1>1 DEF Release
  <1> QED
    BY <1>1, <1>2 DEF Permits

\* No fate that run() counts changes.
LEMMA CountsStay ==
    ASSUME Counts, Joined, UNCHANGED <<served, joined>>,
           \A c \in Connections :
               /\ state'[c] = "rejected" <=> state[c] = "rejected"
               /\ state'[c] = "refused" <=> state[c] = "refused"
               /\ state'[c] \in Running \union Ended <=> state[c] \in Running \union Ended
               /\ state[c] \in Ended => state'[c] = state[c]
    PROVE  Counts'
  <1>1. /\ Are({"rejected"})' = Are({"rejected"})
        /\ Are({"refused"})' = Are({"refused"})
        /\ Are(Running \union Ended)' = Are(Running \union Ended)
    BY SameAre
  <1>2. (joined \intersect Are({"cancelled"}))' = joined \intersect Are({"cancelled"})
    BY DEF Are, Joined
  <1> QED
    BY <1>1, <1>2 DEF Counts

-----------------------------------------------------------------------------
(* One lemma for each step.                                                *)

\* Admission::try_acquire elsewhere.
LEMMA TakePermitInd == ASSUME IndInv, NEW p \in Pools, TakePermit(p) PROVE IndInv'
  <1> USE DEF IndInv
  <1>1. TypeOK'
    <2>1. active[p] \in Nat /\ others[p] \in Nat /\ MaxOthers \in Nat
      BY ServeConstants DEF TypeOK
    <2>2. Cardinality(Holders(p)) \in Nat /\ active[p] = others[p] + Cardinality(Holders(p))
      BY HoldersCount DEF Permits
    <2>3. active[p] + 1 \in Nat /\ others[p] + 1 \in 0..MaxOthers
      BY <2>1, <2>2 DEF TakePermit, TypeOK
    <2>4. active' \in [Pools -> Nat] /\ others' \in [Pools -> 0..MaxOthers]
      BY <2>3 DEF TakePermit, TypeOK
    <2> QED
      BY <2>4 DEF TakePermit, TypeOK
  <1>2. Permits'
    <2>1. \A q : Holders(q)' = Holders(q)
      BY DEF TakePermit, Holders, Are
    <2>2. \A q \in Pools : active[q] \in Nat /\ others[q] \in Nat /\ Limit[q] \in Nat
      BY ServeConstants, LimitType DEF TypeOK
    <2>3. \A q \in Pools : Cardinality(Holders(q)) \in Nat
      BY HoldersCount
    <2>4. \A q \in Pools :
            /\ active'[q] = IF q = p THEN active[q] + 1 ELSE active[q]
            /\ others'[q] = IF q = p THEN others[q] + 1 ELSE others[q]
      BY DEF TakePermit, TypeOK
    <2>5. active[p] + 1 <= Limit[p]
      BY <2>2 DEF TakePermit, Free, Permits
    <2> QED
      BY <2>1, <2>2, <2>3, <2>4, <2>5 DEF Permits
  <1>3. InHand' /\ Counts' /\ Joined' /\ Aborts' /\ LetGo' /\ Late'
    BY Zenon DEF TakePermit, InHand, Counts, Joined, Aborts, LetGo, Late, Are
  <1> QED
    BY <1>1, <1>2, <1>3

\* Permit::drop elsewhere.
LEMMA GivePermitInd == ASSUME IndInv, NEW p \in Pools, GivePermit(p) PROVE IndInv'
  <1> USE DEF IndInv
  <1>1. TypeOK'
    <2>1. active[p] \in Nat /\ others[p] \in Nat /\ MaxOthers \in Nat
      BY ServeConstants DEF TypeOK
    <2>2. Cardinality(Holders(p)) \in Nat /\ active[p] = others[p] + Cardinality(Holders(p))
      BY HoldersCount DEF Permits
    <2>3. active[p] - 1 \in Nat /\ others[p] - 1 \in 0..MaxOthers
      BY <2>1, <2>2 DEF GivePermit, TypeOK
    <2>4. active' \in [Pools -> Nat] /\ others' \in [Pools -> 0..MaxOthers]
      BY <2>3 DEF GivePermit, TypeOK
    <2> QED
      BY <2>4 DEF GivePermit, TypeOK
  <1>2. Permits'
    <2>1. \A q : Holders(q)' = Holders(q)
      BY DEF GivePermit, Holders, Are
    <2>2. \A q \in Pools : active[q] \in Nat /\ others[q] \in Nat /\ Limit[q] \in Nat
      BY ServeConstants, LimitType DEF TypeOK
    <2>3. \A q \in Pools : Cardinality(Holders(q)) \in Nat
      BY HoldersCount
    <2>4. \A q \in Pools :
            /\ active'[q] = IF q = p THEN active[q] - 1 ELSE active[q]
            /\ others'[q] = IF q = p THEN others[q] - 1 ELSE others[q]
      BY DEF GivePermit, TypeOK
    <2>5. active[p] - 1 <= Limit[p]
      BY <2>2 DEF GivePermit, Free, Permits
    <2> QED
      BY <2>1, <2>2, <2>3, <2>4, <2>5 DEF Permits
  <1>3. InHand' /\ Counts' /\ Joined' /\ Aborts' /\ LetGo' /\ Late'
    BY Zenon DEF GivePermit, InHand, Counts, Joined, Aborts, LetGo, Late, Are
  <1> QED
    BY <1>1, <1>2, <1>3

\* start_drain.
LEMMA StartDrainInd == ASSUME IndInv, StartDrain PROVE IndInv'
  <1> USE DEF IndInv
  <1>1. TypeOK'
    BY Zenon DEF StartDrain, TypeOK, Fates, Running, Ended, Positions
  <1>2. Late'
    BY DEF StartDrain, Late, TypeOK, InHand, Running, Ended
  <1>3. InHand' /\ Permits' /\ Counts' /\ Joined' /\ Aborts' /\ LetGo'
    BY Zenon DEF StartDrain, InHand, Permits, Counts, Joined, Aborts, LetGo, Are, Holders
  <1> QED
    BY <1>1, <1>2, <1>3

\* The first branch of the loop.
LEMMA PollDrainingInd == ASSUME IndInv, PollDraining PROVE IndInv'
  <1> USE DEF IndInv
  <1>1. TypeOK'
    BY Zenon DEF PollDraining, Goto, Stop, TypeOK, Fates, Running, Ended, Positions
  <1>2. InHand'
    BY DEF PollDraining, Goto, Stop, InHand, TypeOK, Running
  <1>3. Joined'
    BY DEF PollDraining, Goto, Stop, Joined, InHand, TypeOK, Running, Ended
  <1>4. Aborts'
    BY DEF PollDraining, Goto, Stop, Aborts, TypeOK, Running, Ended, Joined
  <1>5. LetGo'
    BY Zenon DEF PollDraining, Goto, Stop, LetGo, TypeOK, Running
  <1>6. Late'
    BY DEF PollDraining, Goto, Stop, Late, TypeOK, InHand, Running, Ended
  <1>7. Permits' /\ Counts'
    BY DEF PollDraining, Goto, Stop, Permits, Counts, Are, Holders
  <1> QED
    BY <1>1, <1>2, <1>3, <1>4, <1>5, <1>6, <1>7

\* The second branch: no handler is cancelled while the loop runs.
LEMMA PollHandlersInd == ASSUME IndInv, PollHandlers PROVE IndInv'
  <1> USE DEF IndInv
  <1>1. TypeOK'
    BY Zenon DEF PollHandlers, Goto, Handlers, Are, TypeOK, Fates, Running, Ended, Positions
  <1>2. InHand'
    BY DEF PollHandlers, Goto, Handlers, Are, InHand, TypeOK, Running
  <1>3. Counts'
    <2>1. Are({"cancelled"}) = {}
      BY DEF PollHandlers, Aborts, Are
    <2>2. UNCHANGED <<state, served>>
      BY DEF PollHandlers, Goto
    <2>3. \A fates : Are(fates)' = Are(fates)
      BY <2>2, SameAre
    <2>4. (joined \intersect Are({"cancelled"}))' = joined \intersect Are({"cancelled"})
      BY <2>1, <2>3
    <2> QED
      BY <2>2, <2>3, <2>4 DEF Counts
  <1>4. Joined'
    BY DEF PollHandlers, Goto, Handlers, Are, Joined, InHand, TypeOK, Running, Ended
  <1>5. Aborts'
    BY DEF PollHandlers, Goto, Handlers, Are, Aborts, TypeOK, Running, Ended, Joined
  <1>6. LetGo'
    BY Zenon DEF PollHandlers, Goto, Handlers, Are, LetGo, TypeOK, Running
  <1>7. Late'
    BY DEF PollHandlers, Goto, Handlers, Are, Late, TypeOK, InHand, Running, Ended
  <1>8. Permits'
    BY DEF PollHandlers, Goto, Handlers, Are, Permits, Are, Holders
  <1> QED
    BY <1>1, <1>2, <1>3, <1>4, <1>5, <1>6, <1>7, <1>8

\* Nothing to accept.
LEMMA ParkInd == ASSUME IndInv, Park PROVE IndInv'
  <1> USE DEF IndInv
  <1>1. TypeOK'
    BY Zenon DEF Park, Goto, TypeOK, Fates, Running, Ended, Positions
  <1>2. InHand'
    BY DEF Park, Goto, InHand, TypeOK, Running
  <1>3. Joined'
    BY DEF Park, Goto, Joined, InHand, TypeOK, Running, Ended
  <1>4. Aborts'
    BY DEF Park, Goto, Aborts, TypeOK, Running, Ended, Joined
  <1>5. LetGo'
    BY Zenon DEF Park, Goto, LetGo, TypeOK, Running
  <1>6. Late'
    BY DEF Park, Goto, Late, TypeOK, InHand, Running, Ended
  <1>7. Permits' /\ Counts'
    BY DEF Park, Goto, Permits, Counts, Are, Holders
  <1> QED
    BY <1>1, <1>2, <1>3, <1>4, <1>5, <1>6, <1>7

\* The third branch: during a drain nothing else was accepted late.
LEMMA AcceptInd == ASSUME IndInv, NEW c \in Connections, Accept(c) PROVE IndInv'
  <1> USE DEF IndInv
  <1>1. TypeOK'
    <2>1. Cardinality(hand') <= 1 /\ hand' \subseteq Connections
      BY Few DEF Accept
    <2>2. state' \in [Connections -> Fates]
      BY Zenon DEF Accept, TypeOK, Fates
    <2> QED
      BY <2>1, <2>2 DEF Accept, Goto, TypeOK, Positions
  <1>2. InHand'
    BY DEF Accept, Goto, InHand, TypeOK, Running
  <1>3. Permits'
    BY PermitsStay DEF Accept, Goto, InHand, TypeOK, Holding, Running
  <1>4. Counts'
    BY CountsStay DEF Accept, Goto, InHand, TypeOK, Running, Ended
  <1>5. Joined'
    BY DEF Accept, Goto, Joined, InHand, TypeOK, Running, Ended
  <1>6. Aborts'
    BY DEF Accept, Goto, Aborts, TypeOK, Running, Ended, Joined
  <1>7. LetGo'
    BY Zenon DEF Accept, Goto, LetGo, TypeOK, Running
  <1>8. Late'
    BY DEF Accept, Goto, Late, TypeOK, InHand, Running, Ended
  <1> QED
    BY <1>1, <1>2, <1>3, <1>4, <1>5, <1>6, <1>7, <1>8

\* The listener fails.
LEMMA AcceptFailsInd == ASSUME IndInv, AcceptFails PROVE IndInv'
  <1> USE DEF IndInv
  <1>1. TypeOK'
    BY Zenon DEF AcceptFails, Goto, Stop, TypeOK, Fates, Running, Ended, Positions
  <1>2. InHand'
    BY DEF AcceptFails, Goto, Stop, InHand, TypeOK, Running
  <1>3. Joined'
    BY DEF AcceptFails, Goto, Stop, Joined, InHand, TypeOK, Running, Ended
  <1>4. Aborts'
    BY DEF AcceptFails, Goto, Stop, Aborts, TypeOK, Running, Ended, Joined
  <1>5. LetGo'
    BY Zenon DEF AcceptFails, Goto, Stop, LetGo, TypeOK, Running
  <1>6. Late'
    BY DEF AcceptFails, Goto, Stop, Late, TypeOK, InHand, Running, Ended
  <1>7. Permits' /\ Counts'
    BY DEF AcceptFails, Goto, Stop, Permits, Counts, Are, Holders
  <1> QED
    BY <1>1, <1>2, <1>3, <1>4, <1>5, <1>6, <1>7

\* The pause after a failure.
LEMMA BackOffInd == ASSUME IndInv, BackOff PROVE IndInv'
  <1> USE DEF IndInv
  <1>1. TypeOK'
    BY Zenon DEF BackOff, Goto, Stop, TypeOK, Fates, Running, Ended, Positions
  <1>2. InHand'
    BY DEF BackOff, Goto, Stop, InHand, TypeOK, Running
  <1>3. Joined'
    BY DEF BackOff, Goto, Stop, Joined, InHand, TypeOK, Running, Ended
  <1>4. Aborts'
    BY DEF BackOff, Goto, Stop, Aborts, TypeOK, Running, Ended, Joined
  <1>5. LetGo'
    BY Zenon DEF BackOff, Goto, Stop, LetGo, TypeOK, Running
  <1>6. Late'
    BY DEF BackOff, Goto, Stop, Late, TypeOK, InHand, Running, Ended
  <1>7. Permits' /\ Counts'
    BY DEF BackOff, Goto, Stop, Permits, Counts, Are, Holders
  <1> QED
    BY <1>1, <1>2, <1>3, <1>4, <1>5, <1>6, <1>7

\* One more without evidence, or rejected.
LEMMA RejectInd == ASSUME IndInv, NEW c \in Connections, Reject(c) PROVE IndInv'
  <1> USE DEF IndInv
  <1>1. TypeOK'
    <2>1. Cardinality(hand') <= 1 /\ hand' \subseteq Connections
      BY Few DEF Reject
    <2>2. state' \in [Connections -> Fates]
      BY Zenon DEF Reject, TypeOK, Fates, Running
    <2> QED
      BY <2>1, <2>2, Served DEF Reject, Goto, TypeOK, Positions
  <1>2. InHand'
    BY DEF Reject, Goto, InHand, TypeOK, Running
  <1>3. Permits'
    BY PermitsStay DEF Reject, Goto, InHand, TypeOK, Holding, Running
  <1>4. Counts'
    <2>1. Cardinality(Are({"rejected"})') = Cardinality(Are({"rejected"})) + 1
      BY MoreAre, Zenon DEF Reject, InHand, Running, Ended
    <2>2. /\ Are({"refused"})' = Are({"refused"})
          /\ Are(Running \union Ended)' = Are(Running \union Ended)
      BY SameAre DEF Reject, InHand, TypeOK, Running, Ended
    <2>3. (joined \intersect Are({"cancelled"}))' = joined \intersect Are({"cancelled"})
      BY DEF Reject, Are, Joined, InHand, TypeOK, Ended
    <2>4. served' = [served EXCEPT !["unauthenticated"] = @ + 1]
      BY DEF Reject
    <2> QED
      BY <2>1, <2>2, <2>3, <2>4, Zenon DEF Counts, TypeOK
  <1>5. Joined'
    BY DEF Reject, Goto, Joined, InHand, TypeOK, Running, Ended
  <1>6. Aborts'
    BY DEF Reject, Goto, Aborts, TypeOK, Running, Ended, Joined
  <1>7. LetGo'
    BY Zenon DEF Reject, Goto, LetGo, TypeOK, Running
  <1>8. Late'
    BY DEF Reject, Goto, Late, TypeOK, InHand, Running, Ended
  <1> QED
    BY <1>1, <1>2, <1>3, <1>4, <1>5, <1>6, <1>7, <1>8

\* One more permit, or one more refusal.
LEMMA AdmitInd == ASSUME IndInv, NEW c \in Connections, NEW p \in Pools, Admit(c, p)
                  PROVE IndInv'
  <1> USE DEF IndInv
  <1>1. TypeOK'
    <2>1. Cardinality(hand') <= 1 /\ hand' \subseteq Connections
      BY Few DEF Admit, TypeOK
    <2>2. state' \in [Connections -> Fates]
      BY Zenon DEF Admit, TypeOK, Fates
    <2>3. pool' \in [Connections -> SUBSET Pools]
      <3>1. {p} \in SUBSET Pools
        OBVIOUS
      <3> QED
        BY <3>1 DEF Admit, TypeOK
    <2>4. active' \in [Pools -> Nat]
      BY DEF Admit, TypeOK
    <2>5. served' \in [{"admitted", "unauthenticated", "over_capacity", "aborted"} -> Nat]
      BY Served DEF Admit, TypeOK
    <2> QED
      BY <2>1, <2>2, <2>3, <2>4, <2>5 DEF Admit, Goto, TypeOK, Positions
  <1>2. InHand'
    BY DEF Admit, Goto, InHand, TypeOK, Running
  <1>3. Permits'
    <2>1. CASE Free(p)
      <3>1. state[c] \notin Holding /\ state' = [state EXCEPT ![c] = "permitted"]
        BY <2>1 DEF Admit, InHand, Holding, Running
      <3>2. ASSUME NEW q \in Pools
            PROVE  active'[q] = others'[q] + Cardinality(Holders(q)') /\ active'[q] <= Limit[q]
        <4>1. active[q] \in Nat /\ others[q] \in Nat /\ Limit[q] \in Nat
          BY LimitType, ServeConstants DEF TypeOK
        <4>2. Holders(q) \in SUBSET Connections /\ Cardinality(Holders(q)) \in Nat
          BY HoldersCount
        <4>3. c \notin Holders(q)
          BY <3>1 DEF Holders, Are, Holding
        <4>4. CASE q = p
          <5>1. Holders(q)' = Holders(q) \union {c}
            BY <2>1, <3>1, <4>4 DEF Admit, TypeOK, Holders, Are, Holding
          <5>2. Cardinality(Holders(q)') = Cardinality(Holders(q)) + 1
            BY <4>2, <4>3, <5>1, Grows
          <5>3. active'[q] = active[q] + 1 /\ UNCHANGED others
            BY <2>1, <4>4 DEF Admit, TypeOK
          <5> QED
            BY <2>1, <4>1, <4>2, <4>4, <5>2, <5>3 DEF Permits, Free
        <4>5. CASE q # p
          <5>1. Holders(q)' = Holders(q)
            BY <2>1, <3>1, <4>5 DEF Admit, TypeOK, Holders, Are, Holding
          <5>2. active'[q] = active[q] /\ UNCHANGED others
            BY <2>1, <4>5 DEF Admit, TypeOK
          <5> QED
            BY <5>1, <5>2 DEF Permits
        <4> QED
          BY <4>4, <4>5
      <3> QED
        BY <3>2 DEF Permits
    <2>2. CASE ~Free(p)
      BY <2>2, PermitsStay DEF Admit, InHand, TypeOK, Holding, Running
    <2> QED
      BY <2>1, <2>2
  <1>4. Counts'
    <2>1. CASE Free(p)
      BY <2>1, CountsStay DEF Admit, InHand, TypeOK, Running, Ended
    <2>2. CASE ~Free(p)
      <3>1. Cardinality(Are({"refused"})') = Cardinality(Are({"refused"})) + 1
        BY <2>2, MoreAre, Zenon DEF Admit, InHand, Running, Ended
      <3>2. /\ Are({"rejected"})' = Are({"rejected"})
            /\ Are(Running \union Ended)' = Are(Running \union Ended)
        BY <2>2, SameAre DEF Admit, InHand, TypeOK, Running, Ended
      <3>3. (joined \intersect Are({"cancelled"}))' = joined \intersect Are({"cancelled"})
        BY <2>2 DEF Admit, Are, Joined, InHand, TypeOK, Ended
      <3>4. served' = [served EXCEPT !["over_capacity"] = @ + 1]
        BY <2>2 DEF Admit
      <3> QED
        BY <3>1, <3>2, <3>3, <3>4, Zenon DEF Counts, TypeOK
    <2> QED
      BY <2>1, <2>2
  <1>5. Joined'
    BY DEF Admit, Goto, Joined, InHand, TypeOK, Running, Ended
  <1>6. Aborts'
    BY DEF Admit, Goto, Aborts, TypeOK, Running, Ended, Joined
  <1>7. LetGo'
    BY Zenon DEF Admit, Goto, LetGo, TypeOK, Running
  <1>8. Late'
    BY DEF Admit, Goto, Late, TypeOK, InHand, Running, Ended
  <1> QED
    BY <1>1, <1>2, <1>3, <1>4, <1>5, <1>6, <1>7, <1>8

\* The permit of the connection a drain lets go is dropped with it.
LEMMA CheckOpenInd == ASSUME IndInv, NEW c \in Connections, CheckOpen(c) PROVE IndInv'
  <1> USE DEF IndInv
  <1>1. TypeOK'
    <2>1. Cardinality(hand') <= 1 /\ hand' \subseteq Connections
      BY Few, Zenon DEF CheckOpen, TypeOK
    <2>2. state' \in [Connections -> Fates]
      BY Zenon DEF CheckOpen, TypeOK, Fates
    <2>3. active' \in [Pools -> Nat]
      <3>1. CASE draining
        BY <3>1, PermitDropped, Zenon DEF CheckOpen, InHand, Holding, Running
      <3> QED
        BY <3>1, Zenon DEF CheckOpen, TypeOK
    <2> QED
      BY <2>1, <2>2, <2>3, Zenon DEF CheckOpen, Goto, Stop, TypeOK, Positions
  <1>2. InHand'
    BY Zenon DEF CheckOpen, Goto, Stop, Release, InHand, TypeOK, Running
  <1>3. Permits'
    <2>1. CASE draining
      BY <2>1, PermitDropped, Zenon DEF CheckOpen, InHand, Holding, Running
    <2>2. CASE ~draining
      BY <2>2, PermitsStay DEF CheckOpen
    <2> QED
      BY <2>1, <2>2
  <1>4. Counts'
    BY CountsStay, Zenon DEF CheckOpen, Goto, Stop, Release, InHand, TypeOK, Running, Ended
  <1>5. Joined'
    BY Zenon DEF CheckOpen, Goto, Stop, Release, Joined, InHand, TypeOK, Running, Ended
  <1>6. Aborts'
    BY Zenon DEF CheckOpen, Goto, Stop, Release, Aborts, TypeOK, Running, Ended, Joined
  <1>7. LetGo'
    BY Zenon DEF CheckOpen, Goto, Stop, Release, LetGo, TypeOK, Running
  <1>8. Late'
    BY Zenon DEF CheckOpen, Goto, Stop, Release, Late, TypeOK, InHand, Running, Ended
  <1> QED
    BY <1>1, <1>2, <1>3, <1>4, <1>5, <1>6, <1>7, <1>8

\* The permit goes with the handler.
LEMMA SpawnInd == ASSUME IndInv, NEW c \in Connections, Spawn(c) PROVE IndInv'
  <1> USE DEF IndInv
  <1>1. TypeOK'
    <2>1. Cardinality(hand') <= 1 /\ hand' \subseteq Connections
      BY Few DEF Spawn
    <2>2. state' \in [Connections -> Fates]
      BY Zenon DEF Spawn, TypeOK, Fates, Running
    <2> QED
      BY <2>1, <2>2, Served DEF Spawn, Goto, TypeOK, Positions
  <1>2. InHand'
    BY DEF Spawn, Goto, InHand, TypeOK, Running
  <1>3. Permits'
    BY PermitsStay DEF Spawn, Goto, InHand, TypeOK, Holding, Running
  <1>4. Counts'
    <2>1. Cardinality(Are(Running \union Ended)') = Cardinality(Are(Running \union Ended)) + 1
      BY MoreAre, Zenon DEF Spawn, InHand, Running, Ended
    <2>2. /\ Are({"rejected"})' = Are({"rejected"})
          /\ Are({"refused"})' = Are({"refused"})
      BY SameAre DEF Spawn, InHand, TypeOK, Running, Ended
    <2>3. (joined \intersect Are({"cancelled"}))' = joined \intersect Are({"cancelled"})
      BY DEF Spawn, Are, Joined, InHand, TypeOK, Ended
    <2>4. served' = [served EXCEPT !["admitted"] = @ + 1]
      BY DEF Spawn
    <2> QED
      BY <2>1, <2>2, <2>3, <2>4, Zenon DEF Counts, TypeOK
  <1>5. Joined'
    BY DEF Spawn, Goto, Joined, InHand, TypeOK, Running, Ended
  <1>6. Aborts'
    BY DEF Spawn, Goto, Aborts, TypeOK, Running, Ended, Joined
  <1>7. LetGo'
    BY Zenon DEF Spawn, Goto, LetGo, TypeOK, Running
  <1>8. Late'
    BY DEF Spawn, Goto, Late, TypeOK, InHand, Running, Ended
  <1> QED
    BY <1>1, <1>2, <1>3, <1>4, <1>5, <1>6, <1>7, <1>8

\* A handler drops its permit however it ends.
LEMMA EndsInd == ASSUME IndInv, NEW c \in Connections, HandlerEnds(c) \/ HandlerCancelled(c)
                 PROVE IndInv'
  <1> USE DEF IndInv
  <1>1. TypeOK'
    <2>1. \E fate \in Ended :
            state[c] \in Running /\ state' = [state EXCEPT ![c] = fate] /\ Release(c)
      BY DEF HandlerEnds, HandlerCancelled, End, Running, Ended
    <2>2. active' \in [Pools -> Nat]
      BY <2>1, PermitDropped, Zenon
         DEF HandlerEnds, HandlerCancelled, End, Holding, Running, Ended
    <2>3. state' \in [Connections -> Fates]
      BY <2>1, Zenon DEF TypeOK, Fates
    <2> QED
      BY <2>2, <2>3 DEF HandlerEnds, HandlerCancelled, End, TypeOK
  <1>2. InHand'
    BY DEF HandlerEnds, HandlerCancelled, End, Release, InHand, TypeOK, Running
  <1>3. Permits'
    <2>1. \E fate \in Ended :
            state[c] \in Running /\ state' = [state EXCEPT ![c] = fate] /\ Release(c)
      BY DEF HandlerEnds, HandlerCancelled, End, Running, Ended
    <2> QED
      BY <2>1, PermitDropped, Zenon
         DEF HandlerEnds, HandlerCancelled, End, Holding, Running, Ended
  <1>4. Counts'
    BY CountsStay
       DEF HandlerEnds, HandlerCancelled, End, Release, InHand, TypeOK, Running, Ended
  <1>5. Joined'
    BY DEF HandlerEnds, HandlerCancelled, End, Release, Joined, InHand, TypeOK, Running, Ended
  <1>6. Aborts'
    BY DEF HandlerEnds, HandlerCancelled, End, Release, Aborts, TypeOK, Running, Ended, Joined
  <1>7. LetGo'
    BY Zenon DEF HandlerEnds, HandlerCancelled, End, Release, LetGo, TypeOK, Running
  <1>8. Late'
    BY DEF HandlerEnds, HandlerCancelled, End, Release, Late, TypeOK, InHand, Running, Ended
  <1> QED
    BY <1>1, <1>2, <1>3, <1>4, <1>5, <1>6, <1>7, <1>8

\* Time passes.
LEMMA TickInd == ASSUME IndInv, Tick PROVE IndInv'
  <1> USE DEF IndInv
  <1>1. TypeOK'
    <2>1. left' \in 0..DrainBudget
      BY ServeConstants DEF Tick, TypeOK
    <2> QED
      BY <2>1 DEF Tick, TypeOK
  <1>2. Aborts'
    BY DEF Tick, Aborts, TypeOK, Running, Ended, Joined
  <1>3. InHand' /\ Permits' /\ Counts' /\ Joined' /\ LetGo' /\ Late'
    BY Zenon DEF Tick, InHand, Permits, Counts, Joined, LetGo, Late, Are, Holders
  <1> QED
    BY <1>1, <1>2, <1>3

\* No handler is cancelled before the budget is used up.
LEMMA JoinInTimeInd == ASSUME IndInv, NEW c \in Connections, JoinInTime(c) PROVE IndInv'
  <1> USE DEF IndInv
  <1>1. TypeOK'
    BY Zenon DEF JoinInTime, Handlers, Are, TypeOK, Fates, Running, Ended, Positions
  <1>2. Counts'
    <2>1. Are({"cancelled"}) = {}
      BY DEF JoinInTime, Aborts, Are
    <2>2. UNCHANGED <<state, served>>
      BY DEF JoinInTime, Goto
    <2>3. \A fates : Are(fates)' = Are(fates)
      BY <2>2, SameAre
    <2>4. (joined \intersect Are({"cancelled"}))' = joined \intersect Are({"cancelled"})
      BY <2>1, <2>3
    <2> QED
      BY <2>2, <2>3, <2>4 DEF Counts
  <1>3. Joined'
    BY DEF JoinInTime, Handlers, Are, Joined, InHand, TypeOK, Running, Ended
  <1>4. InHand' /\ Permits' /\ Aborts' /\ LetGo' /\ Late'
    BY Zenon DEF JoinInTime, Handlers, Are, InHand, Permits, Aborts, LetGo, Late, Are, Holders
  <1> QED
    BY <1>1, <1>2, <1>3, <1>4

\* Handlers are left to abort only if the budget is used up.
LEMMA AbortRestInd == ASSUME IndInv, AbortRest PROVE IndInv'
  <1> USE DEF IndInv
  <1>1. TypeOK'
    BY Zenon DEF AbortRest, Goto, AbortAll, Handlers, Are, FinishOver, TypeOK, Fates, Running,
       Ended, Positions
  <1>2. InHand'
    BY DEF AbortRest, Goto, AbortAll, Handlers, Are, FinishOver, InHand, TypeOK, Running
  <1>3. Permits'
    BY PermitsStay
       DEF AbortRest, Goto, AbortAll, Handlers, Are, FinishOver, InHand, TypeOK, Holding,
           Running
  <1>4. Counts'
    BY CountsStay
       DEF AbortRest, Goto, AbortAll, Handlers, Are, FinishOver, InHand, TypeOK, Running, Ended
  <1>5. Joined'
    BY DEF AbortRest, Goto, AbortAll, Handlers, Are, FinishOver, Joined, InHand, TypeOK,
       Running, Ended
  <1>6. Aborts'
    BY DEF AbortRest, Goto, AbortAll, Handlers, Are, FinishOver, Aborts, TypeOK, Running,
       Ended, Joined
  <1>7. LetGo'
    BY Zenon DEF AbortRest, Goto, AbortAll, Handlers, Are, FinishOver, LetGo, TypeOK, Running
  <1>8. Late'
    BY DEF AbortRest, Goto, AbortAll, Handlers, Are, FinishOver, Late, TypeOK, InHand,
       Running, Ended
  <1> QED
    BY <1>1, <1>2, <1>3, <1>4, <1>5, <1>6, <1>7, <1>8

\* A cancelled handler is counted once, when it is joined.
LEMMA ReapInd == ASSUME IndInv, NEW c \in Connections, Reap(c) PROVE IndInv'
  <1> USE DEF IndInv
  <1>1. TypeOK'
    BY Served DEF Reap, Handlers, TypeOK
  <1>2. Counts'
    <2>1. UNCHANGED state /\ joined' = joined \union {c} /\ c \notin joined
      BY DEF Reap, Handlers
    <2>2. \A fates : Are(fates)' = Are(fates)
      BY <2>1, SameAre
    <2> DEFINE aborted == joined \intersect Are({"cancelled"})
    <2>3. aborted \in SUBSET Connections /\ c \notin aborted
      BY <2>1 DEF Are
    <2>4. CASE CountsAsAborted(c)
      <3>1. aborted' = aborted \union {c}
        BY <2>1, <2>2, <2>4 DEF CountsAsAborted, Are
      <3>2. Cardinality(aborted') = Cardinality(aborted) + 1
        BY <2>3, <3>1, Grows
      <3>3. served' = [served EXCEPT !["aborted"] = @ + 1]
        BY <2>4 DEF Reap
      <3> QED
        BY <2>2, <3>2, <3>3 DEF Counts, TypeOK
    <2>5. CASE ~CountsAsAborted(c)
      <3>1. aborted' = aborted
        BY <2>1, <2>2, <2>5 DEF CountsAsAborted, Are
      <3>2. UNCHANGED served
        BY <2>5 DEF Reap
      <3> QED
        BY <2>2, <3>1, <3>2 DEF Counts
    <2> QED
      BY <2>4, <2>5
  <1>3. Joined'
    BY DEF Reap, Handlers, Are, CountsAsAborted, Joined, InHand, TypeOK, Running, Ended
  <1>4. InHand' /\ Permits' /\ Aborts' /\ LetGo' /\ Late'
    BY Zenon
       DEF Reap, Handlers, Are, CountsAsAborted, InHand, Permits, Aborts, LetGo, Late, Are,
       Holders
  <1> QED
    BY <1>1, <1>2, <1>3, <1>4

\* No handler is left.
LEMMA ReturnInd == ASSUME IndInv, Return PROVE IndInv'
  <1> USE DEF IndInv
  <1>1. TypeOK'
    BY Zenon DEF Return, Goto, Handlers, Are, TypeOK, Fates, Running, Ended, Positions
  <1>2. InHand'
    BY DEF Return, Goto, Handlers, Are, InHand, TypeOK, Running
  <1>3. Joined'
    BY DEF Return, Goto, Handlers, Are, Joined, InHand, TypeOK, Running, Ended
  <1>4. Aborts'
    BY DEF Return, Goto, Handlers, Are, Aborts, TypeOK, Running, Ended, Joined
  <1>5. LetGo'
    BY Zenon DEF Return, Goto, Handlers, Are, LetGo, TypeOK, Running
  <1>6. Late'
    BY DEF Return, Goto, Handlers, Are, Late, TypeOK, InHand, Running, Ended
  <1>7. Permits' /\ Counts'
    BY DEF Return, Goto, Handlers, Are, Permits, Counts, Are, Holders
  <1> QED
    BY <1>1, <1>2, <1>3, <1>4, <1>5, <1>6, <1>7

\* The future is dropped.
LEMMA DropFutureInd == ASSUME IndInv, DropFuture PROVE IndInv'
  <1> USE DEF IndInv
  <1>1. TypeOK'
    BY Zenon DEF DropFuture, Goto, AbortAll, TypeOK, Fates, Running, Ended, Positions
  <1>2. InHand'
    BY DEF DropFuture, Goto, AbortAll, InHand, TypeOK, Running
  <1>3. Permits'
    BY PermitsStay DEF DropFuture, Goto, AbortAll, InHand, TypeOK, Holding, Running
  <1>4. Counts'
    BY CountsStay DEF DropFuture, Goto, AbortAll, InHand, TypeOK, Running, Ended
  <1>5. Joined'
    BY DEF DropFuture, Goto, AbortAll, Joined, InHand, TypeOK, Running, Ended
  <1>6. Aborts'
    BY DEF DropFuture, Goto, AbortAll, Aborts, TypeOK, Running, Ended, Joined
  <1>7. LetGo'
    BY Zenon DEF DropFuture, Goto, AbortAll, LetGo, TypeOK, Running
  <1>8. Late'
    BY DEF DropFuture, Goto, AbortAll, Late, TypeOK, InHand, Running, Ended
  <1> QED
    BY <1>1, <1>2, <1>3, <1>4, <1>5, <1>6, <1>7, <1>8

-----------------------------------------------------------------------------
(* All steps.                                                              *)

\* Serve::run begins.
LEMMA InitInd == Init => IndInv
  <1> SUFFICES ASSUME Init PROVE IndInv
    OBVIOUS
  <1> USE DEF Init
  <1>1. \A fates : "absent" \notin fates => Are(fates) = {}
    BY DEF Are
  <1>2. Cardinality({}) = 0
    BY FS_EmptySet
  <1>3. TypeOK
    <2>1. left \in 0..DrainBudget /\ 0 \in 0..MaxOthers
      BY ServeConstants
    <2>2. /\ state \in [Connections -> Fates] /\ pool \in [Connections -> SUBSET Pools]
          /\ active \in [Pools -> Nat] /\ others \in [Pools -> 0..MaxOthers]
      BY <2>1 DEF Fates
    <2>3. served \in [{"admitted", "unauthenticated", "over_capacity", "aborted"} -> Nat]
      OBVIOUS
    <2>4. hand \subseteq Connections /\ Cardinality(hand) <= 1
      BY Few
    <2> QED
      BY <2>1, <2>2, <2>3, <2>4, Zenon DEF TypeOK, Positions
  <1>4. Permits
    <2>1. \A p : Holders(p) = {}
      BY <1>1 DEF Holders, Running
    <2>2. \A p \in Pools : Limit[p] \in Nat /\ active[p] = 0 /\ others[p] = 0
      BY LimitType
    <2>3. \A p : Cardinality(Holders(p)) = 0
      BY <1>2, <2>1
    <2> QED
      BY <2>2, <2>3 DEF Permits
  <1>5. Counts
    <2>1. /\ Are({"rejected"}) = {} /\ Are({"refused"}) = {}
          /\ Are(Running \union Ended) = {} /\ joined \intersect Are({"cancelled"}) = {}
      BY <1>1 DEF Running, Ended
    <2> QED
      BY <1>2, <2>1, Zenon DEF Counts
  <1>6. InHand /\ Joined /\ Aborts /\ LetGo /\ Late
    BY DEF InHand, Joined, Aborts, LetGo, Late, Running, Ended
  <1> QED
    BY <1>3, <1>4, <1>5, <1>6 DEF IndInv

\* Every step, or none.
LEMMA NextInd == IndInv /\ [Next]_vars => IndInv'
  <1> SUFFICES ASSUME IndInv, [Next]_vars PROVE IndInv'
    OBVIOUS
  <1>1. CASE LoopStep
    BY <1>1, PollDrainingInd, PollHandlersInd, ParkInd, AcceptFailsInd, BackOffInd, AcceptInd,
       RejectInd, CheckOpenInd, SpawnInd, AdmitInd, JoinInTimeInd, ReapInd, AbortRestInd,
       ReturnInd DEF LoopStep
  <1>2. ASSUME NEW p \in Pools, TakePermit(p) \/ GivePermit(p) PROVE IndInv'
    BY <1>2, TakePermitInd, GivePermitInd
  <1>3. ASSUME NEW c \in Connections, HandlerEnds(c) \/ HandlerCancelled(c) PROVE IndInv'
    BY <1>3, EndsInd
  <1>4. CASE UNCHANGED vars
    <2>1. \A p : Holders(p)' = Holders(p)
      BY <1>4 DEF vars, Holders, Are
    <2>2. \A fates : Are(fates)' = Are(fates)
      BY <1>4 DEF vars, Are
    <2> QED
      BY <1>4, <2>1, <2>2, Zenon
         DEF vars, IndInv, TypeOK, InHand, Permits, Counts, Joined, Aborts,
         LetGo, Late
  <1> QED
    BY <1>1, <1>2, <1>3, <1>4, StartDrainInd, TickInd, DropFutureInd DEF Next

\* The invariant holds throughout.
LEMMA Inductive == Spec => []IndInv
  BY InitInd, NextInd, PTL DEF Spec

-----------------------------------------------------------------------------
(* The theorems.                                                           *)

\* Whatever the limits and however many connections, handlers and other permits
\* come and go: no pool is exceeded, no permit is leaked or freed twice, at most
\* one connection is accepted after the drain has started, and none of those is
\* served.
THEOREM AdmissionCorrect == Spec => []AdmitsRightly
  <1>1. IndInv => AdmitsRightly
    <2> SUFFICES ASSUME IndInv PROVE AdmitsRightly
      OBVIOUS
    <2>1. CapacityIsKept
      BY Zenon DEF IndInv, Permits, Holders, CapacityIsKept
    <2>2. DrainStopsAccepting
      BY Few DEF IndInv, TypeOK, Late, Are, DrainStopsAccepting
    <2> QED
      BY <2>1, <2>2 DEF IndInv, AdmitsRightly
  <1> QED
    BY <1>1, Inductive, PTL

\* For any number of connections and any drain budget: when run() returns, each
\* connection but the one a drain let go is in the one count of Served that
\* tells its fate, no handler is left, and none was cancelled before the budget
\* was used up.
THEOREM ReportCorrect == Spec => []ReportIsTrue
  <1>1. IndInv => ReportIsTrue
    <2> SUFFICES ASSUME IndInv, pc = "returned" PROVE ReportIsTrue
      BY Zenon DEF ReportIsTrue
    <2>1. \A c \in Connections : state[c] \in Running \union Ended => state[c] \in Ended /\ c \in joined
      BY DEF IndInv, Joined
    <2>2. Are(Running \union Ended) = Are(Ended) /\ joined \intersect Are({"cancelled"}) = Are({"cancelled"})
      BY <2>1 DEF Are, Ended
    <2>3. Are(Running \union {"accepted", "permitted"}) = {}
      BY <2>1 DEF IndInv, InHand, Are, Running, Ended
    <2>4. Cardinality(Are({"let go"})) <= IF stopped = "Ok" THEN 1 ELSE 0
      <3>1. Are({"let go"}) \in SUBSET Connections /\ \A c, d \in Are({"let go"}) : c = d
        BY Zenon DEF IndInv, LetGo, Are
      <3>2. stopped # "Ok" => Are({"let go"}) = {}
        BY Zenon DEF IndInv, LetGo, Are
      <3>3. Cardinality(Are({"let go"})) <= 1
        BY <3>1, Few, Zenon
      <3>4. Cardinality({}) <= 0
        BY FS_EmptySet
      <3>5. CASE stopped = "Ok"
        BY <3>3, <3>5, Zenon
      <3>6. CASE stopped # "Ok"
        BY <3>2, <3>4, <3>6, Zenon
      <3> QED
        BY <3>5, <3>6, Zenon
    <2>5. Are({"cancelled"}) # {} => left = 0
      BY DEF IndInv, Aborts, Are
    <2> QED
      BY <2>2, <2>3, <2>4, <2>5, Zenon DEF IndInv, Counts, ReportIsTrue
  <1> QED
    BY <1>1, Inductive, PTL
==============================================================================

-------------------------- MODULE GenerationProofs --------------------------
(***************************************************************************)
(* The safety properties of Generation for any number of sessions, any     *)
(* epochs and any times.                                                   *)
(*                                                                         *)
(* RetirementIsTrue is not inductive.  What is missing: the counts are     *)
(* those of the leases (Counted), what was read or observed is not ahead   *)
(* of the record and the drain clock runs exactly while a later selection  *)
(* is known (Behind), a candidate that a refresh has read as unselected    *)
(* was selected only lately (Timely), and a loop that has decided not to   *)
(* retire still has a reason (Awake).                                      *)
(***************************************************************************)
EXTENDS Generation, FiniteSetTheorems, TLAPS

\* Sessions.active and Sessions.legacy count the leases.
Counted == active = Cardinality(leases) /\ legacy = Cardinality(legacies)

\* The selection is observed late, but never ahead; superseded_since is set
\* once, when a later generation is observed.
Behind ==
    /\ selected <= record
    /\ read <= record
    /\ pc \in {"notify", "late"} => read <= selected
    /\ superseded # {} <=> selected > Own
    /\ \A x, y \in superseded : x = y

Refreshing == pc \in {"select", "notify", "late"}

\* A refresh is short, so what it read is at most that old.
Timely ==
    Refreshing =>
        /\ busy <= RefreshLimit
        /\ read < Own /\ record = Own => age <= CommitBy + busy

\* A staging lifetime covers the latest commit and a refresh.
Covers == CommitBy + RefreshLimit <= StagingLifetime

\* Once the loop has returned, the record is past this generation, or can no
\* longer come to name it.
Passed ==
    Covers /\ outcome.kind # "Running" =>
        record > Own \/ (record < Own /\ age > StagingLifetime)

\* Between the last look and the sleep nothing is missed.
Awake ==
    pc \in {"plan", "wait"} /\ ~news /\ notices = 0 => ~(selected > Own /\ active = 0)

IndInv ==
    /\ TypeOK /\ Counted /\ Behind /\ Timely /\ Passed /\ Awake
    /\ RetirementStaysTrue /\ NoOversleep

-----------------------------------------------------------------------------
(* Leases.                                                                 *)

\* The leases are counted by natural numbers, and some of them are legacy.
LEMMA LeasesFinite ==
    ASSUME TypeOK
    PROVE  /\ IsFiniteSet(leases) /\ Cardinality(leases) \in Nat
           /\ IsFiniteSet(legacies) /\ Cardinality(legacies) \in Nat
           /\ Cardinality(legacies) <= Cardinality(leases)
           /\ Cardinality(leases) = 0 <=> leases = {}
  <1>1. IsFiniteSet(leases)
    BY GenerationConstants, FS_Subset DEF TypeOK
  <1>2. IsFiniteSet(legacies) /\ Cardinality(legacies) <= Cardinality(leases)
    BY <1>1, FS_Subset DEF TypeOK
  <1> QED
    BY <1>1, <1>2, FS_CardinalityType, FS_EmptySet

-----------------------------------------------------------------------------
(* What a return of the loop establishes.                                  *)

\* try_retire decides on true grounds: a later generation is selected, or the
\* candidate is past its lifetime and the record does not name it.
LEMMA RetiresRightly ==
    ASSUME Covers, IndInv, NEW idle \in BOOLEAN, MayRetire(idle, TRUE), idle => pc = "late"
    PROVE  record > Own \/ (record < Own /\ age > StagingLifetime)
  <1>1. selected \in Nat /\ record \in Nat /\ read \in Nat /\ age \in Nat /\ busy \in Nat
    BY DEF IndInv, TypeOK, Epochs
  <1>2. CASE selected > Own
    BY <1>1, <1>2, GenerationConstants DEF IndInv, Behind
  <1>3. CASE ~(selected > Own)
    <2>1. selected < Own /\ age > StagingLifetime
      BY <1>3 DEF MayRetire, Eligible
    <2>2. idle
      BY <1>3 DEF MayRetire, DrainExpired, IndInv, Behind
    <2>3. pc = "late" /\ read <= selected
      BY <2>2 DEF IndInv, Behind
    <2>4. record # Own
      BY <1>1, <2>1, <2>3, GenerationConstants DEF IndInv, Timely, Refreshing, Covers
    <2> QED
      BY <1>1, <2>1, <2>4, GenerationConstants
  <1> QED
    BY <1>2, <1>3

\* The step that returns, or goes on.
LEMMA RetireOrGotoInd ==
    ASSUME IndInv, NEW idle \in BOOLEAN, idle => pc = "late",
           NEW next \in {"refresh", "plan"}, RetireOrGoto(idle, TRUE, next),
           UNCHANGED <<record, staged, drainLimit, selected, session_vars, superseded,
                       age, notices, news, read, busy, nap>>
    PROVE  TypeOK' /\ Passed' /\ RetirementStaysTrue'
  <1> USE DEF session_vars
  <1>1. CASE MayRetire(idle, TRUE)
    <2>1. /\ retired' = TRUE /\ pc' = "end"
          /\ outcome' = [kind |-> IF active = 0 THEN "Idle" ELSE "DrainExpired",
                         active |-> active, legacy |-> legacy]
      BY <1>1 DEF RetireOrGoto
    <2>2. TypeOK'
      BY <2>1 DEF IndInv, TypeOK, Outcomes
    <2>3. Passed'
      BY <1>1, <2>1, RetiresRightly, Zenon DEF Passed
    <2>4. active = Cardinality(leases) /\ legacy <= active /\ (active = 0 <=> leases = {})
      BY LeasesFinite DEF IndInv, Counted
    <2>5. active # 0 => DrainExpired
      BY <1>1 DEF MayRetire
    <2>6. active \in Nat
      BY DEF IndInv, TypeOK
    <2>7. RetirementStaysTrue'
      BY <2>1, <2>4, <2>5, <2>6 DEF RetirementStaysTrue, DrainExpired
    <2> QED
      BY <2>2, <2>3, <2>7
  <1>2. CASE ~MayRetire(idle, TRUE)
    BY <1>2 DEF RetireOrGoto, IndInv, TypeOK, Passed, RetirementStaysTrue
  <1> QED
    BY <1>1, <1>2, Zenon

-----------------------------------------------------------------------------
(* Every step keeps the invariant.                                         *)

\* Another process commits.
LEMMA PublishInd ==
    ASSUME IndInv, NEW epoch \in Epochs, Publish(epoch) PROVE IndInv'
  <1> USE DEF IndInv, Publish, session_vars, loop_vars
  <1>1. TypeOK'
    BY GenerationConstants DEF TypeOK, Epochs, Outcomes
  <1>2. Counted'
    BY GenerationConstants DEF Counted, TypeOK
  <1>3. Behind'
    BY GenerationConstants DEF Behind, TypeOK, Epochs
  <1>4. Timely'
    BY GenerationConstants DEF Timely, TypeOK, Refreshing, Epochs
  <1>5. Passed'
    BY GenerationConstants DEF Passed, TypeOK, Epochs, Covers
  <1>6. Awake'
    BY GenerationConstants DEF Awake, TypeOK
  <1>7. RetirementStaysTrue'
    BY GenerationConstants DEF RetirementStaysTrue, TypeOK, Epochs
  <1>8. NoOversleep'
    BY GenerationConstants DEF NoOversleep, TypeOK
  <1> QED
    BY <1>1, <1>2, <1>3, <1>4, <1>5, <1>6, <1>7, <1>8

\* select() moves the observed selection up.
LEMMA SelectInd ==
    ASSUME IndInv, NEW epoch \in Epochs, Select(epoch) PROVE IndInv'
  <1> USE DEF IndInv, Select, Observe, session_vars, loop_vars
  <1>1. TypeOK'
    BY GenerationConstants DEF TypeOK, Epochs, Outcomes
  <1>2. Counted'
    BY GenerationConstants DEF Counted, TypeOK
  <1>3. Behind'
    BY GenerationConstants DEF Behind, TypeOK, Epochs
  <1>4. Timely'
    BY GenerationConstants DEF Timely, TypeOK, Refreshing, Epochs
  <1>5. Passed'
    BY GenerationConstants DEF Passed, TypeOK, Epochs
  <1>6. Awake'
    <2>1. selected \in Nat /\ epoch \in Nat /\ notices \in Nat
      BY DEF TypeOK, Epochs
    <2> QED
      BY <2>1 DEF Awake
  <1>7. RetirementStaysTrue'
    BY GenerationConstants DEF RetirementStaysTrue, TypeOK, Epochs
  <1>8. NoOversleep'
    <2>1. selected \in Nat /\ epoch \in Nat /\ notices \in Nat
      BY DEF TypeOK, Epochs
    <2> QED
      BY <2>1 DEF NoOversleep
  <1> QED
    BY <1>1, <1>2, <1>3, <1>4, <1>5, <1>6, <1>7, <1>8

\* Its wakeup is sent.
LEMMA NotifyInd ==
    ASSUME IndInv, Notify PROVE IndInv'
  <1> USE DEF IndInv, Notify, session_vars, loop_vars
  <1>1. TypeOK'
    BY GenerationConstants DEF TypeOK
  <1>2. Counted'
    BY GenerationConstants DEF Counted, TypeOK
  <1>3. Behind'
    BY GenerationConstants DEF Behind, TypeOK, Epochs
  <1>4. Timely'
    BY GenerationConstants DEF Timely, TypeOK, Refreshing, Epochs
  <1>5. Passed'
    BY GenerationConstants DEF Passed, TypeOK, Epochs
  <1>6. Awake'
    BY GenerationConstants DEF Awake, TypeOK
  <1>7. RetirementStaysTrue'
    BY GenerationConstants DEF RetirementStaysTrue, TypeOK, Epochs
  <1>8. NoOversleep'
    BY GenerationConstants DEF NoOversleep, TypeOK
  <1> QED
    BY <1>1, <1>2, <1>3, <1>4, <1>5, <1>6, <1>7, <1>8

\* A lease is given while nothing is retired.
LEMMA AdmitInd ==
    ASSUME IndInv, NEW s \in Sessions, Admit(s) PROVE IndInv'
  <1> USE DEF IndInv, Admit, session_vars, loop_vars
  <1>1. TypeOK'
    BY GenerationConstants DEF TypeOK
  <1>2. Counted'
    BY LeasesFinite, FS_AddElement, Zenon DEF Counted, TypeOK
  <1>3. Behind'
    BY GenerationConstants DEF Behind, TypeOK, Epochs
  <1>4. Timely'
    BY GenerationConstants DEF Timely, TypeOK, Refreshing, Epochs
  <1>5. Passed'
    BY GenerationConstants DEF Passed, TypeOK, Epochs
  <1>6. Awake'
    BY GenerationConstants DEF Awake, TypeOK
  <1>7. RetirementStaysTrue'
    BY GenerationConstants DEF RetirementStaysTrue, TypeOK, Epochs
  <1>8. NoOversleep'
    BY GenerationConstants DEF NoOversleep, TypeOK
  <1> QED
    BY <1>1, <1>2, <1>3, <1>4, <1>5, <1>6, <1>7, <1>8

\* A lease becomes legacy once.
LEMMA MarkLegacyInd ==
    ASSUME IndInv, NEW s \in Sessions, MarkLegacy(s) PROVE IndInv'
  <1> USE DEF IndInv, MarkLegacy, session_vars, loop_vars
  <1>1. TypeOK'
    BY GenerationConstants DEF TypeOK
  <1>2. Counted'
    BY LeasesFinite, FS_AddElement, Zenon DEF Counted, TypeOK
  <1>3. Behind'
    BY GenerationConstants DEF Behind, TypeOK, Epochs
  <1>4. Timely'
    BY GenerationConstants DEF Timely, TypeOK, Refreshing, Epochs
  <1>5. Passed'
    BY GenerationConstants DEF Passed, TypeOK, Epochs
  <1>6. Awake'
    BY GenerationConstants DEF Awake, TypeOK
  <1>7. RetirementStaysTrue'
    BY GenerationConstants DEF RetirementStaysTrue, TypeOK, Epochs
  <1>8. NoOversleep'
    BY GenerationConstants DEF NoOversleep, TypeOK
  <1> QED
    BY <1>1, <1>2, <1>3, <1>4, <1>5, <1>6, <1>7, <1>8

\* A lease is dropped, and the loop told.
LEMMA ReleaseInd ==
    ASSUME IndInv, NEW s \in Sessions, Release(s) PROVE IndInv'
  <1> USE DEF IndInv, Release, session_vars, loop_vars
  <1>1. TypeOK'
    <2>1. leases' \subseteq Sessions /\ legacies' \subseteq leases'
      BY DEF TypeOK
    <2>2. leases' = leases \ {s} /\ IsFiniteSet(leases) /\ IsFiniteSet(legacies)
      BY LeasesFinite
    <2>3. active' \in Nat
      BY LeasesFinite, FS_RemoveElement, FS_EmptySet DEF Counted, TypeOK
    <2>4. legacy' \in Nat
      BY LeasesFinite, FS_EmptySet DEF Counted, TypeOK
    <2> QED
      BY <2>1, <2>3, <2>4 DEF TypeOK
  <1>2. Counted'
    <2>1. Cardinality(leases \ {s}) = Cardinality(leases) - 1
      BY LeasesFinite, FS_RemoveElement, Zenon DEF TypeOK
    <2>2. Cardinality(legacies \ {s}) =
             IF s \in legacies THEN Cardinality(legacies) - 1 ELSE Cardinality(legacies)
      BY LeasesFinite, FS_RemoveElement, Zenon DEF TypeOK
    <2> QED
      BY <2>1, <2>2 DEF Counted
  <1>3. Behind'
    BY GenerationConstants DEF Behind, TypeOK, Epochs
  <1>4. Timely'
    BY GenerationConstants DEF Timely, TypeOK, Refreshing, Epochs
  <1>5. Passed'
    BY GenerationConstants DEF Passed, TypeOK, Epochs
  <1>6. Awake'
    BY GenerationConstants DEF Awake, TypeOK
  <1>7. RetirementStaysTrue'
    <2>1. Cardinality(leases') <= Cardinality(leases)
      BY LeasesFinite, FS_Subset DEF TypeOK
    <2>2. Cardinality(leases) \in Nat /\ Cardinality(leases') \in Nat
      BY LeasesFinite, FS_Subset, FS_CardinalityType DEF TypeOK
    <2>3. outcome.active \in Nat
      BY DEF TypeOK, Outcomes
    <2> QED
      BY <2>1, <2>2, <2>3 DEF RetirementStaysTrue
  <1>8. NoOversleep'
    BY GenerationConstants DEF NoOversleep, TypeOK
  <1> QED
    BY <1>1, <1>2, <1>3, <1>4, <1>5, <1>6, <1>7, <1>8

\* The application retires an idle generation.
LEMMA RetireIfIdleInd ==
    ASSUME IndInv, RetireIfIdle PROVE IndInv'
  <1> USE DEF IndInv, RetireIfIdle, session_vars, loop_vars
  <1>1. TypeOK'
    BY GenerationConstants DEF TypeOK
  <1>2. Counted'
    BY GenerationConstants DEF Counted, TypeOK
  <1>3. Behind'
    BY GenerationConstants DEF Behind, TypeOK, Epochs
  <1>4. Timely'
    BY GenerationConstants DEF Timely, TypeOK, Refreshing, Epochs
  <1>5. Passed'
    BY GenerationConstants DEF Passed, TypeOK, Epochs
  <1>6. Awake'
    BY GenerationConstants DEF Awake, TypeOK
  <1>7. RetirementStaysTrue'
    BY GenerationConstants DEF RetirementStaysTrue, TypeOK, Epochs
  <1>8. NoOversleep'
    BY GenerationConstants DEF NoOversleep, TypeOK
  <1> QED
    BY <1>1, <1>2, <1>3, <1>4, <1>5, <1>6, <1>7, <1>8

\* The loop marks the channel as seen.
LEMMA BorrowAndUpdateInd ==
    ASSUME IndInv, BorrowAndUpdate PROVE IndInv'
  <1> USE DEF IndInv, BorrowAndUpdate, session_vars, loop_vars
  <1>1. TypeOK'
    BY GenerationConstants, Zenon DEF TypeOK
  <1>2. Counted'
    BY GenerationConstants DEF Counted, TypeOK
  <1>3. Behind'
    BY GenerationConstants DEF Behind, TypeOK, Epochs
  <1>4. Timely'
    BY GenerationConstants DEF Timely, TypeOK, Refreshing, Epochs
  <1>5. Passed'
    BY GenerationConstants DEF Passed, TypeOK, Epochs
  <1>6. Awake'
    BY GenerationConstants DEF Awake, TypeOK
  <1>7. RetirementStaysTrue'
    BY GenerationConstants DEF RetirementStaysTrue, TypeOK, Epochs
  <1>8. NoOversleep'
    BY GenerationConstants DEF NoOversleep, TypeOK
  <1> QED
    BY <1>1, <1>2, <1>3, <1>4, <1>5, <1>6, <1>7, <1>8

\* The drain limit is checked first.
LEMMA EarlyInd ==
    ASSUME IndInv, Early PROVE IndInv'
  <1> USE DEF IndInv, Early, session_vars, loop_vars
  <1>1. TypeOK'
    BY RetireOrGotoInd, Zenon DEF Early
  <1>2. Counted'
    BY GenerationConstants DEF Counted, RetireOrGoto, TypeOK
  <1>3. Behind'
    BY GenerationConstants, Zenon DEF Behind, RetireOrGoto, TypeOK, Epochs
  <1>4. Timely'
    BY GenerationConstants, Zenon DEF Timely, RetireOrGoto, TypeOK, Refreshing, Epochs
  <1>5. Passed'
    BY RetireOrGotoInd, Zenon DEF Early
  <1>6. Awake'
    BY GenerationConstants, Zenon DEF Awake, RetireOrGoto, TypeOK
  <1>7. RetirementStaysTrue'
    BY RetireOrGotoInd, Zenon DEF Early
  <1>8. NoOversleep'
    BY GenerationConstants DEF NoOversleep, RetireOrGoto, TypeOK
  <1> QED
    BY <1>1, <1>2, <1>3, <1>4, <1>5, <1>6, <1>7, <1>8

\* The refresh reads the record.
LEMMA RefreshReadInd ==
    ASSUME IndInv, RefreshRead PROVE IndInv'
  <1> USE DEF IndInv, RefreshRead, session_vars, loop_vars
  <1>1. TypeOK'
    BY GenerationConstants DEF TypeOK, Epochs, Outcomes
  <1>2. Counted'
    BY GenerationConstants DEF Counted, TypeOK
  <1>3. Behind'
    BY GenerationConstants DEF Behind, TypeOK, Epochs
  <1>4. Timely'
    BY GenerationConstants DEF Timely, TypeOK, Refreshing, Epochs
  <1>5. Passed'
    BY GenerationConstants DEF Passed, TypeOK, Epochs
  <1>6. Awake'
    BY GenerationConstants DEF Awake, TypeOK
  <1>7. RetirementStaysTrue'
    BY GenerationConstants DEF RetirementStaysTrue, TypeOK, Epochs
  <1>8. NoOversleep'
    BY GenerationConstants DEF NoOversleep, TypeOK
  <1> QED
    BY <1>1, <1>2, <1>3, <1>4, <1>5, <1>6, <1>7, <1>8

\* The refresh passes it to select().
LEMMA RefreshSelectInd ==
    ASSUME IndInv, RefreshSelect PROVE IndInv'
  <1> USE DEF IndInv, RefreshSelect, Observe, session_vars, loop_vars
  <1>1. TypeOK'
    BY GenerationConstants DEF TypeOK, Epochs, Outcomes
  <1>2. Counted'
    BY GenerationConstants DEF Counted, TypeOK
  <1>3. Behind'
    BY GenerationConstants DEF Behind, TypeOK, Epochs
  <1>4. Timely'
    BY GenerationConstants DEF Timely, TypeOK, Refreshing, Epochs
  <1>5. Passed'
    BY GenerationConstants DEF Passed, TypeOK, Epochs
  <1>6. Awake'
    BY GenerationConstants DEF Awake, TypeOK
  <1>7. RetirementStaysTrue'
    BY GenerationConstants DEF RetirementStaysTrue, TypeOK, Epochs
  <1>8. NoOversleep'
    BY GenerationConstants DEF NoOversleep, TypeOK
  <1> QED
    BY <1>1, <1>2, <1>3, <1>4, <1>5, <1>6, <1>7, <1>8

\* The wakeup of that select().
LEMMA RefreshNotifyInd ==
    ASSUME IndInv, RefreshNotify PROVE IndInv'
  <1> USE DEF IndInv, RefreshNotify, session_vars, loop_vars
  <1>1. TypeOK'
    BY GenerationConstants DEF TypeOK
  <1>2. Counted'
    BY GenerationConstants DEF Counted, TypeOK
  <1>3. Behind'
    BY GenerationConstants DEF Behind, TypeOK, Epochs
  <1>4. Timely'
    BY GenerationConstants DEF Timely, TypeOK, Refreshing, Epochs
  <1>5. Passed'
    BY GenerationConstants DEF Passed, TypeOK, Epochs
  <1>6. Awake'
    BY GenerationConstants DEF Awake, TypeOK
  <1>7. RetirementStaysTrue'
    BY GenerationConstants DEF RetirementStaysTrue, TypeOK, Epochs
  <1>8. NoOversleep'
    BY GenerationConstants DEF NoOversleep, TypeOK
  <1> QED
    BY <1>1, <1>2, <1>3, <1>4, <1>5, <1>6, <1>7, <1>8

\* After the refresh the loop returns, or it has a reason not to.
LEMMA LateInd ==
    ASSUME IndInv, Late PROVE IndInv'
  <1> USE DEF IndInv, Late, session_vars, loop_vars
  <1>1. TypeOK'
    BY RetireOrGotoInd, Zenon DEF Late
  <1>2. Counted'
    BY GenerationConstants DEF Counted, RetireOrGoto, TypeOK
  <1>3. Behind'
    BY GenerationConstants DEF Behind, RetireOrGoto, TypeOK, Epochs
  <1>4. Timely'
    BY GenerationConstants DEF Timely, RetireOrGoto, TypeOK, Refreshing, Epochs
  <1>5. Passed'
    BY RetireOrGotoInd, Zenon DEF Late
  <1>6. Awake'
    BY DEF Awake, RetireOrGoto, MayRetire, Eligible
  <1>7. RetirementStaysTrue'
    BY RetireOrGotoInd, Zenon DEF Late
  <1>8. NoOversleep'
    BY GenerationConstants DEF NoOversleep, RetireOrGoto, TypeOK
  <1> QED
    BY <1>1, <1>2, <1>3, <1>4, <1>5, <1>6, <1>7, <1>8

\* The sleep ends no later than the drain limit.
LEMMA PlanInd ==
    ASSUME IndInv, Plan PROVE IndInv'
  <1> USE DEF IndInv, Plan, session_vars, loop_vars
  <1>1. TypeOK'
    <2>1. DrainRemaining \subseteq Nat
      <3>1. \A limit \in drainLimit : limit \in Nat
        BY GenerationConstants DEF TypeOK
      <3>2. \A since \in superseded : since \in Nat
        BY DEF TypeOK
      <3> QED
        BY <3>1, <3>2 DEF DrainRemaining
    <2>2. nap' \in Nat
      BY <2>1, GenerationConstants, Zenon
    <2> QED
      BY <2>2 DEF TypeOK
  <1>2. Counted'
    BY GenerationConstants DEF Counted, TypeOK
  <1>3. Behind'
    BY GenerationConstants DEF Behind, TypeOK, Epochs
  <1>4. Timely'
    BY GenerationConstants DEF Timely, TypeOK, Refreshing, Epochs
  <1>5. Passed'
    BY GenerationConstants DEF Passed, TypeOK, Epochs
  <1>6. Awake'
    BY GenerationConstants DEF Awake, TypeOK
  <1>7. RetirementStaysTrue'
    BY GenerationConstants DEF RetirementStaysTrue, TypeOK, Epochs
  <1>8. NoOversleep'
    <2> SUFFICES ASSUME NEW limit \in drainLimit, NEW since \in superseded
                 PROVE  nap' = 0 \/ since + nap' <= limit
      BY DEF Awake, NoOversleep
    <2> DEFINE rest == IF since < limit THEN limit - since ELSE 0
    <2>1. limit \in Nat /\ since \in Nat /\ Interval \in Nat
      BY GenerationConstants DEF TypeOK
    <2>2. \A l \in drainLimit : l = limit
      BY GenerationConstants DEF TypeOK
    <2>3. \A t \in superseded : t = since
      BY DEF Behind
    <2>4. DrainRemaining = {rest}
      BY <2>2, <2>3 DEF DrainRemaining
    <2>5. nap' = IF rest < Interval THEN rest ELSE Interval
      BY <2>4
    <2> HIDE DEF IndInv, Plan
    <2>6. CASE since < limit
      <3>1. nap' = limit - since \/ (nap' = Interval /\ Interval <= limit - since)
        BY <2>1, <2>5, <2>6
      <3> QED
        BY <2>1, <3>1
    <2>7. CASE ~(since < limit)
      BY <2>1, <2>5, <2>7
    <2> QED
      BY <2>6, <2>7
  <1> QED
    BY <1>1, <1>2, <1>3, <1>4, <1>5, <1>6, <1>7, <1>8

\* The sleep ends.
LEMMA WakeInd ==
    ASSUME IndInv, Wake PROVE IndInv'
  <1> USE DEF IndInv, Wake, session_vars, loop_vars
  <1>1. TypeOK'
    BY GenerationConstants, Zenon DEF TypeOK
  <1>2. Counted'
    BY GenerationConstants DEF Counted, TypeOK
  <1>3. Behind'
    BY GenerationConstants DEF Behind, TypeOK, Epochs
  <1>4. Timely'
    BY GenerationConstants DEF Timely, TypeOK, Refreshing, Epochs
  <1>5. Passed'
    BY GenerationConstants DEF Passed, TypeOK, Epochs
  <1>6. Awake'
    BY GenerationConstants DEF Awake, TypeOK
  <1>7. RetirementStaysTrue'
    BY GenerationConstants DEF RetirementStaysTrue, TypeOK, Epochs
  <1>8. NoOversleep'
    BY GenerationConstants DEF NoOversleep, TypeOK
  <1> QED
    BY <1>1, <1>2, <1>3, <1>4, <1>5, <1>6, <1>7, <1>8

\* The clock.
LEMMA TickInd ==
    ASSUME IndInv, Tick PROVE IndInv'
  <1> USE DEF IndInv, Tick, session_vars, loop_vars
  <1>1. TypeOK'
    BY GenerationConstants DEF TypeOK, Epochs, Outcomes
  <1>2. Counted'
    BY GenerationConstants DEF Counted, TypeOK
  <1>3. Behind'
    <2>1. \A x, y \in superseded' : x = y
      BY DEF Behind
    <2>2. superseded' # {} <=> superseded # {}
      OBVIOUS
    <2> QED
      BY <2>1, <2>2 DEF Behind
  <1>4. Timely'
    BY GenerationConstants DEF Timely, TypeOK, Refreshing, Epochs
  <1>5. Passed'
    BY GenerationConstants DEF Passed, TypeOK, Epochs
  <1>6. Awake'
    BY GenerationConstants DEF Awake, TypeOK
  <1>7. RetirementStaysTrue'
    BY GenerationConstants DEF RetirementStaysTrue, TypeOK, Epochs
  <1>8. NoOversleep'
    BY GenerationConstants DEF NoOversleep, TypeOK
  <1> QED
    BY <1>1, <1>2, <1>3, <1>4, <1>5, <1>6, <1>7, <1>8

\* Generation::new.
LEMMA InitInd == Init => IndInv
  <1> SUFFICES ASSUME Init PROVE IndInv
    OBVIOUS
  <1> USE GenerationConstants DEF Init
  <1>1. TypeOK
    <2>1. record \in Epochs /\ selected \in Epochs /\ read \in Epochs
      BY DEF Epochs
    <2>2. superseded \in SUBSET Nat
      OBVIOUS
    <2>3. outcome \in Outcomes
      BY DEF Outcomes, Running
    <2> QED
      BY <2>1, <2>2, <2>3, Zenon DEF TypeOK
  <1>2. Counted
    BY FS_EmptySet DEF Counted
  <1>3. Behind
    BY DEF Behind, Epochs
  <1>4. Timely /\ Passed /\ Awake /\ RetirementStaysTrue /\ NoOversleep
    BY DEF Timely, Refreshing, Passed, Awake, RetirementStaysTrue, NoOversleep, Running
  <1> QED
    BY <1>1, <1>2, <1>3, <1>4 DEF IndInv

\* Every step, or none.
LEMMA NextInd == IndInv /\ [Next]_vars => IndInv'
  <1> SUFFICES ASSUME IndInv, [Next]_vars PROVE IndInv'
    OBVIOUS
  <1>1. ASSUME NEW epoch \in Epochs, Publish(epoch) \/ Select(epoch) PROVE IndInv'
    BY <1>1, PublishInd, SelectInd
  <1>2. ASSUME NEW s \in Sessions, Admit(s) \/ MarkLegacy(s) \/ Release(s) PROVE IndInv'
    BY <1>2, AdmitInd, MarkLegacyInd, ReleaseInd
  <1>3. CASE Loop
    BY <1>3, BorrowAndUpdateInd, EarlyInd, RefreshReadInd, RefreshSelectInd, RefreshNotifyInd,
       LateInd, PlanInd, WakeInd DEF Loop
  <1>4. CASE UNCHANGED vars
    BY <1>4 DEF vars, IndInv, TypeOK, Counted, Behind, Timely, Refreshing, Passed, Awake,
       RetirementStaysTrue, NoOversleep
  <1> QED
    BY <1>1, <1>2, <1>3, <1>4, NotifyInd, RetireIfIdleInd, TickInd DEF Next

\* The invariant holds throughout.
LEMMA Inductive == Spec => []IndInv
  BY InitInd, NextInd, PTL DEF Spec

-----------------------------------------------------------------------------
(* The theorems.                                                           *)

\* For any sessions, epochs and times, if the staging lifetime covers the
\* latest commit and a refresh: a generation whose run_until_retired returned is
\* not the selected one, the reason it gave stays true, and its loop never
\* sleeps past the moment.
THEOREM RetirementCorrect ==
    ASSUME CommitBy + RefreshLimit <= StagingLifetime
    PROVE  Spec => []RetirementIsTrue
  <1>1. IndInv => RetirementIsTrue
    <2> SUFFICES ASSUME IndInv PROVE RetiredNotSelected
      BY DEF IndInv, RetirementIsTrue
    <2>1. record \in Nat
      BY DEF IndInv, TypeOK, Epochs
    <2> QED
      BY <2>1, GenerationConstants DEF IndInv, Passed, Covers, RetiredNotSelected
  <1> QED
    BY <1>1, Inductive, PTL

\* Without any condition on the times: what run_until_retired returned stays
\* true of the leases, and the loop does not oversleep.
THEOREM ReasonCorrect == Spec => [](RetirementStaysTrue /\ NoOversleep)
  <1>1. IndInv => RetirementStaysTrue /\ NoOversleep
    BY DEF IndInv
  <1> QED
    BY <1>1, Inductive, PTL

\* Nothing goes backwards, whatever the times: the observed selection, the
\* drain clock, and retirement.
THEOREM ForwardCorrect == Spec => ForwardOnly
  <1>1. IndInv /\ [Next]_vars =>
          [/\ selected' >= selected
           /\ \A since \in superseded : \E later \in superseded' : later >= since
           /\ retired => retired' /\ leases' \subseteq leases]_vars
    <2> SUFFICES ASSUME IndInv, Next
                 PROVE  /\ selected' >= selected
                        /\ \A since \in superseded : \E later \in superseded' : later >= since
                        /\ retired => retired' /\ leases' \subseteq leases
      OBVIOUS
    <2>1. selected \in Nat /\ record \in Nat /\ read \in Nat /\ \A since \in superseded : since \in Nat
      BY DEF IndInv, TypeOK, Epochs
    <2> USE DEF session_vars, loop_vars
    <2>2. ASSUME NEW epoch \in Nat, Observe(epoch)
          PROVE  /\ selected' >= selected
                 /\ \A since \in superseded : \E later \in superseded' : later >= since
      BY <2>1, <2>2 DEF Observe
    <2>3. ASSUME NEW epoch \in Epochs, Publish(epoch) \/ Select(epoch)
          PROVE  /\ selected' >= selected
                 /\ \A since \in superseded : \E later \in superseded' : later >= since
                 /\ UNCHANGED <<retired, leases>>
      BY <2>1, <2>2, <2>3, GenerationConstants DEF Publish, Select, Epochs
    <2>4. CASE RefreshSelect
      BY <2>1, <2>2, <2>4 DEF RefreshSelect
    <2>5. CASE Tick
      <3>1. ASSUME NEW since \in superseded PROVE \E later \in superseded' : later >= since
        <4> DEFINE Later == IF \E limit \in drainLimit : since <= limit
                              THEN since + 1 ELSE since
        <4>1. Later \in superseded'
          BY <2>5 DEF Tick
        <4>2. Later >= since
          BY <2>1
        <4> QED
          BY <4>1, <4>2
      <3> QED
        BY <2>1, <2>5, <3>1 DEF Tick
    <2>6. ASSUME NEW s \in Sessions, Admit(s) \/ MarkLegacy(s) \/ Release(s)
          PROVE  /\ UNCHANGED <<selected, superseded, retired>>
                 /\ retired => leases' \subseteq leases
      BY <2>6 DEF Admit, MarkLegacy, Release
    <2>7. CASE Notify \/ RetireIfIdle \/ BorrowAndUpdate \/ RefreshRead \/ RefreshNotify
               \/ Plan \/ Wake \/ Early \/ Late
      <3>1. UNCHANGED <<selected, superseded, leases>>
        BY <2>7, Zenon
           DEF Notify, RetireIfIdle, BorrowAndUpdate, RefreshRead, RefreshNotify, Plan, Wake,
           Early, Late
      <3>2. retired => retired'
        BY <2>7, Zenon
           DEF Notify, RetireIfIdle, BorrowAndUpdate, RefreshRead, RefreshNotify, Plan, Wake,
           Early, Late, RetireOrGoto
      <3>3. selected' >= selected
        BY <2>1, <3>1
      <3>4. \A since \in superseded : since \in superseded' /\ since >= since
        BY <2>1, <3>1
      <3> QED
        BY <3>1, <3>2, <3>3, <3>4
    <2> QED
      BY <2>1, <2>3, <2>4, <2>5, <2>6, <2>7 DEF Next, Loop
  <1> QED
    BY <1>1, Inductive, PTL DEF Spec, ForwardOnly
=============================================================================

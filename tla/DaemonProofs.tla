---------------------------- MODULE DaemonProofs ----------------------------
(***************************************************************************)
(* A daemon counts and drains its requests rightly for every number of     *)
(* requests and of waiting futures, and the transaction that replaces it   *)
(* is right for every budget.                                              *)
(*                                                                         *)
(* Lifecycle: ResultsStayTrue and NoLostWakeup are not inductive by        *)
(* themselves.  What is missing is how far each future has got (Progress): *)
(* a receiver never runs ahead of the channel, a drainer past its start    *)
(* has closed the gate, and a future about to report a timeout holds a     *)
(* count that is still an upper bound.                                     *)
(*                                                                         *)
(* Replacement: the properties speak of histories (begun, done, selected); *)
(* what makes them inductive is that the machine's position determines the *)
(* history: Ordered says which steps are done and which have not begun,    *)
(* Timed that the clock of a phase is its budget minus what the phase has  *)
(* spent.                                                                  *)
(***************************************************************************)
EXTENDS Lifecycle, Replacement, FiniteSetTheorems, TLAPS

-----------------------------------------------------------------------------
(* Requests, the drain and the futures that wait for it.                   *)

Progress ==
    \A w \in Waiters :
        /\ seen[w] <= version
        /\ w \notin Closers /\ pc[w] \notin {"idle", "start"} => draining
        /\ pc[w] = "report" => left[w] > 0 /\ active <= left[w]
        /\ pc[w] \in {"late", "report"} => w \notin Closers
        /\ pc[w] # "done" => result[w] = "None"

IndInv ==
    /\ TypeOK
    /\ ActiveCountsGuards
    /\ DrainRecordedOnce
    /\ ResultsStayTrue
    /\ NoLostWakeup
    /\ Progress

\* The set of live guards is finite, so it has a size.
LEMMA GuardsFinite == TypeOK => IsFiniteSet(guards) /\ Cardinality(guards) \in Nat
  BY RequestsFinite, FS_Subset, FS_CardinalityType DEF TypeOK

\* A finite set of guards is empty exactly when the count is zero.
LEMMA NoneActive == TypeOK /\ ActiveCountsGuards => (active = 0 <=> guards = {})
  BY GuardsFinite, FS_EmptySet DEF ActiveCountsGuards

LEMMA InitInd == Init => IndInv
  <1> SUFFICES ASSUME Init PROVE IndInv
    OBVIOUS
  <1>1. TypeOK
    BY Zenon DEF Init, TypeOK, Locations, Results
  <1>2. ActiveCountsGuards
    BY FS_EmptySet DEF Init, ActiveCountsGuards
  <1>3. DrainRecordedOnce
    BY DEF Init, DrainRecordedOnce, Events
  <1>4. ResultsStayTrue /\ NoLostWakeup /\ Progress
    BY DEF Init, ResultsStayTrue, NoLostWakeup, Progress
  <1> QED
    BY <1>1, <1>2, <1>3, <1>4 DEF IndInv

\* begin(): one more guard, and the count follows.
LEMMA BeginInd ==
    ASSUME IndInv, NEW r \in Requests, Begin(r)
    PROVE  IndInv'
  <1> USE DEF IndInv
  <1>1. TypeOK'
    BY DEF Begin, TypeOK
  <1>2. ActiveCountsGuards'
    BY GuardsFinite, FS_AddElement DEF Begin, ActiveCountsGuards
  <1>3. DrainRecordedOnce'
    BY DEF Begin, DrainRecordedOnce
  <1>4. ResultsStayTrue'
    BY DEF Begin, ResultsStayTrue
  <1>5. NoLostWakeup'
    BY DEF Begin, NoLostWakeup, Ready, TypeOK
  <1>6. Progress'
    BY DEF Begin, Progress, TypeOK, Waiters, Closers
  <1> QED
    BY <1>1, <1>2, <1>3, <1>4, <1>5, <1>6

\* RequestGuard::drop: one guard less; the last one of a drain is recorded
\* and moves the channel past every receiver.
LEMMA DropInd ==
    ASSUME IndInv, NEW r \in Requests, Drop(r)
    PROVE  IndInv'
  <1> USE DEF IndInv
  <1>a. active \in Nat /\ active # 0
    BY NoneActive DEF Drop, TypeOK
  <1>b. Cardinality(guards \ {r}) = active - 1
    <2>1. IsFiniteSet(guards) /\ r \in guards /\ Cardinality(guards) = active
      BY GuardsFinite DEF Drop, ActiveCountsGuards
    <2> QED
      BY <2>1, FS_RemoveElement
  <1>1. /\ active \in Nat /\ active > 0
        /\ Cardinality(guards \ {r}) = active - 1
    BY <1>a, <1>b
  <1>2. TypeOK'
    BY <1>1 DEF Drop, TypeOK, Events
  <1>3. ActiveCountsGuards'
    BY <1>1 DEF Drop, ActiveCountsGuards
  <1>4. active' = 0 <=> guards' = {}
    BY <1>2, <1>3, NoneActive, GuardsFinite, FS_EmptySet, FS_Subset, RequestsFinite
       DEF ActiveCountsGuards, TypeOK
  <1>5. DrainRecordedOnce'
    BY <1>1, <1>4 DEF Drop, DrainRecordedOnce, TypeOK, Events
  <1>6. ResultsStayTrue'
    BY <1>1 DEF Drop, ResultsStayTrue, TypeOK
  <1>7. NoLostWakeup'
    BY <1>1 DEF Drop, NoLostWakeup, Ready, TypeOK, Progress
  <1>8. Progress'
    BY <1>1 DEF Drop, Progress, TypeOK
  <1> QED
    BY <1>2, <1>3, <1>5, <1>6, <1>7, <1>8

\* start_drain(): the gate closes once; a drain of an idle daemon is complete
\* at once.  The caller may move from "start" to "subscribe" in the same step.
LEMMA CloseInd ==
    ASSUME IndInv, CloseAdmission, UNCHANGED <<active, guards, seen, result, left>>,
           \/ UNCHANGED pc
           \/ \E w \in Waiters : pc[w] = "start" /\ Goto(w, "subscribe")
    PROVE  IndInv'
  <1> USE DEF IndInv
  <1>0. /\ draining' /\ draining' \in BOOLEAN
        /\ version' \in Nat
        /\ version' = IF draining THEN version ELSE version + 1
    <2>1. CASE draining
      BY <2>1 DEF CloseAdmission, TypeOK
    <2>2. CASE ~draining
      BY <2>2 DEF CloseAdmission, TypeOK
    <2> QED
      BY <2>1, <2>2
  <1>r. recorded' \in [Events -> Nat]
    BY DEF CloseAdmission, TypeOK, Events
  <1>p. pc' \in [Waiters -> Locations]
    BY DEF Goto, TypeOK, Locations
  <1>1. TypeOK'
    BY <1>0, <1>r, <1>p DEF TypeOK
  <1>2. ActiveCountsGuards'
    BY DEF ActiveCountsGuards
  <1>3. DrainRecordedOnce'
    BY NoneActive DEF CloseAdmission, DrainRecordedOnce, TypeOK, Events
  <1>4. ResultsStayTrue'
    BY <1>0 DEF ResultsStayTrue
  <1>5. NoLostWakeup'
    BY <1>0 DEF CloseAdmission, NoLostWakeup, Ready, TypeOK, Progress, Goto
  <1>6. Progress'
    BY <1>0 DEF Progress, TypeOK, Goto
  <1> QED
    BY <1>1, <1>2, <1>3, <1>4, <1>5, <1>6

\* Steps of one future that leave the gate alone.
LEMMA WaitInd ==
    ASSUME IndInv, NEW w \in Waiters,
           Call(w) \/ Subscribe(w) \/ BorrowAndUpdate(w) \/ Check(w) \/ Changed(w)
             \/ PollOperation(w) \/ Operation(w) \/ Expire(w)
    PROVE  IndInv'
  <1> USE DEF IndInv
  <1>0. /\ UNCHANGED <<draining, active, guards, version, left, recorded>>
        /\ \A v \in Waiters \ {w} :
              pc'[v] = pc[v] /\ seen'[v] = seen[v] /\ result'[v] = result[v]
    BY DEF Call, Subscribe, BorrowAndUpdate, Check, Changed, PollOperation,
           Operation, Expire, MarkSeen, Goto, Return, TypeOK
  <1>1. TypeOK'
    BY DEF Call, Subscribe, BorrowAndUpdate, Check, Changed, PollOperation,
           Operation, Expire, MarkSeen, Goto, Return, TypeOK, Locations, Results
  <1>2. ActiveCountsGuards' /\ DrainRecordedOnce'
    BY <1>0 DEF ActiveCountsGuards, DrainRecordedOnce
  <1>3. /\ result'[w] = "Closed" => draining
        /\ result'[w] = "Complete" => draining /\ guards = {}
        /\ result'[w] = "TimedOut" => result[w] = "TimedOut"
    BY NoneActive DEF Call, Subscribe, BorrowAndUpdate, Check, Changed,
       PollOperation, Operation, Expire, MarkSeen, Goto, Return, TypeOK,
       ResultsStayTrue, Ready, Progress
  <1>4. ResultsStayTrue'
    BY <1>0, <1>3 DEF ResultsStayTrue
  <1>5. pc'[w] \in {"wait", "operation"} /\ seen'[w] = version => ~Ready(w)
    <2>1. CASE Check(w)
      BY <2>1 DEF Check, Goto, Return, TypeOK
    <2>2. CASE PollOperation(w) \/ Operation(w)
      BY <2>2 DEF PollOperation, Operation, Goto, Return, TypeOK, NoLostWakeup
    <2>3. CASE Call(w) \/ Subscribe(w) \/ BorrowAndUpdate(w) \/ Changed(w) \/ Expire(w)
      <3>1. pc'[w] \notin {"wait", "operation"}
        BY <2>3 DEF Call, Subscribe, BorrowAndUpdate, Changed, Expire, MarkSeen,
           Goto, TypeOK
      <3> QED
        BY <3>1
    <2> QED
      BY <2>1, <2>2, <2>3
  <1>6. NoLostWakeup'
    BY <1>0, <1>5 DEF NoLostWakeup, Ready
  <1>7. /\ seen'[w] <= version
        /\ w \notin Closers /\ pc'[w] \notin {"idle", "start"} => draining
        /\ pc'[w] # "report"
        /\ pc'[w] = "late" => w \notin Closers
        /\ pc'[w] # "done" => result'[w] = "None"
    BY WaitersDisjoint DEF Call, Subscribe, BorrowAndUpdate, Check, Changed,
       PollOperation, Operation, Expire, MarkSeen, Goto, Return, TypeOK,
       Progress, Closers
  <1>8. Progress'
    BY <1>0, <1>7 DEF Progress
  <1> QED
    BY <1>1, <1>2, <1>4, <1>6, <1>8

\* The end of drain_until() after its deadline.
LEMMA LateInd ==
    ASSUME IndInv, NEW w \in Waiters, LookAgain(w) \/ ReportTimeout(w)
    PROVE  IndInv'
  <1> USE DEF IndInv
  <1>0. /\ UNCHANGED <<draining, active, guards, version, seen>>
        /\ draining
        /\ \A v \in Waiters \ {w} :
              pc'[v] = pc[v] /\ left'[v] = left[v] /\ result'[v] = result[v]
    BY DEF LookAgain, ReportTimeout, Goto, Return, TypeOK, Progress
  <1>1. TypeOK'
    BY DEF LookAgain, ReportTimeout, Goto, Return, TypeOK, Locations, Results, Events
  <1>2. ActiveCountsGuards' /\ DrainRecordedOnce'
    BY <1>0 DEF ActiveCountsGuards, DrainRecordedOnce, LookAgain, ReportTimeout,
       TypeOK, Events
  <1>3. /\ result'[w] = "Closed" => result[w] = "Closed"
        /\ result'[w] = "Complete" => guards = {}
        /\ result'[w] = "TimedOut" => left'[w] > 0 /\ active <= left'[w]
    BY NoneActive DEF LookAgain, ReportTimeout, Goto, Return, TypeOK,
       ResultsStayTrue, Progress
  <1>4. ResultsStayTrue'
    BY <1>0, <1>3 DEF ResultsStayTrue
  <1>5. pc'[w] \notin {"wait", "operation"}
    BY DEF LookAgain, ReportTimeout, Goto, Return, TypeOK
  <1>6. NoLostWakeup'
    BY <1>0, <1>5 DEF NoLostWakeup, Ready
  <1>7. /\ pc'[w] = "report" => left'[w] > 0 /\ active <= left'[w]
        /\ pc'[w] # "done" => result'[w] = "None"
    BY DEF LookAgain, ReportTimeout, Goto, Return, TypeOK, Progress
  <1>8. w \notin Closers
    BY DEF LookAgain, ReportTimeout, Progress
  <1>9. Progress'
    BY <1>0, <1>7, <1>8 DEF Progress
  <1> QED
    BY <1>1, <1>2, <1>4, <1>6, <1>9

\* Every step of the lifecycle preserves the inductive invariant.
LEMMA NextInd == IndInv /\ [Next]_vars => IndInv'
  <1> SUFFICES ASSUME IndInv, [Next]_vars PROVE IndInv'
    OBVIOUS
  <1>1. CASE \E r \in Requests : Begin(r) \/ Drop(r)
    BY <1>1, BeginInd, DropInd
  <1>2. CASE StartDrain
    BY <1>2, CloseInd DEF StartDrain
  <1>3. CASE \E w \in Waiters : Start(w)
    BY <1>3, CloseInd DEF Start
  <1>4. CASE \E w \in Waiters : LookAgain(w) \/ ReportTimeout(w)
    BY <1>4, LateInd
  <1>5. CASE \E w \in Waiters :
               Call(w) \/ Subscribe(w) \/ BorrowAndUpdate(w) \/ Check(w)
                 \/ Changed(w) \/ PollOperation(w) \/ Operation(w) \/ Expire(w)
    BY <1>5, WaitInd
  <1>6. CASE UNCHANGED vars
    BY <1>6 DEF IndInv, vars, TypeOK, ActiveCountsGuards, DrainRecordedOnce,
       ResultsStayTrue, NoLostWakeup, Ready, Progress
  <1> QED
    BY <1>1, <1>2, <1>3, <1>4, <1>5, <1>6 DEF Next, Poll

LEMMA Inductive == Spec => []IndInv
  BY InitInd, NextInd, PTL DEF Spec

\* The lifecycle's variables keep their types: in particular `active` never
\* goes below zero, which in Rust would be an arithmetic panic in a drop.
THEOREM TypeCorrect == Spec => []TypeOK
  BY Inductive, PTL DEF IndInv

\* begin() and RequestGuard::drop keep the count equal to the guards alive.
THEOREM CountCorrect == Spec => []ActiveCountsGuards
  BY Inductive, PTL DEF IndInv

\* DrainStarted and DrainCompleted are recorded exactly once, at the moment
\* admission closes and at the moment the closed gate is empty.
THEOREM EventsCorrect == Spec => []DrainRecordedOnce
  BY Inductive, PTL DEF IndInv

\* No future's result is ever invalidated by a later step.
THEOREM ResultsCorrect == Spec => []ResultsStayTrue
  BY Inductive, PTL DEF IndInv

\* A future never sleeps through the change it waits for.
THEOREM WakeupsCorrect == Spec => []NoLostWakeup
  BY Inductive, PTL DEF IndInv

\* A future told that the drain is over is told so by a step of its own.
LEMMA CompleteStep ==
    ASSUME IndInv, NEW w \in Waiters,
           Call(w) \/ Poll(w) \/ Expire(w)
    PROVE  \/ \A v \in Waiters \ Closers : result'[v] = "Complete" <=> result[v] = "Complete"
           \/ /\ draining /\ guards = {} /\ w \notin Closers /\ draining' = draining
              /\ \A v \in Waiters : result'[v] = IF v = w THEN "Complete" ELSE result[v]
  <1> USE DEF IndInv
  <1>1. CASE Check(w)
    BY <1>1, NoneActive DEF Check, Ready, Return, Goto, TypeOK, Progress
  <1>2. CASE LookAgain(w)
    BY <1>2, NoneActive DEF LookAgain, Return, Goto, TypeOK, Progress
  <1>3. CASE ReportTimeout(w)
    BY <1>3 DEF ReportTimeout, Return, Goto, TypeOK, Progress, ResultsStayTrue
  <1>4. CASE Operation(w)
    BY <1>4 DEF Operation, Return, Goto, TypeOK, Progress
  <1>5. CASE Call(w) \/ Start(w) \/ Subscribe(w) \/ BorrowAndUpdate(w) \/ Changed(w)
               \/ PollOperation(w) \/ Expire(w)
    BY <1>5 DEF Call, Start, Subscribe, BorrowAndUpdate, Changed, PollOperation,
       Expire, MarkSeen
  <1> QED
    BY <1>1, <1>2, <1>3, <1>4, <1>5 DEF Poll

\* Lifecycle implements DrainGate: the refinement mapping takes every step to
\* a step of the gate or to a stuttering step.
THEOREM Refinement == Spec => ImplementsGate
  <1>1. Init => Gate!Init
    BY DEF Init, Gate!Init, Waiters
  <1>2. IndInv /\ [Next]_vars => [Gate!Next]_(Gate!gateVars)
    <2> SUFFICES ASSUME IndInv, [Next]_vars PROVE [Gate!Next]_(Gate!gateVars)
      OBVIOUS
    <2> USE DEF Gate!gateVars
    <2>1. CASE \E r \in Requests : Begin(r) \/ Drop(r)
      BY <2>1 DEF Begin, Drop, Gate!Next, Gate!Enter, Gate!Leave
    <2>2. CASE CloseAdmission /\ UNCHANGED <<guards, result>>
      BY <2>2 DEF CloseAdmission, Gate!Next, Gate!Close
    <2>3. CASE \E w \in Waiters : (Call(w) \/ Poll(w) \/ Expire(w)) /\ ~Start(w)
      <3>1. PICK w \in Waiters : (Call(w) \/ Poll(w) \/ Expire(w)) /\ ~Start(w)
        BY <2>3
      <3>2. UNCHANGED <<draining, guards>>
        BY <3>1 DEF Call, Poll, Subscribe, BorrowAndUpdate, Check, Changed,
           PollOperation, Operation, LookAgain, ReportTimeout, Expire, MarkSeen
      <3> DEFINE Calling == Drainers \union TimedDrainers
                 Told == {v \in Calling : result[v] = "Complete"}
      <3>3. Calling = Waiters \ Closers
        BY WaitersDisjoint DEF Waiters, Closers
      <3>4. CASE \A v \in Waiters \ Closers :
                    result'[v] = "Complete" <=> result[v] = "Complete"
        BY <3>2, <3>3, <3>4
      <3>5. CASE /\ draining /\ guards = {} /\ w \notin Closers
                 /\ \A v \in Waiters : result'[v] = IF v = w THEN "Complete" ELSE result[v]
        <4>1. w \in Calling /\ Told' = Told \union {w}
          BY <3>3, <3>5
        <4> QED
          BY <3>2, <3>5, <4>1 DEF Gate!Next, Gate!Tell
      <3> QED
        BY <3>1, <3>4, <3>5, CompleteStep
    <2>4. CASE UNCHANGED vars
      BY <2>4 DEF vars
    <2> QED
      BY <2>1, <2>2, <2>3, <2>4 DEF Next, Poll, StartDrain, Start
  <1> QED
    BY <1>1, <1>2, Inductive, PTL DEF Spec, ImplementsGate, Gate!Spec

-----------------------------------------------------------------------------
(* The replacement transaction.                                            *)

Rank(step) ==
    CASE step = "Recheck" -> 0
      [] step = "Prepare" -> 1
      [] step = "Drain" -> 2
      [] step = "Start" -> 3
      [] step = "Verify" -> 4
      [] step = "Validate" -> 5
      [] step = "Commit" -> 6
      [] step = "Retire" -> 7

Ordered ==
    /\ \A s \in begun : Rank(s) <= Rank(machine.step)
    /\ \A s \in Steps : Rank(s) < Rank(machine.step) =>
          s \in done \/ (s = "Drain" /\ machine.mode = "Overlap")
    /\ "Drain" \in begun \/ machine.step = "Drain" => machine.mode = "Exclusive"
    /\ "Retire" \in begun \/ machine.step = "Retire" =>
          machine.committed /\ machine.mode = "Overlap"
    /\ machine.committed => machine.step \in {"Commit", "Retire"}
    /\ machine.committed = selected

Looping ==
    /\ loop = "performing" => machine.step \in begun
    /\ loop \in {"top", "sleeping"} /\ machine.step \in begun => MayRetry(machine)
    /\ loop \in {"top", "sleeping", "performing"} /\ machine.step = "Commit" =>
          ~machine.committed
    /\ loop = "prefault" =>
          /\ machine.committed
          /\ "Retire" \notin begun
          /\ machine.mode = "Overlap" => machine.step = "Retire"
    /\ report = "Running" <=> loop # "returned"
    /\ report \in {"Complete", "RetirementPending"} => selected
    /\ report = "Unchanged" => begun = {"Recheck"}
    /\ report = "Deadline" => Expired

Timed ==
    loop \in {"top", "performing", "sleeping"} \/ report = "Deadline" =>
        /\ remaining = {b - spent : b \in PhaseBudget}
        /\ \A b \in PhaseBudget : spent <= b

TransactionInv == TransactionOK /\ Ordered /\ Looping /\ Timed

\* A budget is a set of at most one time.
LEMMA BudgetShape ==
    ASSUME TransactionOK
    PROVE  /\ budgets.setup \in Nat
           /\ budgets.drain = {} \/ \E n \in Nat : budgets.drain = {n}
           /\ PhaseBudget = {} \/ \E n \in Nat : PhaseBudget = {n}
  <1>1. budgets.setup \in Nat /\ budgets.drain \in DrainBudgets
    BY BudgetsAreTimes, Zenon DEF TransactionOK
  <1>2. ASSUME budgets.drain # {}
        PROVE  \E n \in Nat : budgets.drain = {n}
    <2>1. PICK n \in budgets.drain : TRUE
      BY <1>2
    <2>2. n \in Nat /\ budgets.drain = {n}
      BY <1>1, <2>1, BudgetsAreTimes
    <2> QED
      BY <2>2
  <1> QED
    BY <1>1, <1>2 DEF PhaseBudget

\* The invariant implies the state properties that the runs check.
LEMMA IndImplies ==
    TransactionInv => /\ SelectionIsReported
              /\ SelectedIsProven
              /\ IncumbentOutlivesChoice
              /\ DeadlineMeansSpent
  <1> SUFFICES ASSUME TransactionInv
               PROVE  /\ SelectionIsReported
                      /\ SelectedIsProven
                      /\ IncumbentOutlivesChoice
                      /\ DeadlineMeansSpent
    OBVIOUS
  <1> USE DEF TransactionInv
  <1>1. SelectionIsReported
    BY DEF SelectionIsReported, Ordered, Looping
  <1>2. SelectedIsProven
    BY DEF SelectedIsProven, Ordered, TransactionOK, Machines, Steps, Rank
  <1>3. IncumbentOutlivesChoice
    BY DEF IncumbentOutlivesChoice, Ordered, TransactionOK, Machines, Steps, Rank, Modes
  <1>4. DeadlineMeansSpent
    <2> SUFFICES ASSUME report = "Deadline"
                 PROVE  \E b \in PhaseBudget : spent >= b
      BY DEF DeadlineMeansSpent
    <2>1. PICK b \in PhaseBudget : 0 = b - spent
      BY DEF Looping, Expired, Timed
    <2>2. b \in Nat /\ spent \in Nat
      BY BudgetShape DEF TransactionOK
    <2> QED
      BY <2>1, <2>2
  <1> QED
    BY <1>1, <1>2, <1>3, <1>4

LEMMA TransactionInitInd == TransactionInit => TransactionInv
  <1> SUFFICES ASSUME TransactionInit PROVE TransactionInv
    OBVIOUS
  <1>0. PICK mode \in Modes : machine = NewMachine(mode)
    BY DEF TransactionInit
  <1>a. budgets.setup \in Nat
    BY BudgetsAreTimes, Zenon DEF TransactionInit
  <1>b. machine \in Machines
    BY <1>0 DEF NewMachine, Machines, Steps
  <1>c. remaining \in SUBSET Nat
    BY <1>a DEF TransactionInit
  <1>d. budgets \in [setup : SetupBudgets, drain : DrainBudgets]
    BY DEF TransactionInit
  <1>1. TransactionOK
    <2>1. report \in Reports
      BY DEF TransactionInit, Reports
    <2>2. runner \in {"blocking", "async"} /\ loop \in {"top"} /\ nap \in Nat /\ spent \in Nat
      BY DEF TransactionInit
    <2>3. begun = {} /\ done = {} /\ selected \in BOOLEAN
      BY Zenon DEF TransactionInit
    <2> QED
      BY <1>b, <1>c, <1>d, <2>1, <2>2, <2>3 DEF TransactionOK
  <1>2. Ordered
    <2>1. machine.step = "Recheck" /\ machine.committed = FALSE
      BY <1>0 DEF NewMachine
    <2>2. \A s \in Steps : ~(Rank(s) < Rank("Recheck"))
      BY DEF Steps, Rank
    <2> QED
      BY <2>1, <2>2, Zenon DEF TransactionInit, Ordered
  <1>3. Looping
    BY <1>0 DEF TransactionInit, Looping, NewMachine
  <1>4. Timed
    BY <1>0, <1>1, BudgetShape
       DEF TransactionInit, Timed, PhaseBudget, NewMachine, TransactionOK
  <1> QED
    BY <1>1, <1>2, <1>3, <1>4 DEF TransactionInv

\* The call returns without moving the machine.
LEMMA FinishInd ==
    ASSUME TransactionInv, loop # "returned",
           NEW value \in {"Deadline", "Adapter", "Cancelled"},
           value # "Cancelled" => loop \in {"top", "performing"},
           value = "Deadline" => Expired,
           Finish(value), UNCHANGED <<runner, budgets, begun, selected>>
    PROVE  TransactionInv'
  <1> USE DEF TransactionInv
  <1>1. TransactionOK'
    BY DEF Finish, TransactionOK, Reports
  <1>2. Ordered'
    BY DEF Finish, Ordered
  <1>3. Looping'
    BY DEF Finish, Looping, Expired
  <1>4. Timed'
    BY DEF Finish, Timed, PhaseBudget
  <1> QED
    BY <1>1, <1>2, <1>3, <1>4

\* An asked step is on the record before it runs.
LEMMA TopInd ==
    ASSUME TransactionInv, TopOfLoop
    PROVE  TransactionInv'
  <1>1. CASE Expired
    BY <1>1, FinishInd DEF TopOfLoop
  <1>2. CASE ~Expired
    <2> USE DEF TransactionInv
    <2>1. TransactionOK'
      BY <1>2, Zenon DEF TopOfLoop, TransactionOK, Machines
    <2>2. Ordered'
      BY <1>2 DEF TopOfLoop, Ordered, Looping, TransactionOK, Machines, Steps, Rank
    <2>3. Looping'
      BY <1>2 DEF TopOfLoop, Looping, TransactionOK
    <2>4. Timed'
      BY <1>2 DEF TopOfLoop, Timed, PhaseBudget
    <2> QED
      BY <2>1, <2>2, <2>3, <2>4
  <1> QED
    BY <1>1, <1>2

\* Time passes alike for the deadline and for the budget of the phase.
LEMMA TickInd ==
    ASSUME TransactionInv, Tick
    PROVE  TransactionInv'
  <1> USE DEF TransactionInv
  <1>1. TransactionOK'
    BY DEF Tick, TransactionOK, CountDown
  <1>2. Ordered' /\ Looping'
    BY DEF Tick, Ordered, Looping, MayRetry, TransactionOK
  <1>3. Timed'
    <2>1. CASE PhaseBudget = {}
      BY <2>1 DEF Tick, Timed, PhaseBudget
    <2>2. CASE \E n \in Nat : PhaseBudget = {n}
      <3>1. PICK n \in Nat : PhaseBudget = {n}
        BY <2>2
      <3>2. PhaseBudget' = {n}
        BY <3>1 DEF Tick, PhaseBudget
      <3>3. CASE loop \in {"top", "performing", "sleeping"}
        <4>1. remaining = {n - spent} /\ spent <= n /\ spent \in Nat
          BY <3>1, <3>3 DEF Timed, TransactionOK
        <4>2. remaining' = {CountDown(n - spent)}
          BY <4>1 DEF Tick
        <4>3. spent' = IF spent < n THEN spent + 1 ELSE spent
          BY <3>1 DEF Tick
        <4>4. CountDown(n - spent) = n - spent' /\ spent' <= n
          BY <4>1, <4>3 DEF CountDown
        <4> QED
          BY <3>2, <4>2, <4>4 DEF Timed
      <3>4. CASE loop = "prefault"
        BY <3>4 DEF Tick, Timed, Looping
      <3> QED
        BY <3>3, <3>4 DEF Tick, TransactionOK
    <2> QED
      BY <2>1, <2>2, BudgetShape
  <1> QED
    BY <1>1, <1>2, <1>3

\* After Commit the shims are warm: an exclusive transaction is complete, an
\* overlapping one starts the retirement phase with a budget of its own.
LEMMA PrefaultedInd ==
    ASSUME TransactionInv, Prefaulted
    PROVE  TransactionInv'
  <1> USE DEF TransactionInv
  <1>0. loop = "prefault" /\ machine.committed /\ selected /\ report = "Running"
    BY DEF Prefaulted, Looping, Ordered, TransactionOK
  <1>1. CASE machine.mode = "Exclusive"
    <2>1. TransactionOK'
      BY <1>1, Zenon DEF Prefaulted, Finish, TransactionOK, Reports, Verdicts
    <2>2. Ordered'
      BY <1>1 DEF Prefaulted, Finish, Ordered
    <2>3. Looping' /\ Timed'
      BY <1>0, <1>1 DEF Prefaulted, Finish, Looping, Timed
    <2> QED
      BY <2>1, <2>2, <2>3
  <1>2. CASE machine.mode # "Exclusive"
    <2>0. machine.mode = "Overlap" /\ machine.step = "Retire"
      BY <1>0, <1>2 DEF Looping, TransactionOK, Machines, Modes
    <2>a. remaining' = budgets.drain /\ spent' = 0
      BY <1>2, <2>0 DEF Prefaulted, EnterStep, NewDeadline, NewPhase
    <2>b. remaining' \in SUBSET Nat
      BY <2>a, BudgetShape
    <2>1. TransactionOK'
      BY <1>2, <2>a, <2>b DEF Prefaulted, TransactionOK
    <2>2. Ordered'
      BY <1>2 DEF Prefaulted, Ordered
    <2>3. Looping'
      BY <1>0, <1>2, <2>0 DEF Prefaulted, Looping, TransactionOK
    <2>c. PhaseBudget' = budgets.drain
      BY <1>2, <2>0 DEF Prefaulted, PhaseBudget
    <2>4. Timed'
      <3>1. CASE budgets.drain = {}
        BY <3>1, <2>a, <2>c DEF Timed
      <3>2. CASE \E n \in Nat : budgets.drain = {n}
        BY <3>2, <2>a, <2>c DEF Timed
      <3> QED
        BY <3>1, <3>2, BudgetShape
    <2> QED
      BY <2>1, <2>2, <2>3, <2>4
  <1> QED
    BY <1>1, <1>2

\* What Done does to the machine, step by step: it moves to a later step that
\* nobody has asked for, and only Commit sets the committed flag.
LEMMA AdvanceFacts ==
    ASSUME NEW m \in Machines, NEW n, n = Advance(m, "Done"),
           m.step = "Drain" => m.mode = "Exclusive",
           m.step = "Retire" => m.mode = "Overlap"
    PROVE  /\ n \in Machines
           /\ n.mode = m.mode
           /\ n.committed = (m.committed \/ m.step = "Commit")
           /\ n.step = NextStep(m)
           /\ n.step = m.step \/ Rank(m.step) < Rank(n.step)
           /\ \A s \in Steps : Rank(s) < Rank(n.step) /\ Rank(s) > Rank(m.step) =>
                 s = "Drain" /\ m.mode = "Overlap"
           /\ n.step = m.step <=> Verdict(m, "Done") = "Complete"
  <1>1. n = [m EXCEPT !.step = NextStep(m), !.committed = @ \/ m.step = "Commit"]
    BY DEF Advance
  <1>2. NextStep(m) \in Steps
    BY DEF NextStep, Machines, Steps
  <1>3. /\ n \in Machines
        /\ n.mode = m.mode
        /\ n.committed = (m.committed \/ m.step = "Commit")
        /\ n.step = NextStep(m)
    BY <1>1, <1>2, Zenon DEF Machines
  <1>4. NextStep(m) = m.step \/ Rank(m.step) < Rank(NextStep(m))
    BY DEF NextStep, Rank, Machines, Steps
  <1>5. \A s \in Steps : Rank(s) < Rank(NextStep(m)) /\ Rank(s) > Rank(m.step) =>
                 s = "Drain" /\ m.mode = "Overlap"
    BY DEF NextStep, Rank, Machines, Steps, Modes
  <1>6. NextStep(m) = m.step <=> Verdict(m, "Done") = "Complete"
    BY DEF NextStep, Verdict, Machines, Steps, MayRetry
  <1> QED
    BY <1>3, <1>4, <1>5, <1>6

\* The adapter answers after its deadline: nothing but the report changes.
LEMMA LateAnswerInd ==
    ASSUME TransactionInv, NEW answer \in Answers, AdapterAnswers(answer), TooLate
    PROVE  TransactionInv'
  <1>1. selected' = selected
    BY DEF AdapterAnswers, TooLate, TransactionInv, TransactionOK
  <1> QED
    BY <1>1, FinishInd DEF AdapterAnswers, TooLate

\* An answer other than Done leaves the machine where it is.
LEMMA NotDoneInd ==
    ASSUME TransactionInv, NEW answer \in Answers, AdapterAnswers(answer), ~TooLate,
           answer # "Done"
    PROVE  TransactionInv'
  <1> USE DEF TransactionInv
  <1>0. /\ Advance(machine, answer) = machine
        /\ loop = "performing" /\ report = "Running"
        /\ UNCHANGED <<selected, done, begun, runner, budgets>>
        /\ machine.step \in begun
    BY DEF AdapterAnswers, Advance, Looping, TransactionOK
  <1>v. Verdict(machine, answer) \in Verdicts
    BY DEF Verdict, Verdicts
  <1>1. CASE Verdict(machine, answer) = "Continue"
    <2>1. MayRetry(machine) /\ machine.step # "Commit"
      BY <1>0, <1>1 DEF Verdict, MayRetry, Answers
    <2>2. /\ machine' = machine /\ UNCHANGED <<report, remaining, spent>>
          /\ loop' = "sleeping"
          /\ nap' \in Nat
      <3>1. Continue(machine)
        BY <1>0, <1>1 DEF AdapterAnswers
      <3>2. (CHOOSE r \in remaining : TRUE) \in Nat \/ remaining = {}
        BY Zenon DEF TransactionOK
      <3> QED
        BY <2>1, <3>1, <3>2, BudgetsAreTimes, Zenon DEF Continue
    <2>3. TransactionOK'
      BY <1>0, <2>2 DEF TransactionOK
    <2>4. Ordered'
      BY <1>0, <2>2 DEF Ordered
    <2>5. Looping'
      BY <1>0, <2>1, <2>2 DEF Looping, MayRetry
    <2>6. Timed'
      BY <1>0, <2>2 DEF Timed, PhaseBudget
    <2> QED
      BY <2>3, <2>4, <2>5, <2>6
  <1>2. CASE Verdict(machine, answer) # "Continue"
    <2>1. /\ machine' = machine /\ UNCHANGED <<remaining, nap, spent>>
          /\ loop' = "returned" /\ report' = Verdict(machine, answer)
      BY <1>0, <1>2 DEF AdapterAnswers
    <2>2. TransactionOK'
      BY <1>0, <1>2, <1>v, <2>1 DEF TransactionOK, Reports
    <2>3. Ordered'
      BY <1>0, <2>1 DEF Ordered
    <2>4. /\ Verdict(machine, answer) \in {"Unchanged", "RetirementPending", "InvalidProgress"}
          /\ Verdict(machine, answer) = "Unchanged" => machine.step = "Recheck"
          /\ Verdict(machine, answer) = "RetirementPending" => machine.step = "Retire"
      BY <1>0, <1>2 DEF Verdict, Answers
    <2>5. machine.step = "Recheck" => begun = {"Recheck"}
      <3> SUFFICES ASSUME machine.step = "Recheck" PROVE begun = {"Recheck"}
        OBVIOUS
      <3>1. \A s \in Steps : Rank(s) <= Rank("Recheck") => s = "Recheck"
        BY DEF Rank, Steps
      <3> QED
        BY <1>0, <3>1 DEF Ordered, TransactionOK
    <2>6. machine.step = "Retire" => selected
      BY DEF Ordered, TransactionOK, Machines
    <2>7. Looping'
      BY <1>0, <2>1, <2>4, <2>5, <2>6 DEF Looping
    <2>8. Timed'
      BY <1>0, <2>1, <2>4 DEF Timed
    <2> QED
      BY <2>2, <2>3, <2>7, <2>8
  <1> QED
    BY <1>1, <1>2

\* Done moves the machine; only a Done of Commit selects.
LEMMA DoneInd ==
    ASSUME TransactionInv, AdapterAnswers("Done"), ~TooLate
    PROVE  TransactionInv'
  <1> USE DEF TransactionInv
  <1> DEFINE next == Advance(machine, "Done")
  <1>0. /\ machine \in Machines /\ loop = "performing" /\ report = "Running"
        /\ UNCHANGED <<begun, runner, budgets>>
        /\ machine.step \in begun
        /\ done' = done \union {machine.step}
        /\ selected' = (selected \/ machine.step = "Commit")
    BY DEF AdapterAnswers, Looping, TransactionOK
  <1>m. /\ machine.step = "Drain" => machine.mode = "Exclusive"
        /\ machine.step = "Retire" => machine.mode = "Overlap" /\ machine.committed
    BY DEF Ordered
  <1>n. /\ next \in Machines
        /\ next.mode = machine.mode
        /\ next.committed = (machine.committed \/ machine.step = "Commit")
        /\ next.step = NextStep(machine)
        /\ next.step = machine.step \/ Rank(machine.step) < Rank(next.step)
        /\ \A s \in Steps : Rank(s) < Rank(next.step) /\ Rank(s) > Rank(machine.step) =>
                 s = "Drain" /\ machine.mode = "Overlap"
        /\ next.step = machine.step <=> Verdict(machine, "Done") = "Complete"
    BY <1>0, <1>m, AdvanceFacts
  <1>o. machine' = next => Ordered'
    <2> SUFFICES ASSUME machine' = next PROVE Ordered'
      OBVIOUS
    <2>1. \A s \in Steps : Rank(s) \in Nat
      BY DEF Steps, Rank
    <2>2. \A s, t \in Steps : Rank(s) = Rank(t) => s = t
      BY DEF Steps, Rank
    <2>3. machine.step \in Steps /\ next.step \in Steps
      BY <1>0, <1>n DEF Machines
    <2>4. \A s \in begun' : Rank(s) <= Rank(next.step)
      <3> TAKE s \in begun'
      <3>1. s \in Steps /\ Rank(s) <= Rank(machine.step)
        BY <1>0 DEF Ordered, TransactionOK
      <3> QED
        BY <1>n, <2>1, <2>3, <3>1
    <2>5. \A s \in Steps : Rank(s) < Rank(next.step) =>
             s \in done' \/ (s = "Drain" /\ next.mode = "Overlap")
      <3> SUFFICES ASSUME NEW s \in Steps, Rank(s) < Rank(next.step)
                   PROVE  s \in done' \/ (s = "Drain" /\ next.mode = "Overlap")
        OBVIOUS
      <3>1. CASE Rank(s) < Rank(machine.step)
        BY <1>0, <1>n, <3>1 DEF Ordered
      <3>2. CASE s = machine.step
        BY <1>0, <3>2
      <3>3. CASE Rank(s) > Rank(machine.step)
        BY <1>n, <3>3
      <3> QED
        BY <2>1, <2>2, <2>3, <3>1, <3>2, <3>3
    <2>6. /\ next.step = "Drain" => next.mode = "Exclusive"
          /\ next.step = "Retire" => next.committed /\ next.mode = "Overlap"
          /\ next.committed => next.step \in {"Commit", "Retire"}
      BY <1>0, <1>m, <1>n DEF NextStep, Ordered, Machines, Modes, Steps
    <2>7. next.committed = selected'
      BY <1>0, <1>n DEF Ordered, TransactionOK, Machines
    <2>8. /\ "Drain" \in begun' => next.mode = "Exclusive"
          /\ "Retire" \in begun' => next.committed /\ next.mode = "Overlap"
      BY <1>0, <1>n DEF Ordered, TransactionOK, Machines
    <2> QED
      BY <2>4, <2>5, <2>6, <2>7, <2>8 DEF Ordered
  <1>1. CASE machine.step = "Retire"
    <2>1. /\ machine' = next /\ loop' = "returned" /\ report' = "Complete"
          /\ UNCHANGED <<remaining, nap, spent>>
      BY <1>0, <1>1, <1>m, <1>n DEF AdapterAnswers, Verdict, Machines, MayRetry
    <2>2. TransactionOK'
      BY <1>0, <1>n, <2>1 DEF TransactionOK, Reports, Verdicts, Machines
    <2>3. Looping'
      BY <1>0, <1>1, <1>m, <1>n, <2>1, Zenon DEF Looping, Ordered
    <2>4. Timed'
      BY <2>1 DEF Timed
    <2> QED
      BY <1>o, <2>1, <2>2, <2>3, <2>4
  <1>2. CASE machine.step = "Commit"
    <2>1. /\ machine' = next /\ loop' = "prefault"
          /\ UNCHANGED <<report, remaining, nap, spent>>
      BY <1>0, <1>2, <1>n DEF AdapterAnswers, Continue, Looping, Machines
    <2>2. TransactionOK'
      BY <1>0, <1>n, <2>1 DEF TransactionOK, Machines
    <2>3. "Retire" \notin begun
      BY <1>2 DEF Ordered, Rank
    <2>4. next.mode = "Overlap" => next.step = "Retire"
      BY <1>2, <1>n DEF NextStep
    <2>5. Looping'
      BY <1>0, <1>2, <1>n, <2>1, <2>3, <2>4, Zenon DEF Looping
    <2>6. Timed'
      BY <1>0, <2>1 DEF Timed
    <2> QED
      BY <1>o, <2>1, <2>2, <2>5, <2>6
  <1>3. CASE machine.step \notin {"Commit", "Retire"}
    <2>1. Verdict(machine, "Done") = "Continue" /\ next.step # machine.step
      BY <1>3, <1>n DEF Verdict, MayRetry
    <2>2. /\ machine' = next /\ loop' = "top" /\ UNCHANGED <<report, nap>>
          /\ EnterStep(machine.step, next.step)
      BY <1>0, <1>3, <2>1 DEF AdapterAnswers, Continue
    <2>3. next.step # "Retire" /\ next.step \notin begun /\ ~next.committed
      <3>1. \A s \in Steps : Rank(s) \in Nat
        BY DEF Steps, Rank
      <3> QED
        BY <1>0, <1>3, <1>n, <2>1, <3>1 DEF Ordered, NextStep, Machines, Steps
    <2>4. /\ remaining' \in SUBSET Nat /\ spent' \in Nat
          /\ remaining' = {b - spent' : b \in PhaseBudget'}
          /\ \A b \in PhaseBudget' : spent' <= b
      <3>1. CASE next.step = "Drain"
        <4>1. remaining' = budgets.drain /\ spent' = 0 /\ PhaseBudget' = budgets.drain
          BY <1>0, <2>2, <3>1 DEF EnterStep, NewDeadline, NewPhase, PhaseBudget
        <4>2. CASE budgets.drain = {}
          BY <4>1, <4>2
        <4>3. CASE \E k \in Nat : budgets.drain = {k}
          BY <4>1, <4>3
        <4> QED
          BY <4>2, <4>3, BudgetShape
      <3>2. CASE machine.step = "Drain"
        <4>1. next.step = "Start"
          BY <1>n, <3>2 DEF NextStep
        <4>2. remaining' = {budgets.setup} /\ spent' = 0 /\ PhaseBudget' = {budgets.setup}
          BY <1>0, <2>2, <3>2, <4>1 DEF EnterStep, NewDeadline, NewPhase, PhaseBudget
        <4> QED
          BY <4>2, BudgetShape
      <3>3. CASE next.step # "Drain" /\ machine.step # "Drain"
        <4>1. UNCHANGED <<remaining, spent>>
          BY <2>2, <2>3, <3>3 DEF EnterStep, NewDeadline, NewPhase
        <4>2. PhaseBudget' = PhaseBudget
          BY <1>0, <1>3, <2>2, <2>3, <3>3 DEF PhaseBudget
        <4> QED
          BY <1>0, <4>1, <4>2 DEF Timed, TransactionOK
      <3> QED
        BY <3>1, <3>2, <3>3
    <2>5. TransactionOK'
      BY <1>0, <1>3, <1>n, <2>2, <2>4 DEF TransactionOK, Machines
    <2>6. Looping'
      BY <1>0, <2>2, <2>3 DEF Looping
    <2>7. Timed'
      BY <2>2, <2>4 DEF Timed
    <2> QED
      BY <1>o, <2>2, <2>5, <2>6, <2>7
  <1> QED
    BY <1>1, <1>2, <1>3

LEMMA TransactionNextInd == TransactionInv /\ [TransactionNext]_rvars => TransactionInv'
  <1> SUFFICES ASSUME TransactionInv, [TransactionNext]_rvars PROVE TransactionInv'
    OBVIOUS
  <1>1. CASE TopOfLoop
    BY <1>1, TopInd
  <1>2. CASE \E answer \in Answers : AdapterAnswers(answer)
    BY <1>2, LateAnswerInd, NotDoneInd, DoneInd
  <1>3. CASE AdapterFails \/ TimeoutAt \/ Cancel
    BY <1>3, FinishInd DEF AdapterFails, TimeoutAt, Cancel
  <1>4. CASE Prefaulted
    BY <1>4, PrefaultedInd
  <1>5. CASE Wake
    BY <1>5
       DEF Wake, TransactionInv, TransactionOK, Ordered, Looping, Timed, MayRetry,
           PhaseBudget, Expired
  <1>6. CASE Tick
    BY <1>6, TickInd
  <1>7. CASE UNCHANGED rvars
    BY <1>7
       DEF rvars, TransactionInv, TransactionOK, Ordered, Looping, Timed, MayRetry,
           PhaseBudget, Expired
  <1> QED
    BY <1>1, <1>2, <1>3, <1>4, <1>5, <1>6, <1>7 DEF TransactionNext

LEMMA TransactionInductive == Transaction => []TransactionInv
  BY TransactionInitInd, TransactionNextInd, PTL DEF Transaction

\* The transaction's state keeps its types.
THEOREM TransactionTypeCorrect == Transaction => []TransactionOK
  BY TransactionInductive, PTL DEF TransactionInv

\* For every budget and every adapter: what the call reports about the
\* selection is what happened to it, and a missed deadline is always the
\* deadline of the phase that missed it.
THEOREM ReportsCorrect == Transaction => []ReportsAreTrue
  BY TransactionInductive, IndImplies, PTL DEF ReportsAreTrue

\* For every budget and every adapter: only a proven, revalidated candidate is
\* ever selected; Overlap never retires before selecting, and Exclusive never
\* starts before the drain is done.
THEOREM OrderCorrect == Transaction => []OrderIsKept
  BY TransactionInductive, IndImplies, PTL DEF OrderIsKept

\* Start, Validate, Commit and the other one-shot steps are never asked twice.
LEMMA LaunchOnce == TransactionInv /\ [TransactionNext]_rvars => [OnlyPollsRepeat]_rvars
  BY DEF TransactionInv, Looping, MayRetry, OnlyPollsRepeat, Asks

\* A step is only ever begun within the budget of its phase.
LEMMA BeginInTime == TransactionInv /\ [TransactionNext]_rvars => [NothingBegunLate]_rvars
  <1> SUFFICES ASSUME TransactionInv, TransactionNext, Asks, NEW b \in PhaseBudget
               PROVE  spent < b
    BY DEF NothingBegunLate
  <1>1. ~Expired
    BY SMTT(20)
       DEF Asks, TransactionNext, TopOfLoop, Finish, AdapterAnswers, AdapterFails, TimeoutAt,
       Prefaulted, Wake, Cancel, Tick
  <1>2. b - spent # 0 /\ spent <= b
    BY <1>1 DEF TransactionInv, Timed, Expired, Asks
  <1>3. b \in Nat /\ spent \in Nat
    BY BudgetShape DEF TransactionInv, TransactionOK
  <1> QED
    BY <1>2, <1>3

\* For every budget and every adapter: a step is asked for in time, and only
\* once where it must be once.
THEOREM AsksCorrect == Transaction => AsksAreBounded
  <1>1. TransactionInv /\ [TransactionNext]_rvars => [OnlyPollsRepeat /\ NothingBegunLate]_rvars
    BY LaunchOnce, BeginInTime
  <1> QED
    BY <1>1, TransactionInductive, PTL DEF Transaction, AsksAreBounded

=============================================================================

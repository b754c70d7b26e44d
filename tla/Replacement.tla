----------------------------- MODULE Replacement -----------------------------
(***************************************************************************)
(* One replacement transaction: replacement::run and run_async, driving an *)
(* application adapter against a clock (src/replacement.rs).               *)
(*                                                                         *)
(* A deadline is kept as the time that remains until it, so the clock      *)
(* needs no bound: Tick counts every timer down to zero, where it stays.   *)
(* An absent deadline (`None`) is the empty set, a present one the set of  *)
(* its remaining time.  The adapter is external: it may take any time and  *)
(* give any answer, but keeps the one promise its trait asks for, that a   *)
(* Commit that published answers Done.                                     *)
(***************************************************************************)
EXTENDS Naturals, ReplacementMachine

CONSTANTS
    SetupBudgets,   \* values of Budgets.setup to consider
    DrainBudgets,   \* values of Budgets.drain: {} for None, {d} for Some(d)
    PollInterval    \* readiness::POLL_INTERVAL

ASSUME BudgetsAreTimes ==
    /\ SetupBudgets \subseteq Nat
    /\ \A d \in DrainBudgets : d \subseteq Nat /\ \A x, y \in d : x = y
    /\ PollInterval \in Nat \ {0}

VARIABLES
    runner,     \* "blocking" for run, "async" for run_async
    budgets,    \* [setup, drain]
    machine,    \* the transition machine
    loop,       \* where the runner's loop is
    remaining,  \* time until the deadline of the phase
    nap,        \* time until the pause between two polls ends
    report,     \* what the call returned, or "Running"
    begun,      \* history: steps the adapter was asked to perform
    done,       \* history: steps whose Done moved the machine
    selected,   \* the adapter has published the candidate as the selection
    spent       \* history: time this phase has used of its own budget

rvars == <<runner, budgets, machine, loop, remaining, nap, report, begun, done,
           selected, spent>>

Reports == (Verdicts \ {"Continue"})
             \union {"Running", "Deadline", "Adapter", "Cancelled"}

TransactionOK ==
    /\ runner \in {"blocking", "async"}
    /\ budgets \in [setup : SetupBudgets, drain : DrainBudgets]
    /\ machine \in Machines
    /\ loop \in {"top", "performing", "prefault", "sleeping", "returned"}
    /\ remaining \in SUBSET Nat
    /\ nap \in Nat
    /\ report \in Reports
    /\ begun \subseteq Steps
    /\ done \subseteq Steps
    /\ selected \in BOOLEAN
    /\ spent \in Nat

TransactionInit ==
    /\ runner \in {"blocking", "async"}
    /\ budgets \in [setup : SetupBudgets, drain : DrainBudgets]
    /\ \E mode \in Modes : machine = NewMachine(mode)
    /\ loop = "top"
    /\ remaining = {budgets.setup}
    /\ nap = 0
    /\ report = "Running"
    /\ begun = {}
    /\ done = {}
    /\ selected = FALSE
    /\ spent = 0

-----------------------------------------------------------------------------
Expired == 0 \in remaining

Finish(value) ==
    /\ loop' = "returned"
    /\ report' = value
    /\ UNCHANGED <<machine, remaining, nap, done, spent>>

\* Fault: the loop polls on without looking at its deadline.
TopOfLoopUnbounded ==
    /\ loop = "top"
    /\ loop' = "performing"
    /\ begun' = begun \union {machine.step}
    /\ UNCHANGED <<runner, budgets, machine, remaining, nap, report, done, selected, spent>>

\* The deadline check at the top of the loop, then driver.perform(step).
TopOfLoop ==
    /\ loop = "top"
    /\ IF Expired
         THEN Finish("Deadline") /\ UNCHANGED begun
         ELSE /\ loop' = "performing"
              /\ begun' = begun \union {machine.step}
              /\ UNCHANGED <<machine, remaining, nap, report, done, spent>>
    /\ UNCHANGED <<runner, budgets, selected>>

\* Fault: the setup after an exclusive drain keeps the drain's deadline.
NewDeadlineKept(from, to) ==
    IF to \in {"Drain", "Retire"} THEN budgets.drain ELSE remaining

\* Drain and retirement run under the application's budget; the setup that
\* follows an exclusive drain gets a fresh one.
NewDeadline(from, to) ==
    IF to \in {"Drain", "Retire"}
      THEN budgets.drain
      ELSE IF from = "Drain" THEN {budgets.setup} ELSE remaining

\* The time spent is counted per phase: setup, drain, setup again, retirement.
NewPhase(from, to) == to \in {"Drain", "Retire"} \/ from = "Drain"

EnterStep(from, to) ==
    /\ remaining' = NewDeadline(from, to)
    /\ spent' = IF NewPhase(from, to) THEN 0 ELSE spent

\* Fault: a late Commit is reported as a missed deadline like any other step.
TooLateAlways == Expired

\* "A committed result must be recorded even if a blocking commit ran late."
TooLate == machine.step # "Commit" /\ Expired

\* The loop goes on: after Commit the shims are prefaulted before a new
\* deadline is set, a new step starts at once, the same step after a pause.
Continue(next) ==
    /\ machine' = next
    /\ UNCHANGED report
    /\ IF machine.step = "Commit"
         THEN loop' = "prefault" /\ UNCHANGED <<remaining, nap, spent>>
         ELSE IF next.step # machine.step
                THEN /\ loop' = "top"
                     /\ EnterStep(machine.step, next.step)
                     /\ UNCHANGED nap
                ELSE /\ loop' = "sleeping"
                     /\ nap' = IF \E r \in remaining : r < PollInterval
                                 THEN CHOOSE r \in remaining : TRUE
                                 ELSE PollInterval
                     /\ UNCHANGED <<remaining, spent>>

\* perform() returns an answer and advance() takes it.
AdapterAnswers(answer) ==
    /\ loop = "performing"
    /\ selected' = (selected \/ (machine.step = "Commit" /\ answer = "Done"))
    /\ IF TooLate
         THEN Finish("Deadline")
         ELSE LET verdict == Verdict(machine, answer)
                  next == Advance(machine, answer)
              IN  /\ done' = IF answer = "Done" THEN done \union {machine.step} ELSE done
                  /\ IF verdict = "Continue" \/ (next.committed /\ ~machine.committed)
                       THEN Continue(next)
                       ELSE /\ machine' = next
                            /\ loop' = "returned"
                            /\ report' = verdict
                            /\ UNCHANGED <<remaining, nap, spent>>
    /\ UNCHANGED <<runner, budgets, begun>>

AdapterFails ==
    /\ loop = "performing"
    /\ Finish("Adapter")
    /\ UNCHANGED <<runner, budgets, begun, selected>>

\* Fault: only the polling steps are put under a timeout.
TimeoutAtPolls ==
    /\ runner = "async"
    /\ loop = "performing"
    /\ MayRetry(machine)
    /\ Expired
    /\ Finish("Deadline")
    /\ UNCHANGED <<runner, budgets, begun, selected>>

\* run_async puts every step but Commit under timeout_at(deadline, ..).
TimeoutAt ==
    /\ runner = "async"
    /\ loop = "performing"
    /\ machine.step # "Commit"
    /\ Expired
    /\ Finish("Deadline")
    /\ UNCHANGED <<runner, budgets, begun, selected>>

\* prefault_all has run: an exclusive replacement is complete, an overlapping
\* one goes on to retire the incumbent under the drain budget.
Prefaulted ==
    /\ loop = "prefault"
    /\ IF machine.mode = "Exclusive"
         THEN Finish("Complete")
         ELSE /\ loop' = "top"
              /\ EnterStep("Commit", machine.step)
              /\ UNCHANGED <<machine, nap, report, done>>
    /\ UNCHANGED <<runner, budgets, begun, selected>>

Wake ==
    /\ loop = "sleeping"
    /\ nap = 0
    /\ loop' = "top"
    /\ UNCHANGED <<runner, budgets, machine, remaining, nap, report, begun, done,
                   selected, spent>>

\* The caller drops run_async's future while it awaits.
Cancel ==
    /\ runner = "async"
    /\ loop \in {"performing", "sleeping", "prefault"}
    /\ Finish("Cancelled")
    /\ UNCHANGED <<runner, budgets, begun, selected>>

CountDown(t) == IF t = 0 THEN 0 ELSE t - 1

\* The budget of the phase the machine is in.
PhaseBudget ==
    IF machine.step \in {"Drain", "Retire"} THEN budgets.drain ELSE {budgets.setup}

Tick ==
    /\ loop # "returned"
    /\ remaining' = {CountDown(r) : r \in remaining}
    /\ nap' = CountDown(nap)
    /\ spent' = IF \E b \in PhaseBudget : spent < b THEN spent + 1 ELSE spent
    /\ UNCHANGED <<runner, budgets, machine, loop, report, begun, done, selected>>

TransactionNext ==
    \/ TopOfLoop
    \/ \E answer \in Answers : AdapterAnswers(answer)
    \/ AdapterFails
    \/ TimeoutAt
    \/ Prefaulted
    \/ Wake
    \/ Cancel
    \/ Tick

Transaction == TransactionInit /\ [][TransactionNext]_rvars

\* Time passes, the runner's own code runs, and the adapter returns where
\* nothing else would end the call: "perform" of a blocking adapter bounds its
\* I/O by the deadline, and Commit is never interrupted.  An asynchronous
\* adapter may hang in any other step.
FairTransaction ==
    /\ Transaction
    /\ WF_rvars(TopOfLoop)
    /\ WF_rvars(Prefaulted)
    /\ WF_rvars(Wake)
    /\ WF_rvars(TimeoutAt)
    /\ WF_rvars(Tick)
    /\ WF_rvars(/\ runner = "blocking" \/ machine.step = "Commit"
                /\ AdapterFails \/ \E answer \in Answers : AdapterAnswers(answer))

-----------------------------------------------------------------------------
(* Properties.                                                             *)

\* What the caller learns is what happened to the selection: a Failure's
\* `committed` says whether the candidate is authoritative, also when a
\* blocking Commit ran past its deadline; Complete and RetirementPending mean
\* it is, and Unchanged means nothing beyond Recheck was even attempted.
SelectionIsReported ==
    /\ report \notin {"Running", "Cancelled"} => machine.committed = selected
    /\ report \in {"Complete", "RetirementPending"} => selected
    /\ report = "Unchanged" => begun = {"Recheck"}

\* The selection never names a candidate that was not launched, proven live
\* and revalidated after the proof, whatever the adapter answers and whenever
\* deadlines pass.
SelectedIsProven ==
    selected => {"Recheck", "Prepare", "Start", "Verify", "Validate"} \subseteq done

\* Overlap: the incumbent is not asked to stop before its successor is
\* selected.  Exclusive: the candidate is not launched before the incumbent
\* has released its resources.
IncumbentOutlivesChoice ==
    /\ machine.mode = "Overlap" /\ ~selected => begun \intersect {"Drain", "Retire"} = {}
    /\ machine.mode = "Exclusive" /\ "Start" \in begun => "Drain" \in done

\* Whatever the adapter answers and whenever deadlines pass, the dangerous
\* steps keep their order: proof before selection, selection (or release)
\* before the incumbent (or the candidate) is touched.
OrderIsKept == SelectedIsProven /\ IncumbentOutlivesChoice

\* A call that reports a missed deadline has used up the budget of the phase it
\* was in: a long drain costs setup nothing, and setup costs drain nothing.
DeadlineMeansSpent ==
    report = "Deadline" => \E b \in PhaseBudget : spent >= b

\* What a call reports is so: of the selection, and of the deadline it missed
\* (run, run_async, Failure::committed).
ReportsAreTrue == SelectionIsReported /\ DeadlineMeansSpent

\* The runner asks the adapter for a step.
Asks == loop = "top" /\ loop' = "performing"

\* The adapter is asked again only for the steps it may answer Pending: it never
\* launches a second candidate or publishes twice.
OnlyPollsRepeat ==
    Asks /\ machine.step \in begun => machine.step \in {"Recheck", "Verify", "Drain"}

\* No step is asked of the adapter once the budget of its phase is spent: a
\* candidate is never launched, or a commit begun, on borrowed time.
NothingBegunLate == Asks => \A b \in PhaseBudget : spent < b

\* The adapter is asked in time, and asked again only where it may be (run,
\* run_async, Transaction::enter).
AsksAreBounded == [][OnlyPollsRepeat /\ NothingBegunLate]_rvars

\* With a drain budget the call returns, even if an asynchronous adapter hangs
\* in a step or the proof never comes.
Returns == budgets.drain # {} => <>(loop = "returned")
=============================================================================

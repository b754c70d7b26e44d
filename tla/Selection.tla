------------------------------ MODULE Selection ------------------------------
(***************************************************************************)
(* An observer that waits for a candidate another process selects:         *)
(* await_selection and await_selection_async (src/selection.rs).           *)
(*                                                                         *)
(* Every round reads the published record, then probes, then decides.  The *)
(* record, the candidate and the clock move between any two of those       *)
(* steps.  External: the record, which once it names the candidate keeps   *)
(* naming it, and the candidate, which may stop answering at any time.     *)
(***************************************************************************)
EXTENDS Naturals

CONSTANTS
    CommitBudget,   \* Budget.commit
    ProofBudgets,   \* values of Budget.proof
    PollInterval    \* readiness::POLL_INTERVAL, the longest default wait

VARIABLES
    runner,         \* "blocking" or "async"
    proofBudget,    \* Budget.proof of this wait
    elapsed,        \* time since the wait began, stopping past the last bound
    named,          \* when the record came to name the candidate: {} for never
    serving,        \* the candidate answers probes
    seen,           \* what committed() returned in this round
    committedAt,    \* Watch.committed_at
    readAt,         \* when the last round read the record
    until,          \* the bound of the round's probe
    pc,             \* where the round is
    reached,        \* the probe has reached the candidate
    nap,            \* time until the wait between rounds ends
    result          \* what the call returned

vars == <<runner, proofBudget, elapsed, named, serving, seen, committedAt, readAt,
          until, pc, reached, nap, result>>

\* Past this time every bound of the wait has passed.
Horizon == CommitBudget + 1

Results == {"Waiting", "Current", "Committed", "NotCommitted", "Error"}

TypeOK ==
    /\ runner \in {"blocking", "async"}
    /\ proofBudget \in ProofBudgets
    /\ elapsed \in 0..Horizon
    /\ named \in SUBSET (0..Horizon)
    /\ serving \in BOOLEAN
    /\ seen \in BOOLEAN
    /\ committedAt \in SUBSET (0..Horizon)
    /\ readAt \in 0..Horizon
    /\ until \in 0..CommitBudget
    /\ pc \in {"read", "note", "probe", "answer", "wait", "returned"}
    /\ reached \in BOOLEAN
    /\ nap \in Nat
    /\ result \in Results

Init ==
    /\ runner \in {"blocking", "async"}
    /\ proofBudget \in ProofBudgets
    /\ elapsed = 0
    /\ named \in {{}, {0}}
    /\ serving \in BOOLEAN
    /\ seen = FALSE
    /\ committedAt = {}
    /\ readAt = 0
    /\ until = 0
    /\ pc = "read"
    /\ reached = FALSE
    /\ nap = 0
    /\ result = "Waiting"

-----------------------------------------------------------------------------
(* The world.                                                              *)

\* The updater commits the candidate it has verified.
Commit ==
    /\ named = {}
    /\ named' = {elapsed}
    /\ UNCHANGED <<runner, proofBudget, elapsed, serving, seen, committedAt, readAt,
                   until, pc, reached, nap, result>>

\* The candidate begins or ceases to answer.
Toggle ==
    /\ serving' = ~serving
    /\ UNCHANGED <<runner, proofBudget, elapsed, named, seen, committedAt, readAt,
                   until, pc, reached, nap, result>>

Tick ==
    /\ pc # "returned"
    /\ elapsed' = IF elapsed < Horizon THEN elapsed + 1 ELSE elapsed
    /\ nap' = IF nap = 0 THEN 0 ELSE nap - 1
    /\ UNCHANGED <<runner, proofBudget, named, serving, seen, committedAt, readAt,
                   until, pc, reached, result>>

-----------------------------------------------------------------------------
(* The rounds.                                                             *)

Min(a, b) == IF a < b THEN a ELSE b

\* Fault: the proof budget may outlive the commit budget.
WatchUntilUncapped(at) ==
    IF at = {} THEN CommitBudget ELSE (CHOOSE t \in at : TRUE) + proofBudget

\* Fault: the proof budget is counted from the start of the wait.
WatchUntilFromStart(at) ==
    IF at = {} THEN CommitBudget ELSE Min(proofBudget, CommitBudget)

\* Watch::until with committed_at = at.
WatchUntil(at) ==
    IF at = {} THEN CommitBudget
               ELSE Min((CHOOSE t \in at : TRUE) + proofBudget, CommitBudget)

\* Fault: a zero proof budget is taken as "do not look at the record".
WatchRecordUnlessZero(read) ==
    IF read /\ committedAt = {} /\ proofBudget > 0 THEN {elapsed} ELSE committedAt

\* Watch::record keeps the first commit that was read.
WatchRecord(read) == IF read /\ committedAt = {} THEN {elapsed} ELSE committedAt

Return(value) == pc' = "returned" /\ result' = value

\* committed() reads the record.  Once it has named the candidate, "a later
\* round that reads an older record" is possible too.
ReadRecord ==
    /\ pc = "read"
    /\ seen' \in {named # {}} \union (IF committedAt = {} THEN {} ELSE {FALSE})
    /\ readAt' = elapsed
    /\ pc' = "note"
    /\ UNCHANGED <<runner, proofBudget, elapsed, named, serving, committedAt, until,
                   reached, nap, result>>

\* The round notes what it read, and its bound follows.
NoteRecord ==
    /\ pc = "note"
    /\ committedAt' = WatchRecord(seen)
    /\ until' = WatchUntil(committedAt')
    /\ reached' = FALSE
    /\ pc' = "probe"
    /\ UNCHANGED <<runner, proofBudget, elapsed, named, serving, seen, readAt, nap,
                   result>>

\* The moment the probe meets the service: it reaches the candidate or not.
ProbeReaches ==
    /\ pc = "probe"
    /\ reached' = serving
    /\ pc' = "answer"
    /\ UNCHANGED <<runner, proofBudget, elapsed, named, serving, seen, committedAt, readAt,
                   until, nap, result>>

\* Fault: a proof that arrives after the round's bound is accepted.
ProvenLate == reached

\* A proof counts only before the round's bound.
Proven == reached /\ elapsed < until

\* Watch::decide, then return or wait for the next round.
Decide(proven) ==
    /\ IF proven
         THEN Return("Current") /\ UNCHANGED nap
         ELSE IF elapsed >= WatchUntil(committedAt)
                THEN /\ Return(IF committedAt = {} THEN "NotCommitted" ELSE "Committed")
                     /\ UNCHANGED nap
                ELSE /\ pc' = "wait"
                     /\ nap' = Min(PollInterval, WatchUntil(committedAt) - elapsed)
                     /\ UNCHANGED result
    /\ UNCHANGED <<runner, proofBudget, elapsed, named, serving, seen, committedAt, readAt,
                   until, reached>>

\* A blocking probe returns; so may an asynchronous one, even late.
ProbeAnswers == pc = "answer" /\ Decide(Proven)

\* Fault: the timeout covers only the answer, not the connection before it.
ProbeTimesOutConnected ==
    /\ runner = "async"
    /\ pc = "answer"
    /\ elapsed >= until
    /\ Decide(FALSE)

\* await_selection_async cuts a probe off at the round's bound.
ProbeTimesOut ==
    /\ runner = "async"
    /\ pc \in {"probe", "answer"}
    /\ elapsed >= until
    /\ Decide(FALSE)

\* Evidence errors end the wait.
EvidenceFails ==
    /\ pc \in {"read", "probe", "answer"}
    /\ Return("Error")
    /\ UNCHANGED <<runner, proofBudget, elapsed, named, serving, seen, committedAt, readAt,
                   until, reached, nap>>

\* The default wait ends after its pause; a source with news ends it earlier.
NextRound ==
    /\ pc = "wait"
    /\ pc' = "read"
    /\ UNCHANGED <<runner, proofBudget, elapsed, named, serving, seen, committedAt, readAt,
                   until, reached, nap, result>>

Next ==
    \/ Commit
    \/ Toggle
    \/ Tick
    \/ ReadRecord
    \/ NoteRecord
    \/ ProbeReaches
    \/ ProbeAnswers
    \/ ProbeTimesOut
    \/ EvidenceFails
    \/ NextRound

Spec == Init /\ [][Next]_vars

\* Time passes and the observer runs; a blocking probe returns (it bounds its
\* I/O by the deadline it is given), an asynchronous one may hang.
FairSpec ==
    /\ Spec
    /\ WF_vars(Tick)
    /\ WF_vars(ReadRecord \/ NoteRecord)
    /\ WF_vars(nap = 0 /\ NextRound)
    /\ WF_vars(ProbeTimesOut)
    /\ WF_vars(runner = "blocking" /\ (ProbeReaches \/ ProbeAnswers))

-----------------------------------------------------------------------------
(* Properties.                                                             *)

\* Committed and Current are evidence, not guesses: the record named the
\* candidate by the time the wait first noted it, and a proof was obtained
\* within both budgets of this very wait.
EvidenceIsReal ==
    /\ result = "Committed" => named # {} /\ \A t \in named, at \in committedAt : t <= at
    /\ result = "Current" =>
          /\ reached
          /\ elapsed < CommitBudget
          /\ \A at \in committedAt : elapsed < at + proofBudget

\* Neither result that gives up is given early: Committed waits out the proof
\* budget from the first commit read, NotCommitted the whole commit budget.
BudgetsAreUsed ==
    /\ result = "NotCommitted" => elapsed >= CommitBudget
    /\ result = "Committed" =>
          \A at \in committedAt : elapsed >= at + proofBudget \/ elapsed >= CommitBudget

\* A commit the observer misses is one that landed after its last look at the
\* record: an observer never reports NotCommitted against what it has read.
MissedCommitIsNew == result = "NotCommitted" => \A t \in named : t >= readAt

\* "Budget::commit passed without the selection naming the candidate."
NotCommittedMeansUnnamed == result = "NotCommitted" => \A t \in named : t >= CommitBudget

\* The wait ends, whatever the record and the candidate do.
WaitEnds == <>(pc = "returned")

\* The wait gives up neither early nor against what it has read (decide, watch).
GivesUpRightly == TypeOK /\ BudgetsAreUsed /\ MissedCommitIsNew
=============================================================================

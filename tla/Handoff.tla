------------------------------- MODULE Handoff -------------------------------
(***************************************************************************)
(* Competing updaters hand a service from one process generation to the    *)
(* next, in Overlap mode: the upgrade lock (src/ownership.rs), the epoch   *)
(* counter and the generations (src/generation.rs), the disposable         *)
(* candidate (src/candidate.rs) and the transition machine of              *)
(* src/replacement.rs, composed.                                           *)
(*                                                                         *)
(* Updaters and generations are processes that may die at any step.  Time  *)
(* is abstracted: a deadline may end any step, and the staging lifetime of *)
(* a candidate may pass at any moment; `early` remembers the candidates    *)
(* for which it passed before they could know whether they were selected.  *)
(*                                                                         *)
(* External: the application's driver, which implements the steps as       *)
(* docs/architecture.md requires: it reads and publishes the record of the *)
(* selected generation, probes candidates and starts them.  Its Commit may *)
(* be given up at any moment; `unmarked` remembers the candidates it had   *)
(* published but not yet marked.                                           *)
(***************************************************************************)
EXTENDS Naturals, FiniteSets, FiniteSetsExt, ReplacementMachine

CONSTANTS
    Updaters,       \* processes that want the service on the new build
    MaxEpoch,       \* bound: largest epoch
    MaxLeases,      \* bound: sessions of one generation
    MaxCrashes,     \* bound: processes that die, updaters and generations
    Nobody          \* the upgrade lock is free

ASSUME HandoffConstants ==
    /\ Nobody \notin Updaters
    /\ MaxEpoch \in Nat \ {0}
    /\ Updaters \intersect (1..MaxEpoch) = {}
    /\ MaxLeases \in Nat
    /\ MaxCrashes \in Nat

\* Epoch 1 is the incumbent of the old build; updaters start the others.
Epochs == 1..MaxEpoch

VARIABLES
    lock,           \* who holds the upgrade lock
    record,         \* the published selection
    counter,        \* the persisted epoch counter, 0 when the file is missing
    upd,            \* the updaters
    proc,           \* the processes of the generations
    observed,       \* Generation.selected of each
    expired,        \* candidates whose staging lifetime has passed
    leases,         \* session leases of each generation
    early,          \* those of them that did not yet know of their selection
    cut,            \* generations that were ended, not by dying, under a session
    history,        \* every epoch the record has named
    launches,       \* how often each epoch was launched
    crashed,        \* the processes that died
    unmarked        \* epochs published by a Commit that ended before selected()

gen_vars == <<proc, observed, expired, leases, early, cut>>
vars == <<lock, record, counter, upd, proc, observed, expired, leases, early, cut,
          history, launches, crashed, unmarked>>

\* A Candidate: none yet, disposable, named by the record but not yet marked,
\* or past selected().
Handles == {"none", "disposable", "published", "selected"}

Updater == [at : {"waiting", "running", "ending", "ended", "crashed"},
            machine : Machines, epoch : 0..MaxEpoch, basis : Epochs,
            candidate : Handles]

TypeOK ==
    /\ lock \in Updaters \union {Nobody}
    /\ record \in Epochs
    /\ counter \in 0..MaxEpoch
    /\ upd \in [Updaters -> Updater]
    /\ proc \in [Epochs -> {"none", "starting", "serving", "stopped"}]
    /\ observed \in [Epochs -> Epochs]
    /\ expired \subseteq Epochs
    /\ leases \in [Epochs -> 0..MaxLeases]
    /\ early \subseteq Epochs
    /\ cut \subseteq Epochs
    /\ history \subseteq Epochs
    /\ launches \in [Epochs -> Nat]
    /\ crashed \subseteq Updaters \union Epochs
    /\ unmarked \subseteq Epochs

\* An updater outside a transaction: it owns no machine and no candidate.
Outside(at) ==
    [at |-> at, machine |-> NewMachine("Overlap"), epoch |-> 0, basis |-> 1,
     candidate |-> "none"]

Init ==
    /\ lock = Nobody
    /\ record = 1
    /\ counter \in {0, 1}
    /\ upd = [u \in Updaters |-> Outside("waiting")]
    /\ proc = [g \in Epochs |-> IF g = 1 THEN "serving" ELSE "none"]
    /\ observed = [g \in Epochs |-> 1]
    /\ expired = {}
    /\ leases = [g \in Epochs |-> 0]
    /\ early = {}
    /\ cut = {}
    /\ history = {1}
    /\ launches = [g \in Epochs |-> 0]
    /\ crashed = {}
    /\ unmarked = {}

Alive(g) == proc[g] \in {"starting", "serving"}

\* The process is gone, and its sessions with it.
Gone(g) ==
    /\ proc' = [proc EXCEPT ![g] = "stopped"]
    /\ leases' = [leases EXCEPT ![g] = 0]

\* A process is ended, by itself or by its updater.
Ends(g) ==
    /\ Gone(g)
    /\ cut' = IF leases[g] > 0 THEN cut \union {g} ELSE cut

\* What the updaters are after: a generation of the new build serves.
Acceptable(g) == g > 1 /\ proc[g] = "serving"

-----------------------------------------------------------------------------
(* The updaters.                                                           *)

\* Fault: the transaction starts without waiting for the lock.
AcquireAnyway(u) ==
    /\ upd[u].at = "waiting"
    /\ lock' = u
    /\ upd' = [upd EXCEPT ![u].at = "running"]
    /\ UNCHANGED <<record, counter, gen_vars, history, launches, crashed, unmarked>>

\* ProcessLock::acquire: a poll of the lock succeeds.
Acquire(u) ==
    /\ upd[u].at = "waiting"
    /\ lock = Nobody
    /\ lock' = u
    /\ upd' = [upd EXCEPT ![u].at = "running"]
    /\ UNCHANGED <<record, counter, gen_vars, history, launches, crashed, unmarked>>

At(u, step) == upd[u].at = "running" /\ upd[u].machine.step = step

\* The updater after its driver's answer: on to the next step, again, or out.
Answered(u, answer) ==
    [upd[u] EXCEPT !.machine = Advance(@, answer),
                   !.at = IF Verdict(upd[u].machine, answer) = "Continue"
                            THEN "running" ELSE "ending"]

\* A serving generation of the new build is reused.
Recheck(u) ==
    /\ At(u, "Recheck")
    /\ upd' = [upd EXCEPT ![u] =
                 [Answered(u, IF Acceptable(record) THEN "Unchanged" ELSE "Done")
                    EXCEPT !.basis = record]]
    /\ UNCHANGED <<lock, record, counter, gen_vars, history, launches, crashed, unmarked>>

\* The directory of the generations holds a file for each living one.
Files == {g \in Epochs : Alive(g)}

\* Fault: the next epoch is taken above the selection only.
NextEpochSelected == record + 1

\* generation::allocate: above the counter, the selection and every file.
NextEpoch == Max({counter, record} \union Files) + 1

Prepare(u) ==
    /\ At(u, "Prepare")
    /\ NextEpoch \in Epochs
    /\ counter' = NextEpoch
    /\ upd' = [upd EXCEPT ![u] = [Answered(u, "Done") EXCEPT !.epoch = NextEpoch]]
    /\ UNCHANGED <<lock, record, gen_vars, history, launches, crashed, unmarked>>

\* Launch the candidate, staged, and own it with Candidate::new.
Start(u) ==
    /\ At(u, "Start")
    /\ LET g == upd[u].epoch IN
         /\ proc' = [proc EXCEPT ![g] = "starting"]
         /\ observed' = [observed EXCEPT ![g] = record]
         /\ launches' = [launches EXCEPT ![g] = @ + 1]
    /\ upd' = [upd EXCEPT ![u] = [Answered(u, "Done") EXCEPT !.candidate = "disposable"]]
    /\ UNCHANGED <<lock, record, counter, expired, leases, early, cut, history, crashed,
                   unmarked>>

\* A live probe of the candidate; without an answer the step is repeated.
Verify(u) ==
    /\ At(u, "Verify")
    /\ upd' = [upd EXCEPT ![u] =
                 Answered(u, IF proc[upd[u].epoch] = "serving" THEN "Done" ELSE "Pending")]
    /\ UNCHANGED <<lock, record, counter, gen_vars, history, launches, crashed, unmarked>>

\* The candidate still serves and the selection is still the rechecked one.
Validate(u) ==
    /\ At(u, "Validate")
    /\ proc[upd[u].epoch] = "serving"
    /\ record = upd[u].basis
    /\ upd' = [upd EXCEPT ![u] = Answered(u, "Done")]
    /\ UNCHANGED <<lock, record, counter, gen_vars, history, launches, crashed, unmarked>>

\* Commit publishes the selection ...
Publish(u) ==
    /\ At(u, "Commit") /\ upd[u].candidate = "disposable"
    /\ record' = upd[u].epoch
    /\ history' = history \union {upd[u].epoch}
    /\ upd' = [upd EXCEPT ![u].candidate = "published"]
    /\ UNCHANGED <<lock, counter, gen_vars, launches, crashed, unmarked>>

\* Fault: the candidate stays disposable after it has been selected.
CommitUnmarked(u) ==
    /\ At(u, "Commit") /\ upd[u].candidate = "published"
    /\ upd' = [upd EXCEPT ![u] = [Answered(u, "Done") EXCEPT !.candidate = "disposable"]]
    /\ UNCHANGED <<lock, record, counter, gen_vars, history, launches, crashed, unmarked>>

\* ... and then calls Candidate::selected().
Selected(u) ==
    /\ At(u, "Commit") /\ upd[u].candidate = "published"
    /\ upd' = [upd EXCEPT ![u] = [Answered(u, "Done") EXCEPT !.candidate = "selected"]]
    /\ UNCHANGED <<lock, record, counter, gen_vars, history, launches, crashed, unmarked>>

\* Older generations retire by themselves; Pending while one still runs.
Retire(u) ==
    /\ At(u, "Retire")
    /\ upd' = [upd EXCEPT ![u] =
                 Answered(u, IF \E g \in Epochs : g < record /\ Alive(g)
                               THEN "Pending" ELSE "Done")]
    /\ UNCHANGED <<lock, record, counter, gen_vars, history, launches, crashed, unmarked>>

\* The transaction is over before its last step.
Abandon(u) ==
    /\ upd' = [upd EXCEPT ![u].at = "ending"]
    /\ unmarked' = IF upd[u].candidate = "published"
                     THEN unmarked \union {upd[u].epoch} ELSE unmarked
    /\ UNCHANGED <<lock, record, counter, gen_vars, history, launches, crashed>>

\* Fault: no deadline ends the polling of a candidate.
FailUnlessPolling(u) == upd[u].at = "running" /\ ~At(u, "Verify") /\ Abandon(u)

\* An adapter error, a missed deadline or a dropped future ends it, before any
\* step or within a Commit.
Fail(u) == upd[u].at = "running" /\ Abandon(u)

\* ProcessLock::drop and Candidate::drop, in either order: the caller owns both.
Unlock(u) ==
    /\ upd[u].at \in {"ending", "ended"}
    /\ lock = u
    /\ lock' = Nobody
    /\ UNCHANGED <<record, counter, upd, gen_vars, history, launches, crashed, unmarked>>

\* Kill an unselected candidate and wait for it; a selected one is left alone.
DropCandidate(u) ==
    /\ upd[u].at = "ending"
    /\ IF upd[u].candidate \in {"disposable", "published"}
         THEN Ends(upd[u].epoch) ELSE UNCHANGED <<proc, leases, cut>>
    /\ upd' = [upd EXCEPT ![u] = Outside("ended")]
    /\ UNCHANGED <<lock, record, counter, observed, expired, early, history,
                   launches, crashed, unmarked>>

\* An updater dies: the OS releases its lock, and nothing is dropped.
UpdaterCrash(u) ==
    /\ upd[u].at \in {"running", "ending"} \/ lock = u
    /\ Cardinality(crashed) < MaxCrashes
    /\ upd' = [upd EXCEPT ![u] = Outside("crashed")]
    /\ lock' = IF lock = u THEN Nobody ELSE lock
    /\ crashed' = crashed \union {u}
    /\ UNCHANGED <<record, counter, gen_vars, history, launches, unmarked>>

-----------------------------------------------------------------------------
(* The generations.                                                        *)

BecomeReady(g) ==
    /\ proc[g] = "starting"
    /\ proc' = [proc EXCEPT ![g] = "serving"]
    /\ UNCHANGED <<lock, record, counter, upd, observed, expired, leases, early, cut,
                   history, launches, crashed, unmarked>>

\* The refresh of run_until_retired reads the record and calls select().
Refresh(g) ==
    /\ Alive(g)
    /\ observed[g] # record
    /\ observed' = [observed EXCEPT ![g] = record]
    /\ UNCHANGED <<lock, record, counter, upd, proc, expired, leases, early, cut,
                   history, launches, crashed, unmarked>>

\* An updater may still select g, or has done so.
Undecided(g) ==
    record = g \/ \E u \in Updaters : upd[u].candidate = "disposable" /\ upd[u].epoch = g

\* The staging lifetime of a candidate passes.  Once it has observed its own
\* selection or a later one the lifetime is of no consequence.
Expire(g) ==
    /\ Alive(g) /\ observed[g] < g /\ g \notin expired
    /\ expired' = expired \union {g}
    /\ early' = IF Undecided(g) THEN early \union {g} ELSE early
    /\ UNCHANGED <<lock, record, counter, upd, proc, observed, leases, cut, history,
                   launches, crashed, unmarked>>

\* Fault: retirement does not wait for the leases.
MayRetireBusy(g) ==
    observed[g] > g \/ (g > 1 /\ observed[g] < g /\ g \in expired)

\* Fault: a candidate that nobody selects has no lifetime.
MayRetireSuperseded(g) == observed[g] > g /\ leases[g] = 0

\* Generation::try_retire without a drain limit.
MayRetire(g) ==
    /\ observed[g] > g \/ (g > 1 /\ observed[g] < g /\ g \in expired)
    /\ leases[g] = 0

\* run_until_retired returns and the process exits.
RetireAndExit(g) ==
    /\ Alive(g)
    /\ MayRetire(g)
    /\ Ends(g)
    /\ UNCHANGED <<lock, record, counter, upd, observed, expired, early, history,
                   launches, crashed, unmarked>>

\* Generation::admit: whoever reaches a generation, a candidate too, gets a
\* lease until it has retired.
Admit(g) ==
    /\ proc[g] = "serving"
    /\ leases[g] < MaxLeases
    /\ leases' = [leases EXCEPT ![g] = @ + 1]
    /\ UNCHANGED <<lock, record, counter, upd, proc, observed, expired, early, cut,
                   history, launches, crashed, unmarked>>

\* Fault: a lease is released twice.
ReleaseTwice(g) ==
    /\ leases' = [leases EXCEPT ![g] = @ - 1]
    /\ UNCHANGED <<lock, record, counter, upd, proc, observed, expired, early, cut,
                   history, launches, crashed, unmarked>>

\* SessionLease::drop.
Release(g) ==
    /\ leases[g] > 0
    /\ leases' = [leases EXCEPT ![g] = @ - 1]
    /\ UNCHANGED <<lock, record, counter, upd, proc, observed, expired, early, cut,
                   history, launches, crashed, unmarked>>

GenerationCrash(g) ==
    /\ Alive(g)
    /\ Cardinality(crashed) < MaxCrashes
    /\ Gone(g)
    /\ crashed' = crashed \union {g}
    /\ UNCHANGED <<lock, record, counter, upd, observed, expired, early, cut, history,
                   launches, unmarked>>

Step(u) ==
    \/ Recheck(u)
    \/ Prepare(u)
    \/ Start(u)
    \/ Verify(u)
    \/ Validate(u)
    \/ Publish(u)
    \/ Selected(u)
    \/ Retire(u)
    \/ Fail(u)

Next ==
    \/ \E u \in Updaters :
          Acquire(u) \/ Step(u) \/ Unlock(u) \/ DropCandidate(u) \/ UpdaterCrash(u)
    \/ \E g \in Epochs :
          \/ BecomeReady(g)
          \/ Refresh(g)
          \/ Expire(g)
          \/ RetireAndExit(g)
          \/ Admit(g)
          \/ Release(g)
          \/ GenerationCrash(g)

Spec == Init /\ [][Next]_vars

\* Deadlines and callers end every transaction, and dropped values are dropped;
\* generations refresh and retire, and time passes.  Nobody need take the lock,
\* answer a probe, become ready or release a lease.
FairSpec ==
    /\ Spec
    /\ \A u \in Updaters :
          WF_vars(Fail(u)) /\ WF_vars(DropCandidate(u)) /\ WF_vars(Unlock(u))
    /\ \A g \in Epochs :
          WF_vars(Refresh(g)) /\ WF_vars(Expire(g)) /\ WF_vars(RetireAndExit(g))

-----------------------------------------------------------------------------
(* Properties.                                                             *)

\* An epoch identifies one process for ever, although updaters die between
\* allocating, launching and publishing it.
EpochNamesOneProcess == \A g \in Epochs : launches[g] <= 1

\* The selected generation serves unless it died by itself: no updater, of
\* this transaction or of a later one, kills it, and it does not retire.  Two
\* cases are excepted, which the library leaves to its callers: its staging
\* lifetime passed before it had observed its selection, or its Commit was
\* given up between publishing it and Candidate::selected().
SelectedServes ==
    proc[record] = "serving" \/ record \in crashed \union early \union unmarked

\* "Session leases prevent retirement while a client still has obligations":
\* no handoff cuts off a session of a generation that was ever selected, unless
\* its Commit was given up before the mark.  A candidate that is discarded takes
\* its sessions with it.
SessionsSurvive == cut \intersect history \subseteq unmarked

\* Updaters that compete for the same goal replace a generation only if it does
\* not already meet it, and only by a newer one.
OnlyNeededReplacements == [][record' # record => record' > record /\ ~Acceptable(record)]_vars

\* The lock is never held for ever, whatever the holder waits for.
LockIsReleased == \A u \in Updaters : lock = u ~> lock # u

\* A candidate that was not selected ends once it has no sessions, even if its
\* updater died.
OrphansEnd ==
    \A g \in Epochs :
        <>[](leases[g] = 0) =>
            (proc[g] = "starting" ~> (g \in history \/ proc[g] = "stopped"))

\* An epoch names one process (EpochCounter::allocate, Candidate).
EpochsAreUnique == TypeOK /\ EpochNamesOneProcess

\* No handoff cuts anybody off: the selected generation serves, and no session of
\* a generation that was selected is lost, unless that process dies by itself, its
\* staging lifetime is too short or it is never marked (Candidate::selected,
\* Generation::try_retire).
NobodyIsCutOff == SelectedServes /\ SessionsSurvive

\* What a dead or failed updater leaves behind goes: its lock and its candidate
\* (UpgradeLock, Candidate::drop, the staging lifetime).
LeftoversEnd == LockIsReleased /\ OrphansEnd
=============================================================================

------------------------------ MODULE Generation ------------------------------
(***************************************************************************)
(* One process generation: session leases, the observed selection and the  *)
(* retirement loop (src/generation.rs).                                    *)
(*                                                                         *)
(* The critical sections of the session mutex are single steps; select()   *)
(* wakes the loop only after it has released the mutex, so its wakeup is a *)
(* step of its own (`notices`).  The loop is the only receiver of the      *)
(* channel, so the channel is one flag: something was sent since the loop  *)
(* last marked it as seen.  Times are counted from their origin and stop   *)
(* at the largest value the code can tell apart.                           *)
(*                                                                         *)
(* External: the persisted selection record, which only moves forward, and *)
(* the application's refresh callback, which reads it, passes it to        *)
(* select() and takes at most RefreshLimit from the read to its return.    *)
(***************************************************************************)
EXTENDS Naturals, FiniteSets

CONSTANTS
    Own,                \* this process's epoch
    MaxEpoch,           \* bound: largest epoch that is ever selected
    Sessions,           \* sessions that may ask for a lease
    StagingLifetime,    \* staging_lifetime of run_until_retired
    Interval,           \* interval of run_until_retired
    DrainLimits,        \* values of drain_limit: {} for None, {d} for Some(d)
    RefreshLimit,       \* longest time from reading the record to returning
    CommitBy,           \* latest age at which the record may come to name Own
    MaxCallers          \* bound: select() calls in flight outside the loop

ASSUME GenerationConstants ==
    /\ Own \in Nat \ {0}
    /\ MaxEpoch \in Nat
    /\ IsFiniteSet(Sessions)
    /\ StagingLifetime \in Nat
    /\ Interval \in Nat
    /\ \A d \in DrainLimits : d \subseteq Nat /\ \A x, y \in d : x = y
    /\ RefreshLimit \in Nat
    /\ CommitBy \in Nat
    /\ MaxCallers \in Nat

VARIABLES
    record,         \* the persisted selection
    staged,         \* Generation.staged
    drainLimit,     \* Generation.drain_limit
    selected,       \* Generation.selected
    leases,         \* sessions whose SessionLease is alive
    legacies,       \* those of them marked legacy
    active,         \* Sessions.active
    legacy,         \* Sessions.legacy
    retired,        \* Sessions.retired
    superseded,     \* time since superseded_since: {} for None
    age,            \* time since Generation.started
    notices,        \* select() calls that have not yet sent their wakeup
    news,           \* the loop's receiver has an unseen change
    pc,             \* where run_until_retired is
    read,           \* the selection the refresh callback has read
    busy,           \* time since that read
    nap,            \* time until the loop's sleep ends
    outcome         \* what run_until_retired returned, with the leases left

session_vars == <<leases, legacies, active, legacy>>
loop_vars == <<pc, read, busy, nap, outcome>>
vars == <<record, staged, drainLimit, selected, leases, legacies, active, legacy,
          retired, superseded, age, notices, news, pc, read, busy, nap, outcome>>

Epochs == 0..MaxEpoch

Outcomes == [kind : {"Running", "Idle", "DrainExpired"}, active : Nat, legacy : Nat]

Running == [kind |-> "Running", active |-> 0, legacy |-> 0]

TypeOK ==
    /\ record \in Epochs
    /\ staged \in BOOLEAN
    /\ drainLimit \in DrainLimits
    /\ selected \in Epochs
    /\ leases \subseteq Sessions
    /\ legacies \subseteq leases
    /\ active \in Nat
    /\ legacy \in Nat
    /\ retired \in BOOLEAN
    /\ superseded \in SUBSET Nat
    /\ age \in Nat
    /\ notices \in Nat
    /\ news \in BOOLEAN
    /\ pc \in {"update", "early", "refresh", "select", "notify", "late", "plan", "wait", "end"}
    /\ read \in Epochs
    /\ busy \in Nat
    /\ nap \in Nat
    /\ outcome \in Outcomes

\* Generation::new from the persisted selection, with_drain_limit, and the loop
\* about to start.
Init ==
    /\ record \in Epochs
    /\ selected \in 0..record
    /\ staged \in BOOLEAN
    /\ staged => record < Own
    /\ drainLimit \in DrainLimits
    /\ leases = {}
    /\ legacies = {}
    /\ active = 0
    /\ legacy = 0
    /\ retired = FALSE
    /\ superseded = IF selected > Own THEN {0} ELSE {}
    /\ age = 0
    /\ notices = 0
    /\ news = FALSE
    /\ pc = "update"
    /\ read = 0
    /\ busy = 0
    /\ nap = 0
    /\ outcome = Running

-----------------------------------------------------------------------------
(* Selection.                                                              *)

\* Another process commits a selection: only upwards, and in favour of this
\* generation only while it is at most CommitBy old.
Publish(epoch) ==
    /\ epoch > record
    /\ epoch = Own => age <= CommitBy
    /\ record' = epoch
    /\ UNCHANGED <<staged, drainLimit, selected, session_vars, retired, superseded,
                   age, notices, news, loop_vars>>

\* Fault: every newer selection restarts the drain clock.
ObserveRestart(epoch) ==
    /\ selected' = IF epoch >= selected THEN epoch ELSE selected
    /\ superseded' = IF epoch > selected /\ epoch > Own THEN {0} ELSE superseded

\* The locked part of select(): a selection that moved backwards is refused.
Observe(epoch) ==
    /\ selected' = IF epoch >= selected THEN epoch ELSE selected
    /\ superseded' = IF epoch > selected /\ epoch > Own /\ superseded = {}
                       THEN {0} ELSE superseded

\* select() called by a task that is not the loop, with anything it has read.
Select(epoch) ==
    /\ epoch <= record
    /\ notices < MaxCallers
    /\ Observe(epoch)
    /\ notices' = IF epoch > selected THEN notices + 1 ELSE notices
    /\ UNCHANGED <<record, staged, drainLimit, session_vars, retired, age, news, loop_vars>>

\* ... and its send_replace, after the mutex is released.
Notify ==
    /\ notices > 0
    /\ notices' = notices - 1
    /\ news' = TRUE
    /\ UNCHANGED <<record, staged, drainLimit, selected, session_vars, retired,
                   superseded, age, loop_vars>>

-----------------------------------------------------------------------------
(* Session leases.                                                         *)

\* Fault: admission looks only at the selection, not at retirement.
AdmitRetired(s) ==
    /\ s \notin leases
    /\ leases' = leases \union {s}
    /\ active' = active + 1
    /\ UNCHANGED <<record, staged, drainLimit, selected, legacies, legacy, retired,
                   superseded, age, notices, news, loop_vars>>

Admit(s) ==
    /\ s \notin leases
    /\ ~retired
    /\ leases' = leases \union {s}
    /\ active' = active + 1
    /\ UNCHANGED <<record, staged, drainLimit, selected, legacies, legacy, retired,
                   superseded, age, notices, news, loop_vars>>

\* SessionLease::mark_legacy counts a session once.
MarkLegacy(s) ==
    /\ s \in leases \ legacies
    /\ legacies' = legacies \union {s}
    /\ legacy' = legacy + 1
    /\ UNCHANGED <<record, staged, drainLimit, selected, leases, active, retired,
                   superseded, age, notices, news, loop_vars>>

\* SessionLease::drop.
Release(s) ==
    /\ s \in leases
    /\ leases' = leases \ {s}
    /\ legacies' = legacies \ {s}
    /\ active' = active - 1
    /\ legacy' = IF s \in legacies THEN legacy - 1 ELSE legacy
    /\ news' = TRUE
    /\ UNCHANGED <<record, staged, drainLimit, selected, retired, superseded, age,
                   notices, loop_vars>>

-----------------------------------------------------------------------------
(* Retirement.                                                             *)

\* Fault: the staging lifetime also ends a generation that is selected.
EligibleSelected ==
    selected > Own \/ (staged /\ age > StagingLifetime)

\* Fault: a candidate that nobody selects has no lifetime.
EligibleSuperseded == selected > Own

Eligible ==
    selected > Own \/ (staged /\ selected < Own /\ age > StagingLifetime)

\* Fault: the drain limit still waits for the last lease.
DrainExpiredIdle ==
    active = 0 /\ \E limit \in drainLimit, since \in superseded : since >= limit

DrainExpired == \E limit \in drainLimit, since \in superseded : since >= limit

\* try_retire(staging_lifetime, idle, drain) retires; the guard of Some(..).
MayRetire(idle, drain) ==
    /\ Eligible
    /\ (drain /\ DrainExpired) \/ (idle /\ active = 0)

\* try_retire for the loop: it returns, or goes on to the next location.
RetireOrGoto(idle, drain, next) ==
    IF MayRetire(idle, drain)
      THEN /\ retired' = TRUE
           /\ pc' = "end"
           /\ outcome' = [kind |-> IF active = 0 THEN "Idle" ELSE "DrainExpired",
                          active |-> active, legacy |-> legacy]
      ELSE /\ pc' = next
           /\ UNCHANGED <<retired, outcome>>

\* retire_if_idle() called by the application.
RetireIfIdle ==
    /\ MayRetire(TRUE, FALSE)
    /\ retired' = TRUE
    /\ UNCHANGED <<record, staged, drainLimit, selected, session_vars, superseded,
                   age, notices, news, loop_vars>>

-----------------------------------------------------------------------------
(* run_until_retired.                                                      *)

BorrowAndUpdate ==
    /\ pc = "update"
    /\ news' = FALSE
    /\ pc' = "early"
    /\ UNCHANGED <<record, staged, drainLimit, selected, session_vars, retired,
                   superseded, age, notices, read, busy, nap, outcome>>

\* The drain limit is checked before the refresh.
Early ==
    /\ pc = "early"
    /\ RetireOrGoto(FALSE, TRUE, "refresh")
    /\ UNCHANGED <<record, staged, drainLimit, selected, session_vars, superseded,
                   age, notices, news, read, busy, nap>>

\* The refresh callback reads the record ...
RefreshRead ==
    /\ pc = "refresh"
    /\ read' = record
    /\ busy' = 0
    /\ pc' = "select"
    /\ UNCHANGED <<record, staged, drainLimit, selected, session_vars, retired,
                   superseded, age, notices, news, nap, outcome>>

\* ... and calls select() with it.
RefreshSelect ==
    /\ pc = "select"
    /\ Observe(read)
    /\ pc' = IF read > selected THEN "notify" ELSE "late"
    /\ UNCHANGED <<record, staged, drainLimit, session_vars, retired, age, notices,
                   news, read, busy, nap, outcome>>

RefreshNotify ==
    /\ pc = "notify"
    /\ news' = TRUE
    /\ pc' = "late"
    /\ UNCHANGED <<record, staged, drainLimit, selected, session_vars, retired,
                   superseded, age, notices, read, busy, nap, outcome>>

\* After the refresh an idle generation may retire too.
Late ==
    /\ pc = "late"
    /\ RetireOrGoto(TRUE, TRUE, "plan")
    /\ UNCHANGED <<record, staged, drainLimit, selected, session_vars, superseded,
                   age, notices, news, read, busy, nap>>

\* Fault: the sleep ignores the drain limit.
SleepWholeInterval == {}

\* Fault: the time left is computed without saturating.
DrainRemainingPast ==
    {limit - since : limit \in drainLimit, since \in superseded}

\* drain_remaining(): what is left of the drain limit, saturating.
DrainRemaining ==
    {IF since < limit THEN limit - since ELSE 0 :
        limit \in drainLimit, since \in superseded}

\* Sleep for the interval, but not past the drain limit.
Plan ==
    /\ pc = "plan"
    /\ pc' = "wait"
    /\ nap' = IF \E r \in DrainRemaining : r < Interval
                THEN CHOOSE r \in DrainRemaining : TRUE
                ELSE Interval
    /\ UNCHANGED <<record, staged, drainLimit, selected, session_vars, retired,
                   superseded, age, notices, news, read, busy, outcome>>

\* The select of sleep and changed().
Wake ==
    /\ pc = "wait"
    /\ news \/ nap = 0
    /\ pc' = "update"
    /\ \/ news /\ news' = FALSE
       \/ nap = 0 /\ UNCHANGED news
    /\ UNCHANGED <<record, staged, drainLimit, selected, session_vars, retired,
                   superseded, age, notices, read, busy, nap, outcome>>

\* The clock.  A refresh that has read the record returns within RefreshLimit.
Tick ==
    /\ pc \in {"select", "notify", "late"} => busy < RefreshLimit
    /\ busy' = IF pc \in {"select", "notify", "late"} THEN busy + 1 ELSE busy
    /\ age' = IF age <= StagingLifetime THEN age + 1 ELSE age
    /\ superseded' = {IF \E limit \in drainLimit : since <= limit
                        THEN since + 1 ELSE since : since \in superseded}
    /\ nap' = IF nap = 0 THEN 0 ELSE nap - 1
    /\ UNCHANGED <<record, staged, drainLimit, selected, session_vars, retired,
                   notices, news, pc, read, outcome>>

Loop ==
    \/ BorrowAndUpdate
    \/ Early
    \/ RefreshRead
    \/ RefreshSelect
    \/ RefreshNotify
    \/ Late
    \/ Plan
    \/ Wake

Next ==
    \/ \E epoch \in Epochs : Publish(epoch) \/ Select(epoch)
    \/ Notify
    \/ \E s \in Sessions : Admit(s) \/ MarkLegacy(s) \/ Release(s)
    \/ RetireIfIdle
    \/ Loop
    \/ Tick

Spec == Init /\ [][Next]_vars

\* The runtime polls the loop, a select() call that released the mutex goes on
\* to its wakeup, and time passes.  Sessions may keep their leases forever, and
\* nobody else need ever call select() or retire_if_idle().
FairSpec == Spec /\ WF_vars(Loop) /\ WF_vars(Notify) /\ WF_vars(Tick)

-----------------------------------------------------------------------------
(* Properties.                                                             *)

\* What run_until_retired returned stays true: Idle means that no session is
\* left and none will come, DrainExpired that only the reported sessions can
\* be left, after the whole drain limit.
RetirementStaysTrue ==
    /\ outcome.kind # "Running" => retired
    /\ outcome.kind = "Idle" => leases = {}
    /\ outcome.kind = "DrainExpired" =>
          /\ Cardinality(leases) <= outcome.active
          /\ outcome.legacy <= outcome.active
          /\ \E limit \in drainLimit, since \in superseded : since >= limit

\* "Retire an idle superseded generation or expired unselected candidate": the
\* generation the record names is not told to end by its own loop.
RetiredNotSelected == outcome.kind # "Running" => record # Own

\* The loop does not oversleep.  Unless a wakeup is on its way, a sleeping
\* generation is not superseded and idle, and it gets up no later than the
\* drain limit passes.
NoOversleep ==
    pc = "wait" /\ ~news /\ notices = 0 =>
        /\ ~(selected > Own /\ active = 0)
        /\ \A limit \in drainLimit, since \in superseded :
              nap = 0 \/ since + nap <= limit

\* Nothing goes backwards: the observed selection ("binary rollback still
\* requires a larger epoch"), the drain clock, and retirement, after which
\* leases can only be released.
ForwardOnly ==
    [][/\ selected' >= selected
       /\ \A since \in superseded : \E later \in superseded' : later >= since
       /\ retired => retired' /\ leases' \subseteq leases]_vars

\* A generation that stays superseded and idle, or a candidate that nothing
\* ever selects, eventually ends.
IdleRetires ==
    (<>[](active = 0 /\ (record > Own \/ (staged /\ record < Own)))) => <>(pc = "end")

\* With a drain limit a superseded generation ends whatever its sessions do.
DrainLimitRetires ==
    (drainLimit # {} /\ selected > Own) ~> (pc = "end")

\* A generation that retired is not the selected one, the reason
\* run_until_retired returned stays true, and its loop never sleeps past the
\* moment (try_retire, select, SessionLease::drop).
RetirementIsTrue == TypeOK /\ RetiredNotSelected /\ RetirementStaysTrue /\ NoOversleep

\* Retirement comes when it must (run_until_retired).
RetirementComes == IdleRetires /\ DrainLimitRetires
=============================================================================

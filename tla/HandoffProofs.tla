---------------------------- MODULE HandoffProofs ----------------------------
(***************************************************************************)
(* For any number of updaters, epochs, sessions and crashes: an epoch      *)
(* names one process, the selected generation serves and sessions survive  *)
(* (but for the exceptions the properties name), and a generation is       *)
(* replaced only when it must be and by a newer one.                       *)
(* For any number of processes: the lock file they queue for has one      *)
(* holder, and a wait for it keeps its deadline (ProcessLock).             *)
(***************************************************************************)
EXTENDS Handoff, ProcessLock, WellFoundedInduction, TLAPS

-----------------------------------------------------------------------------
(* The inductive invariant.                                                *)

\* Updaters: only the holder of the lock runs its machine, in Overlap mode.
LockIsHeld ==
    \A u \in Updaters :
        /\ upd[u].at = "running" => lock = u
        /\ upd[u].machine.mode = "Overlap"

\* Epochs are given out upwards and to one updater each; what was launched,
\* lives, has expired or was ever selected has been given out.
EpochsAreGiven ==
    /\ \A u \in Updaters : upd[u].epoch <= counter
    /\ \A u, v \in Updaters : u # v /\ upd[u].epoch = upd[v].epoch => upd[u].epoch = 0
    /\ \A g \in Epochs : launches[g] <= 1
    /\ \A g \in Epochs : launches[g] > 0 => g <= counter
    /\ \A g \in Epochs : g > 1 /\ launches[g] = 0 =>
          proc[g] = "none" /\ g \notin history /\ g \notin expired /\ g \notin cut

\* The selection only moves up, and generations have seen no later one.  It has
\* started, and it expires only before it knows of its selection.
SelectionIsKnown ==
    /\ record \in history
    /\ \A g \in Epochs : observed[g] <= record
    /\ record > 1 /\ record \in expired => observed[record] = record \/ record \in early
    /\ proc[record] \in {"serving", "stopped"}
    /\ SelectedServes

\* The dead stay dead and have no sessions.
ProcessesEnd ==
    /\ \A g \in Epochs : g \in crashed \union cut => proc[g] = "stopped"
    /\ \A g \in Epochs : leases[g] > 0 => proc[g] = "serving"
    /\ SessionsSurvive

\* A disposable candidate was never selected, and if it has expired it did so
\* early; nobody has ended it.
Disposable(u) ==
    /\ upd[u].epoch > 1
    /\ upd[u].epoch \notin history
    /\ upd[u].epoch \in expired => upd[u].epoch \in early
    /\ upd[u].epoch \notin cut
    /\ launches[upd[u].epoch] = 1

\* A candidate that is published but not marked loses its Commit only if that is
\* given up.
Published(u) ==
    /\ upd[u].epoch > 1
    /\ upd[u].epoch \in history
    /\ upd[u].at # "running" => upd[u].epoch \in unmarked

\* A candidate that has been proven serves, unless it died or expired early.
Proven(u) ==
    \/ proc[upd[u].epoch] = "serving"
    \/ proc[upd[u].epoch] = "stopped" /\ upd[u].epoch \in crashed \union early

\* What a running updater knows at each step up to its publication: it has found
\* the selection wanting, its epoch is fresh, its candidate is newer, and proven
\* at last.
Knows(u) ==
    LET e == upd[u].epoch
        step == upd[u].machine.step
        candidate == upd[u].candidate
    IN  /\ step \in {"Recheck", "Prepare", "Start"} => candidate = "none"
        /\ step \in {"Verify", "Validate"} => candidate = "disposable"
        /\ step = "Commit" => candidate \in {"disposable", "published"}
        /\ step = "Retire" => candidate = "selected"
        /\ candidate = "published" => record = e
        /\ step \in {"Prepare", "Start", "Verify", "Validate", "Commit"} /\ candidate # "published"
              => ~Acceptable(record)
        /\ step \in {"Start", "Verify", "Validate", "Commit"} /\ candidate # "published"
              => e > record
        /\ step = "Start" => launches[e] = 0
        /\ step = "Commit" /\ candidate = "disposable" => Proven(u)
        /\ step # "Drain"

Transactions ==
    \A u \in Updaters :
        /\ upd[u].candidate = "disposable" => Disposable(u)
        /\ upd[u].candidate = "published" => Published(u)
        /\ upd[u].at = "waiting" => upd[u].machine = NewMachine("Overlap") /\ upd[u].candidate = "none"
        /\ upd[u].at = "running" => Knows(u)

IndInv ==
    /\ TypeOK /\ LockIsHeld /\ EpochsAreGiven /\ SelectionIsKnown /\ ProcessesEnd /\ Transactions

-----------------------------------------------------------------------------
(* The next epoch.                                                         *)

\* A set of epochs that is not empty has a largest element.
LEMMA LargestExists ==
    ASSUME NEW n \in Nat, NEW S, S \subseteq 0..n, S # {}
    PROVE  \E m \in S : \A x \in S : x <= m
  <1> DEFINE T == {n - x : x \in S}
  <1>0. \A x \in S : x \in Nat /\ x <= n /\ n - x \in Nat
    <2> SUFFICES ASSUME NEW x \in S PROVE x \in Nat /\ x <= n /\ n - x \in Nat
      OBVIOUS
    <2>1. x \in 0..n
      OBVIOUS
    <2> QED
      BY <2>1
  <1>1. T \subseteq Nat /\ T # {}
    BY <1>0, Zenon
  <1>2. PICK t \in T : \A y \in T : ~ (<<y, t>> \in OpToRel(<, Nat))
    BY <1>1, NatLessThanWellFounded, WFMin, Zenon
  <1>3. \A y \in T : ~ (y < t)
    BY <1>1, <1>2, Zenon DEF OpToRel
  <1>4. PICK m \in S : t = n - m
    BY <1>2, Zenon
  <1>5. ASSUME NEW x \in S PROVE x <= m
    <2>1. ~ (n - x < n - m)
      BY <1>3, <1>4, Zenon
    <2>2. x \in Nat /\ m \in Nat
      BY <1>0
    <2> QED
      BY <2>1, <2>2
  <1> QED
    BY <1>4, <1>5

\* generation::allocate gives an epoch above the counter and the selection.
LEMMA NextEpochIsNew ==
    ASSUME TypeOK
    PROVE  NextEpoch \in Nat /\ NextEpoch > counter /\ NextEpoch > record
  <1> DEFINE S == {counter, record} \union Files
  <1>1. S \subseteq 0..MaxEpoch /\ S # {}
    <2>1. Epochs \subseteq 0..MaxEpoch
      BY HandoffConstants DEF Epochs
    <2>2. counter \in 0..MaxEpoch /\ record \in Epochs /\ Files \subseteq Epochs
      BY DEF TypeOK, Files
    <2> QED
      BY <2>1, <2>2
  <1>2. \E m \in S : \A x \in S : x <= m
    BY <1>1, LargestExists, HandoffConstants
  <1>3. Max(S) \in S /\ \A x \in S : x <= Max(S)
    <2>1. \A x \in S, y \in S : x >= y <=> y <= x
      BY <1>1, HandoffConstants
    <2> HIDE DEF S
    <2> QED
      BY <1>2, <2>1 DEF Max
  <1>4. counter \in Nat /\ record \in Nat /\ Max(S) \in Nat
    BY <1>1, <1>3, HandoffConstants
  <1> QED
    BY <1>3, <1>4 DEF NextEpoch

-----------------------------------------------------------------------------
(* What an answer of the driver does to an updater.                        *)

\* The fields of an updater.
LEMMA UpdaterFields ==
    ASSUME NEW r \in Updater
    PROVE  /\ r.at \in {"waiting", "running", "ending", "ended", "crashed"}
           /\ r.machine \in Machines /\ r.epoch \in 0..MaxEpoch
           /\ r.basis \in Epochs /\ r.candidate \in Handles
           /\ r.machine.step \in Steps
  BY DEF Updater, Machines

\* Done moves the machine on; only after Retire does the transaction end.
LEMMA DoneMovesOn ==
    ASSUME TypeOK, NEW u \in Updaters, upd[u].machine.mode = "Overlap",
           NEW next, next = Answered(u, "Done")
    PROVE  /\ next \in Updater
           /\ next.epoch = upd[u].epoch
           /\ next.candidate = upd[u].candidate
           /\ next.machine.mode = "Overlap"
           /\ next.machine.step = NextStep(upd[u].machine)
           /\ next.at = IF upd[u].machine.step = "Retire" THEN "ending" ELSE "running"
  <1> DEFINE m == upd[u].machine
  <1>1. upd[u] \in Updater /\ m \in Machines /\ m.step \in Steps
    BY UpdaterFields DEF TypeOK
  <1>2. NextStep(m) \in Steps
    BY <1>1 DEF NextStep, Steps
  <1>3. Advance(m, "Done") = [m EXCEPT !.step = NextStep(m), !.committed = @ \/ m.step = "Commit"]
    BY DEF Advance
  <1>4. Verdict(m, "Done") = IF m.step = "Retire" THEN "Complete" ELSE "Continue"
    BY <1>1 DEF Verdict, Steps, MayRetry
  <1>5. Advance(m, "Done") \in Machines /\ Advance(m, "Done").mode = "Overlap"
        /\ Advance(m, "Done").step = NextStep(m)
    BY <1>1, <1>2, <1>3, Zenon DEF Machines
  <1> HIDE DEF m
  <1>6. next = [upd[u] EXCEPT !.machine = Advance(m, "Done"),
                  !.at = IF Verdict(m, "Done") = "Continue" THEN "running" ELSE "ending"]
    BY DEF Answered, m
  <1> QED
    BY <1>1, <1>4, <1>5, <1>6, Zenon DEF Updater, m

\* Any other answer leaves the machine where it is, running or ending.
LEMMA OtherStays ==
    ASSUME TypeOK, NEW u \in Updaters, NEW answer \in {"Pending", "Unchanged"},
           NEW next, next = Answered(u, answer)
    PROVE  /\ next \in Updater
           /\ next.epoch = upd[u].epoch
           /\ next.candidate = upd[u].candidate
           /\ next.machine = upd[u].machine
           /\ next.at \in {"running", "ending"}
  <1>1. upd[u] \in Updater
    BY DEF TypeOK
  <1>2. next = [upd[u] EXCEPT !.machine = upd[u].machine,
                  !.at = IF Verdict(upd[u].machine, answer) = "Continue"
                           THEN "running" ELSE "ending"]
    BY Zenon DEF Answered, Advance
  <1> QED
    BY <1>1, <1>2, Zenon DEF Updater

-----------------------------------------------------------------------------
(* Every step keeps the invariant.                                         *)

\* The first generation serves, and no updater has started.
LEMMA InitInd == Init => IndInv
  <1> SUFFICES ASSUME Init PROVE IndInv
    OBVIOUS
  <1> USE HandoffConstants DEF Init, Epochs
  <1>1. TypeOK
    BY DEF TypeOK, Outside, Updater, Handles, NewMachine, Machines, Modes, Steps
  <1>2. LockIsHeld
    BY DEF LockIsHeld, Outside, NewMachine
  <1>3. EpochsAreGiven
    BY DEF EpochsAreGiven, Outside
  <1>4. SelectionIsKnown
    BY DEF SelectionIsKnown, SelectedServes
  <1>5. ProcessesEnd
    BY DEF ProcessesEnd, SessionsSurvive
  <1>6. Transactions
    BY Zenon DEF Transactions, Outside, NewMachine
  <1> QED
    BY <1>1, <1>2, <1>3, <1>4, <1>5, <1>6 DEF IndInv

\* The candidate of an updater that is about to publish it is newer than the
\* selection, and if it has expired it did so early.
LEMMA CommitterKnows ==
    ASSUME IndInv, NEW u \in Updaters, At(u, "Commit"), upd[u].candidate = "disposable"
    PROVE  /\ upd[u].epoch \in Epochs
           /\ upd[u].epoch > record
           /\ upd[u].epoch \in expired => upd[u].epoch \in early
  <1>1. upd[u].epoch > record /\ (upd[u].epoch \in expired => upd[u].epoch \in early)
    BY DEF IndInv, At, Transactions, Knows, Disposable
  <1>2. upd[u].epoch \in 0..MaxEpoch /\ record \in 1..MaxEpoch
    BY UpdaterFields DEF IndInv, TypeOK, Epochs
  <1> QED
    BY <1>1, <1>2, HandoffConstants DEF Epochs

\* A step of a generation keeps the transactions if it does not start serving
\* a selection, and ends no proven candidate that is neither dead nor early.
LEMMA TransactionsKept ==
    ASSUME IndInv, UNCHANGED <<upd, record, history, launches, expired, early, cut, unmarked>>,
           Acceptable(record)' => Acceptable(record),
           \A u \in Updaters :
              At(u, "Commit") /\ upd[u].candidate = "disposable" /\ Proven(u) => Proven(u)'
    PROVE  Transactions'
  <1> SUFFICES ASSUME NEW u \in Updaters
               PROVE  /\ upd[u].candidate = "disposable" => Disposable(u)'
                      /\ upd[u].candidate = "published" => Published(u)'
                      /\ upd[u].at = "waiting" => upd[u].machine = NewMachine("Overlap")
                                                    /\ upd[u].candidate = "none"
                      /\ upd[u].at = "running" => Knows(u)'
    BY DEF Transactions
  <1>1. upd[u].candidate = "disposable" => Disposable(u)'
    BY DEF IndInv, Transactions, Disposable
  <1>2. upd[u].candidate = "published" => Published(u)'
    BY DEF IndInv, Transactions, Published
  <1>3. upd[u].at = "running" => Knows(u)'
    BY DEF IndInv, Transactions, Knows, At
  <1> QED
    BY <1>1, <1>2, <1>3 DEF IndInv, Transactions

\* Epochs are numbers from one.
LEMMA EpochsAreNat == \A g \in Epochs : g \in Nat /\ g >= 1
  BY HandoffConstants DEF Epochs

\* A starting generation begins to serve.
LEMMA BecomeReadyInd == ASSUME IndInv, NEW g \in Epochs, BecomeReady(g) PROVE IndInv'
  <1> USE EpochsAreNat DEF IndInv, BecomeReady
  <1>1. TypeOK'
    BY DEF TypeOK
  <1>2. LockIsHeld'
    BY DEF LockIsHeld
  <1>3. EpochsAreGiven'
    BY DEF TypeOK, EpochsAreGiven
  <1>4. SelectionIsKnown'
    BY DEF TypeOK, SelectionIsKnown, SelectedServes
  <1>5. ProcessesEnd'
    BY DEF TypeOK, ProcessesEnd, SessionsSurvive
  <1>6. Transactions'
    <2>1. g # record
      BY DEF SelectionIsKnown
    <2>2. Acceptable(record)' => Acceptable(record)
      BY <2>1 DEF Acceptable, TypeOK
    <2>3. ASSUME NEW u \in Updaters, At(u, "Commit"), upd[u].candidate = "disposable",
                 Proven(u)
          PROVE  Proven(u)'
      BY <2>3, CommitterKnows DEF TypeOK, Proven
    <2> QED
      BY <2>2, <2>3, TransactionsKept
  <1> QED
    BY <1>1, <1>2, <1>3, <1>4, <1>5, <1>6

\* A generation observes the selection there is.
LEMMA RefreshInd == ASSUME IndInv, NEW g \in Epochs, Refresh(g) PROVE IndInv'
  <1> USE EpochsAreNat DEF IndInv, Refresh, Alive
  <1>1. TypeOK'
    BY DEF TypeOK
  <1>2. LockIsHeld'
    BY DEF LockIsHeld
  <1>3. EpochsAreGiven'
    BY DEF TypeOK, EpochsAreGiven
  <1>4. SelectionIsKnown'
    <2>1. \A h \in Epochs : observed'[h] <= record
      BY DEF TypeOK, SelectionIsKnown
    <2>2. record > 1 /\ record \in expired => observed'[record] = record \/ record \in early
      BY DEF TypeOK, SelectionIsKnown
    <2> QED
      BY <2>1, <2>2 DEF SelectionIsKnown, SelectedServes
  <1>5. ProcessesEnd'
    BY DEF TypeOK, ProcessesEnd, SessionsSurvive
  <1>6. Transactions'
    BY DEF TypeOK, Transactions, Disposable, Published, Knows, Proven, Acceptable
  <1> QED
    BY <1>1, <1>2, <1>3, <1>4, <1>5, <1>6

\* A candidate that an updater holds, or that is selected, expires early.
LEMMA ExpireInd == ASSUME IndInv, NEW g \in Epochs, Expire(g) PROVE IndInv'
  <1> USE EpochsAreNat DEF IndInv, Expire, Alive
  <1>0. early \subseteq early' /\ early' \subseteq early \union {g} /\ (Undecided(g) => g \in early')
    OBVIOUS
  <1>1. TypeOK'
    BY DEF TypeOK
  <1>2. LockIsHeld'
    BY DEF LockIsHeld
  <1>3. EpochsAreGiven'
    BY DEF TypeOK, EpochsAreGiven
  <1>4. SelectionIsKnown'
    <2>1. record = g => g \in early'
      BY <1>0 DEF Undecided
    <2> QED
      BY <1>0, <2>1 DEF TypeOK, SelectionIsKnown, SelectedServes
  <1>5. ProcessesEnd'
    BY DEF TypeOK, ProcessesEnd, SessionsSurvive
  <1>6. Transactions'
    <2> SUFFICES ASSUME NEW u \in Updaters
                 PROVE  /\ upd[u].candidate = "disposable" => Disposable(u)'
                        /\ upd[u].candidate = "published" => Published(u)'
                        /\ upd[u].at = "waiting" => upd[u].machine = NewMachine("Overlap")
                                                      /\ upd[u].candidate = "none"
                        /\ upd[u].at = "running" => Knows(u)'
      BY DEF Transactions
    <2>1. upd[u].candidate = "disposable" /\ upd[u].epoch = g => g \in early'
      BY <1>0 DEF Undecided
    <2>2. upd[u].candidate = "disposable" => Disposable(u)'
      BY <1>0, <2>1 DEF Transactions, Disposable
    <2>3. upd[u].candidate = "published" => Published(u)'
      BY SMTT(30) DEF Transactions, Published
    <2>4. upd[u].at = "running" => Knows(u)'
      BY <1>0 DEF Transactions, Knows, Proven, Acceptable
    <2> QED
      BY <2>2, <2>3, <2>4 DEF Transactions
  <1> QED
    BY <1>1, <1>2, <1>3, <1>4, <1>5, <1>6

\* A generation that exits has no sessions left, and if it is the selection or a
\* candidate that was proven it has expired early.
LEMMA RetireAndExitInd == ASSUME IndInv, NEW g \in Epochs, RetireAndExit(g) PROVE IndInv'
  <1> USE EpochsAreNat DEF IndInv, RetireAndExit, Alive, MayRetire, Ends, Gone
  <1>0. cut' = cut
    BY DEF TypeOK
  <1>1. TypeOK'
    <2>1. 0 \in 0..MaxLeases
      BY HandoffConstants
    <2> QED
      BY <1>0, <2>1 DEF TypeOK
  <1>2. LockIsHeld'
    BY DEF LockIsHeld
  <1>3. EpochsAreGiven'
    BY <1>0 DEF TypeOK, EpochsAreGiven
  <1>4. SelectionIsKnown'
    <2>1. g = record => record \in early
      <3>1. record \in Epochs /\ record \in Nat /\ observed[record] <= record
            /\ observed[record] \in Nat
        BY DEF TypeOK, SelectionIsKnown
      <3> QED
        BY <3>1 DEF SelectionIsKnown
    <2>2. \A h \in Epochs : proc'[h] = IF h = g THEN "stopped" ELSE proc[h]
      BY DEF TypeOK
    <2> QED
      BY <2>1, <2>2 DEF TypeOK, SelectionIsKnown, SelectedServes
  <1>5. ProcessesEnd'
    <2>1. \A h \in Epochs : /\ proc'[h] = IF h = g THEN "stopped" ELSE proc[h]
                            /\ leases'[h] = IF h = g THEN 0 ELSE leases[h]
      BY DEF TypeOK
    <2> QED
      BY <1>0, <2>1 DEF ProcessesEnd, SessionsSurvive
  <1>6. Transactions'
    <2>1. Acceptable(record)' => Acceptable(record)
      BY DEF Acceptable, TypeOK
    <2>2. ASSUME NEW u \in Updaters, At(u, "Commit"), upd[u].candidate = "disposable",
                 Proven(u)
          PROVE  Proven(u)'
      <3>1. /\ upd[u].epoch \in Epochs /\ upd[u].epoch > record
            /\ upd[u].epoch \in expired => upd[u].epoch \in early
        BY <2>2, CommitterKnows
      <3>2. observed[g] <= record /\ observed[g] \in Nat /\ record \in Nat
        BY DEF TypeOK, SelectionIsKnown
      <3>3. upd[u].epoch = g => g \in early
        BY <3>1, <3>2
      <3>4. \A h \in Epochs : proc'[h] = IF h = g THEN "stopped" ELSE proc[h]
        BY DEF TypeOK
      <3> QED
        BY <2>2, <3>1, <3>3, <3>4 DEF Proven
    <2> QED
      BY <1>0, <2>1, <2>2, TransactionsKept
  <1> QED
    BY <1>1, <1>2, <1>3, <1>4, <1>5, <1>6

\* A session begins with a generation that serves.
LEMMA AdmitInd == ASSUME IndInv, NEW g \in Epochs, Admit(g) PROVE IndInv'
  <1> USE EpochsAreNat DEF IndInv, Admit
  <1>1. TypeOK'
    <2>1. leases[g] \in 0..MaxLeases /\ leases[g] < MaxLeases
      BY DEF TypeOK
    <2>2. leases[g] + 1 \in 0..MaxLeases
      BY <2>1, HandoffConstants
    <2> QED
      BY <2>2 DEF TypeOK
  <1>2. LockIsHeld'
    BY DEF LockIsHeld
  <1>3. EpochsAreGiven'
    BY DEF TypeOK, EpochsAreGiven
  <1>4. SelectionIsKnown'
    BY DEF TypeOK, SelectionIsKnown, SelectedServes
  <1>5. ProcessesEnd'
    BY DEF TypeOK, ProcessesEnd, SessionsSurvive
  <1>6. Transactions'
    BY DEF TypeOK, Transactions, Disposable, Published, Knows, Proven, Acceptable
  <1> QED
    BY <1>1, <1>2, <1>3, <1>4, <1>5, <1>6

\* A session ends.
LEMMA ReleaseInd == ASSUME IndInv, NEW g \in Epochs, Release(g) PROVE IndInv'
  <1> USE EpochsAreNat DEF IndInv, Release
  <1>1. TypeOK'
    <2>1. leases[g] \in 0..MaxLeases /\ leases[g] > 0
      BY DEF TypeOK
    <2>2. leases[g] - 1 \in 0..MaxLeases
      BY <2>1, HandoffConstants
    <2> QED
      BY <2>2 DEF TypeOK
  <1>2. LockIsHeld'
    BY DEF LockIsHeld
  <1>3. EpochsAreGiven'
    BY DEF TypeOK, EpochsAreGiven
  <1>4. SelectionIsKnown'
    BY DEF TypeOK, SelectionIsKnown, SelectedServes
  <1>5. ProcessesEnd'
    BY DEF TypeOK, ProcessesEnd, SessionsSurvive
  <1>6. Transactions'
    BY DEF TypeOK, Transactions, Disposable, Published, Knows, Proven, Acceptable
  <1> QED
    BY <1>1, <1>2, <1>3, <1>4, <1>5, <1>6

\* A crash ends the sessions of a generation with it.
LEMMA GenerationCrashInd == ASSUME IndInv, NEW g \in Epochs, GenerationCrash(g) PROVE IndInv'
  <1> USE EpochsAreNat DEF IndInv, GenerationCrash, Alive, Gone
  <1>1. TypeOK'
    <2>1. 0 \in 0..MaxLeases
      BY HandoffConstants
    <2> QED
      BY <2>1 DEF TypeOK
  <1>2. LockIsHeld'
    BY DEF LockIsHeld
  <1>3. EpochsAreGiven'
    BY DEF TypeOK, EpochsAreGiven
  <1>4. SelectionIsKnown'
    BY DEF TypeOK, SelectionIsKnown, SelectedServes
  <1>5. ProcessesEnd'
    <2>1. \A h \in Epochs : /\ proc'[h] = IF h = g THEN "stopped" ELSE proc[h]
                            /\ leases'[h] = IF h = g THEN 0 ELSE leases[h]
      BY DEF TypeOK
    <2> QED
      BY <2>1 DEF ProcessesEnd, SessionsSurvive
  <1>6. Transactions'
    <2>1. Acceptable(record)' => Acceptable(record)
      BY DEF Acceptable, TypeOK
    <2>2. ASSUME NEW u \in Updaters, At(u, "Commit"), upd[u].candidate = "disposable",
                 Proven(u)
          PROVE  Proven(u)'
      BY <2>2, CommitterKnows DEF TypeOK, Proven
    <2> QED
      BY <2>1, <2>2, TransactionsKept
  <1> QED
    BY <1>1, <1>2, <1>3, <1>4, <1>5, <1>6

\* A step of an updater that touches nothing but its own state, the lock and
\* the list of the dead keeps the invariant, if the updater then knows what its
\* place requires.
LEMMA UpdaterOnly ==
    ASSUME IndInv, NEW u \in Updaters, NEW next \in Updater,
           upd' = [upd EXCEPT ![u] = next],
           UNCHANGED <<record, counter, gen_vars, history, launches>>,
           lock' \in Updaters \union {Nobody},
           \A v \in Updaters \ {u} : upd[v].at = "running" => lock' = v,
           next.at = "running" => lock' = u,
           crashed' = crashed \/ crashed' = crashed \union {u},
           unmarked \subseteq unmarked', unmarked' \subseteq Epochs,
           next.epoch \in {0, upd[u].epoch},
           next.candidate \in {"none", "selected", upd[u].candidate},
           next.candidate # "none" => next.epoch = upd[u].epoch,
           next.candidate = "published" /\ next.at # "running" => next.epoch \in unmarked',
           next.machine.mode = "Overlap",
           next.at # "waiting",
           next.at = "running" => Knows(u)'
    PROVE  IndInv'
  <1>1. upd'[u] = next /\ \A v \in Updaters : v # u => upd'[v] = upd[v]
    BY DEF IndInv, TypeOK
  <1>2. \A g \in Epochs : g \in crashed' <=> g \in crashed
    BY HandoffConstants DEF Epochs
  <1>3. TypeOK'
    BY <1>1 DEF IndInv, TypeOK, gen_vars
  <1>4. LockIsHeld'
    BY <1>1 DEF IndInv, LockIsHeld
  <1>5. EpochsAreGiven'
    <2>1. \A v \in Updaters : upd'[v].epoch \in {0, upd[v].epoch}
      BY <1>1
    <2>2. counter \in Nat
      BY HandoffConstants DEF IndInv, TypeOK
    <2> QED
      BY <2>1, <2>2 DEF IndInv, EpochsAreGiven, gen_vars
  <1>6. SelectionIsKnown'
    BY <1>2 DEF IndInv, TypeOK, SelectionIsKnown, SelectedServes, gen_vars
  <1>7. ProcessesEnd'
    BY <1>2 DEF IndInv, TypeOK, ProcessesEnd, SessionsSurvive, gen_vars
  <1>8. Transactions'
    <2> SUFFICES ASSUME NEW v \in Updaters
                 PROVE  /\ upd'[v].candidate = "disposable" => Disposable(v)'
                        /\ upd'[v].candidate = "published" => Published(v)'
                        /\ upd'[v].at = "waiting" => upd'[v].machine = NewMachine("Overlap")
                                                       /\ upd'[v].candidate = "none"
                        /\ upd'[v].at = "running" => Knows(v)'
      BY DEF Transactions
    <2>1. upd'[v].candidate = "disposable" => Disposable(v)'
      BY <1>1 DEF IndInv, Transactions, Disposable, gen_vars
    <2>2. upd'[v].candidate = "published" => Published(v)'
      BY <1>1 DEF IndInv, Transactions, Published
    <2>3. CASE v = u
      BY <1>1, <2>1, <2>2, <2>3
    <2>4. CASE v # u
      <3>1. upd'[v] = upd[v]
        BY <1>1, <2>4
      <3>2. upd[v].at = "running" => Knows(v)
        BY DEF IndInv, Transactions
      <3>3. Proven(v) => Proven(v)'
        BY <1>2, <3>1 DEF Proven, gen_vars
      <3>4. Acceptable(record)' <=> Acceptable(record)
        BY SMTT(30) DEF Acceptable, gen_vars
      <3>5. upd[v].at = "running" => Knows(v)'
        BY <3>1, <3>2, <3>3, <3>4 DEF Knows
      <3> QED
        BY <2>1, <2>2, <3>1, <3>5 DEF IndInv, Transactions
    <2> QED
      BY <2>3, <2>4
  <1> QED
    BY <1>3, <1>4, <1>5, <1>6, <1>7, <1>8 DEF IndInv

\* What is unmarked is an epoch.
LEMMA UnmarkedAreEpochs ==
    ASSUME IndInv PROVE unmarked \subseteq Epochs
  BY DEF IndInv, TypeOK

\* Nobody runs without the lock, so whoever acquires it is alone.
LEMMA AcquireInd == ASSUME IndInv, NEW u \in Updaters, Acquire(u) PROVE IndInv'
  <1> DEFINE next == [upd[u] EXCEPT !.at = "running"]
  <1>1. upd[u] \in Updater /\ upd[u].machine = NewMachine("Overlap") /\ upd[u].candidate = "none"
    BY DEF IndInv, TypeOK, Transactions, Acquire
  <1>2. /\ next \in Updater /\ next.at = "running" /\ next.epoch = upd[u].epoch
        /\ next.candidate = "none" /\ next.machine = NewMachine("Overlap")
    BY <1>1 DEF Updater
  <1>3. upd' = [upd EXCEPT ![u] = next] /\ upd'[u] = next
    BY DEF Acquire, IndInv, TypeOK
  <1>4. Knows(u)'
    BY <1>2, <1>3 DEF Knows, NewMachine
  <1>5. \A v \in Updaters \ {u} : upd[v].at # "running"
    BY HandoffConstants DEF Acquire, IndInv, LockIsHeld
  <1>6. /\ lock' = u /\ crashed' = crashed
        /\ UNCHANGED <<record, counter, gen_vars, history, launches, unmarked>>
    BY DEF Acquire
  <1>7. next.machine.mode = "Overlap"
    BY <1>2, SMTT(30) DEF NewMachine
  <1> HIDE DEF next
  <1> QED
    BY <1>2, <1>3, <1>4, <1>5, <1>6, <1>7, UnmarkedAreEpochs, UpdaterOnly, Zenon

\* The lock of a running updater excludes every other one.
LEMMA RunsAlone ==
    ASSUME IndInv, NEW u \in Updaters, upd[u].at = "running"
    PROVE  /\ lock = u /\ upd[u] \in Updater /\ upd[u].machine.mode = "Overlap" /\ Knows(u)
           /\ \A v \in Updaters \ {u} : upd[v].at # "running"
  BY DEF IndInv, TypeOK, LockIsHeld, Transactions

\* What Recheck finds wanting stays so while the lock is held.
LEMMA RecheckInd == ASSUME IndInv, NEW u \in Updaters, Recheck(u) PROVE IndInv'
  <1> DEFINE answer == IF Acceptable(record) THEN "Unchanged" ELSE "Done"
             old == Answered(u, answer)
             next == [old EXCEPT !.basis = record]
  <1>1. /\ upd[u].at = "running" /\ upd[u].machine.step = "Recheck"
        /\ upd' = [upd EXCEPT ![u] = next]
        /\ UNCHANGED <<lock, record, counter, gen_vars, history, launches, crashed, unmarked>>
    BY DEF Recheck, At
  <1>2. /\ lock = u /\ upd[u].machine.mode = "Overlap" /\ upd[u].candidate = "none"
        /\ \A v \in Updaters \ {u} : upd[v].at # "running"
    BY <1>1, RunsAlone, SMTT(30) DEF Knows
  <1>3. /\ old \in Updater /\ old.epoch = upd[u].epoch /\ old.candidate = "none"
        /\ old.machine.mode = "Overlap" /\ old.at \in {"running", "ending"}
        /\ old.machine.step \in {"Recheck", "Prepare"}
        /\ old.machine.step = "Prepare" => ~Acceptable(record)
    <2>1. CASE Acceptable(record)
      <3>1. answer = "Unchanged"
        BY <2>1
      <3> HIDE DEF answer
      <3> QED
        BY <1>1, <1>2, <3>1, OtherStays DEF IndInv
    <2>2. CASE ~Acceptable(record)
      <3>1. answer = "Done"
        BY <2>2
      <3> HIDE DEF answer
      <3>2. NextStep(upd[u].machine) = "Prepare"
        BY <1>1 DEF NextStep
      <3> QED
        BY <1>1, <1>2, <2>2, <3>1, <3>2, DoneMovesOn DEF IndInv
    <2> QED
      BY <2>1, <2>2
  <1> HIDE DEF old
  <1>4. /\ next \in Updater /\ next.epoch = upd[u].epoch /\ next.candidate = "none"
        /\ next.machine = old.machine /\ next.at = old.at
    BY <1>3 DEF Updater, IndInv, TypeOK
  <1> HIDE DEF next
  <1>5. upd'[u] = next
    BY <1>1 DEF IndInv, TypeOK
  <1>6. Acceptable(record)' <=> Acceptable(record)
    BY <1>1 DEF Acceptable, gen_vars
  <1>7. Knows(u)'
    BY <1>3, <1>4, <1>5, <1>6 DEF Knows
  <1>8. next.machine.mode = "Overlap" /\ next.at # "waiting"
    BY <1>3, <1>4
  <1>9. lock' \in Updaters \union {Nobody}
    BY <1>1, <1>2
  <1> QED
    BY <1>1, <1>2, <1>4, <1>7, <1>8, <1>9, UnmarkedAreEpochs, UpdaterOnly, Zenon

\* A live probe of the candidate, or none yet.
LEMMA VerifyInd == ASSUME IndInv, NEW u \in Updaters, Verify(u) PROVE IndInv'
  <1> DEFINE answer == IF proc[upd[u].epoch] = "serving" THEN "Done" ELSE "Pending"
             next == Answered(u, answer)
  <1>1. /\ upd[u].at = "running" /\ upd[u].machine.step = "Verify"
        /\ upd' = [upd EXCEPT ![u] = next]
        /\ UNCHANGED <<lock, record, counter, gen_vars, history, launches, crashed, unmarked>>
    BY SMTT(30) DEF Verify, At
  <1>2. /\ lock = u /\ upd[u].machine.mode = "Overlap" /\ Knows(u)
        /\ \A v \in Updaters \ {u} : upd[v].at # "running"
    BY <1>1, RunsAlone
  <1>3. NextStep(upd[u].machine) = "Validate"
    BY <1>1 DEF NextStep
  <1>4. answer \in {"Done", "Pending"}
    OBVIOUS
  <1> HIDE DEF answer
  <1>5. /\ next \in Updater /\ next.epoch = upd[u].epoch /\ next.candidate = upd[u].candidate
        /\ next.machine.mode = "Overlap" /\ next.at \in {"running", "ending"}
        /\ next.machine.step \in {"Verify", "Validate"}
    <2>1. CASE answer = "Done"
      BY <1>1, <1>2, <1>3, <2>1, DoneMovesOn DEF IndInv
    <2>2. CASE answer = "Pending"
      BY <1>1, <1>2, <2>2, OtherStays DEF IndInv
    <2> QED
      BY <1>4, <2>1, <2>2
  <1> HIDE DEF next
  <1>6. upd'[u] = next
    BY <1>1, SMTT(30) DEF IndInv, TypeOK
  <1>7. Knows(u)'
    BY <1>1, <1>2, <1>5, <1>6 DEF Knows, Acceptable, gen_vars
  <1>8. next.candidate # "published" /\ next.at # "waiting"
    BY <1>1, <1>2, <1>5 DEF Knows
  <1> QED
    BY <1>1, <1>2, <1>5, <1>7, <1>8, UnmarkedAreEpochs, UpdaterOnly, Zenon

\* Only a candidate that still serves comes to its commit.
LEMMA ValidateInd == ASSUME IndInv, NEW u \in Updaters, Validate(u) PROVE IndInv'
  <1> DEFINE next == Answered(u, "Done")
  <1>1. /\ upd[u].at = "running" /\ upd[u].machine.step = "Validate"
        /\ proc[upd[u].epoch] = "serving"
        /\ upd' = [upd EXCEPT ![u] = next]
        /\ UNCHANGED <<lock, record, counter, gen_vars, history, launches, crashed, unmarked>>
    BY DEF Validate, At
  <1>2. /\ lock = u /\ upd[u].machine.mode = "Overlap" /\ Knows(u)
        /\ \A v \in Updaters \ {u} : upd[v].at # "running"
    BY <1>1, RunsAlone
  <1>3. NextStep(upd[u].machine) = "Commit"
    BY <1>1 DEF NextStep
  <1>4. /\ next \in Updater /\ next.epoch = upd[u].epoch /\ next.candidate = upd[u].candidate
        /\ next.machine.mode = "Overlap" /\ next.at = "running"
        /\ next.machine.step = "Commit"
    BY <1>1, <1>2, <1>3, DoneMovesOn DEF IndInv
  <1> HIDE DEF next
  <1>5. upd'[u] = next
    BY <1>1, SMTT(30) DEF IndInv, TypeOK
  <1>6. Knows(u)'
    BY <1>1, <1>2, <1>4, <1>5 DEF Knows, Proven, Acceptable, gen_vars
  <1> QED
    BY <1>1, <1>2, <1>4, <1>6, UnmarkedAreEpochs, UpdaterOnly, Zenon

\* Older generations retire by themselves; the updater only waits.
LEMMA RetireInd == ASSUME IndInv, NEW u \in Updaters, Retire(u) PROVE IndInv'
  <1> DEFINE answer == IF \E g \in Epochs : g < record /\ Alive(g) THEN "Pending" ELSE "Done"
             next == Answered(u, answer)
  <1>1. /\ upd[u].at = "running" /\ upd[u].machine.step = "Retire"
        /\ upd' = [upd EXCEPT ![u] = next]
        /\ UNCHANGED <<lock, record, counter, gen_vars, history, launches, crashed, unmarked>>
    BY Zenon DEF Retire, At
  <1>2. /\ lock = u /\ upd[u].machine.mode = "Overlap" /\ upd[u].candidate = "selected"
        /\ \A v \in Updaters \ {u} : upd[v].at # "running"
    BY <1>1, RunsAlone, Zenon DEF Knows
  <1>3. NextStep(upd[u].machine) = "Retire"
    BY <1>1 DEF NextStep
  <1>4. answer \in {"Done", "Pending"}
    OBVIOUS
  <1> HIDE DEF answer
  <1>5. /\ next \in Updater /\ next.epoch = upd[u].epoch /\ next.candidate = upd[u].candidate
        /\ next.machine.mode = "Overlap" /\ next.at \in {"running", "ending"}
        /\ next.machine.step = "Retire"
    <2>1. CASE answer = "Done"
      BY <1>1, <1>2, <1>3, <2>1, DoneMovesOn DEF IndInv
    <2>2. CASE answer = "Pending"
      BY <1>1, <1>2, <2>2, OtherStays DEF IndInv
    <2> QED
      BY <1>4, <2>1, <2>2
  <1> HIDE DEF next
  <1>6. upd'[u] = next
    BY <1>1, SMTT(30) DEF IndInv, TypeOK
  <1>7. Knows(u)'
    BY <1>2, <1>5, <1>6 DEF Knows
  <1> QED
    BY <1>1, <1>2, <1>5, <1>7, UnmarkedAreEpochs, UpdaterOnly, Zenon

\* An error, a missed deadline or a dropped future leaves everything to the
\* drops; what was published but not marked is remembered.
LEMMA FailInd == ASSUME IndInv, NEW u \in Updaters, Fail(u) PROVE IndInv'
  <1> DEFINE next == [upd[u] EXCEPT !.at = "ending"]
  <1>1. /\ upd[u].at = "running" /\ upd' = [upd EXCEPT ![u] = next]
        /\ UNCHANGED <<lock, record, counter, gen_vars, history, launches, crashed>>
    BY DEF Fail, Abandon, IndInv, TypeOK
  <1>2. /\ lock = u /\ upd[u] \in Updater /\ upd[u].machine.mode = "Overlap" /\ Knows(u)
        /\ \A v \in Updaters \ {u} : upd[v].at # "running"
    BY <1>1, RunsAlone
  <1>3. /\ next \in Updater /\ next.at = "ending" /\ next.epoch = upd[u].epoch
        /\ next.candidate = upd[u].candidate /\ next.machine = upd[u].machine
    BY <1>2, SMTT(30) DEF Updater
  <1>4. upd[u].candidate = "published" => upd[u].epoch \in Epochs
    BY <1>2 DEF Knows, IndInv, TypeOK
  <1>5. /\ unmarked \subseteq unmarked' /\ unmarked' \subseteq Epochs
        /\ upd[u].candidate = "published" => upd[u].epoch \in unmarked'
    BY <1>4, UnmarkedAreEpochs, Zenon DEF Fail, Abandon
  <1> HIDE DEF next
  <1> QED
    BY <1>1, <1>2, <1>3, <1>5, UpdaterOnly, Zenon

\* The lock is dropped; a disposable candidate may still be there.
LEMMA UnlockInd == ASSUME IndInv, NEW u \in Updaters, Unlock(u) PROVE IndInv'
  <1>1. /\ upd[u].at \in {"ending", "ended"} /\ lock = u /\ lock' = Nobody
        /\ UNCHANGED <<upd, record, counter, gen_vars, history, launches, crashed, unmarked>>
    BY DEF Unlock
  <1>2. upd' = [upd EXCEPT ![u] = upd[u]] /\ upd[u] \in Updater
    BY <1>1 DEF IndInv, TypeOK
  <1>3. upd[u].machine.mode = "Overlap" /\ \A v \in Updaters \ {u} : upd[v].at # "running"
    BY <1>1 DEF IndInv, LockIsHeld
  <1>4. upd[u].at # "running" /\ upd[u].at # "waiting"
    BY <1>1
  <1>5. upd[u].candidate = "published" => upd[u].epoch \in unmarked
    BY <1>4 DEF IndInv, Transactions, Published
  <1> QED
    BY <1>1, <1>2, <1>3, <1>4, <1>5, UnmarkedAreEpochs, UpdaterOnly, Zenon

\* An updater outside a transaction has nothing to know.
LEMMA OutsideIsEmpty ==
    ASSUME NEW at \in {"waiting", "ended", "crashed"}
    PROVE  /\ Outside(at) \in Updater
           /\ Outside(at).at = at /\ Outside(at).epoch = 0
           /\ Outside(at).candidate = "none"
           /\ Outside(at).machine.mode = "Overlap"
  BY HandoffConstants
     DEF Outside, Updater, Handles, NewMachine, Machines, Modes, Steps, Epochs

\* A dead updater leaves its candidate alone; the OS gives its lock back.
LEMMA UpdaterCrashInd == ASSUME IndInv, NEW u \in Updaters, UpdaterCrash(u) PROVE IndInv'
  <1> DEFINE next == Outside("crashed")
  <1>1. /\ upd' = [upd EXCEPT ![u] = next]
        /\ lock' = IF lock = u THEN Nobody ELSE lock
        /\ crashed' = crashed \union {u}
        /\ UNCHANGED <<record, counter, gen_vars, history, launches, unmarked>>
    BY Zenon DEF UpdaterCrash
  <1>2. /\ next \in Updater /\ next.at = "crashed" /\ next.epoch = 0
        /\ next.candidate = "none" /\ next.machine.mode = "Overlap"
    BY OutsideIsEmpty
  <1>3. \A v \in Updaters \ {u} : upd[v].at = "running" => lock' = v
    BY <1>1 DEF IndInv, LockIsHeld
  <1>4. lock' \in Updaters \union {Nobody}
    BY <1>1 DEF IndInv, TypeOK
  <1> HIDE DEF next
  <1> QED
    BY <1>1, <1>2, <1>3, <1>4, UnmarkedAreEpochs, UpdaterOnly, Zenon

\* A candidate that is marked is no longer its updater's to kill.
LEMMA SelectedInd == ASSUME IndInv, NEW u \in Updaters, Selected(u) PROVE IndInv'
  <1> DEFINE old == Answered(u, "Done")
             next == [old EXCEPT !.candidate = "selected"]
  <1>1. /\ upd[u].at = "running" /\ upd[u].machine.step = "Commit"
        /\ upd' = [upd EXCEPT ![u] = next]
        /\ UNCHANGED <<lock, record, counter, gen_vars, history, launches, crashed, unmarked>>
    BY DEF Selected, At
  <1>2. /\ lock = u /\ upd[u].machine.mode = "Overlap"
        /\ \A v \in Updaters \ {u} : upd[v].at # "running"
    BY <1>1, RunsAlone
  <1>3. NextStep(upd[u].machine) = "Retire"
    BY <1>1, <1>2 DEF NextStep
  <1>4. /\ old \in Updater /\ old.epoch = upd[u].epoch /\ old.machine.mode = "Overlap"
        /\ old.at = "running" /\ old.machine.step = "Retire"
    BY <1>1, <1>2, <1>3, DoneMovesOn DEF IndInv
  <1> HIDE DEF old
  <1>5. /\ next \in Updater /\ next.epoch = upd[u].epoch /\ next.candidate = "selected"
        /\ next.machine = old.machine /\ next.at = "running"
    BY <1>4 DEF Updater, Handles
  <1> HIDE DEF next
  <1>6. upd'[u] = next
    BY <1>1 DEF IndInv, TypeOK
  <1>7. Knows(u)'
    BY <1>4, <1>5, <1>6 DEF Knows
  <1>8. next.machine.mode = "Overlap" /\ next.at # "waiting"
    BY <1>4, <1>5
  <1>9. next.candidate # "published"
    BY <1>5
  <1> QED
    BY <1>1, <1>2, <1>5, <1>7, <1>8, <1>9, UnmarkedAreEpochs, UpdaterOnly, Zenon

\* The epoch an updater allocates is new to everybody.
LEMMA PrepareInd == ASSUME IndInv, NEW u \in Updaters, Prepare(u) PROVE IndInv'
  <1> DEFINE e == NextEpoch
             old == Answered(u, "Done")
             next == [old EXCEPT !.epoch = e]
  <1>1. /\ upd[u].at = "running" /\ upd[u].machine.step = "Prepare" /\ e \in Epochs
        /\ counter' = e /\ upd' = [upd EXCEPT ![u] = next]
        /\ UNCHANGED <<lock, record, gen_vars, history, launches, crashed, unmarked>>
    BY DEF Prepare, At
  <1>2. /\ lock = u /\ upd[u].machine.mode = "Overlap" /\ Knows(u)
        /\ \A v \in Updaters \ {u} : upd[v].at # "running"
    BY <1>1, RunsAlone
  <1>3. e \in Nat /\ e > counter /\ e > record
    BY NextEpochIsNew DEF IndInv
  <1>4. counter \in Nat /\ record \in Nat /\ record >= 1 /\ e \in 0..MaxEpoch /\ e > 1
    BY <1>1, <1>3, HandoffConstants DEF IndInv, TypeOK, Epochs
  <1>5. NextStep(upd[u].machine) = "Start"
    BY <1>1, <1>2 DEF NextStep
  <1>6. /\ old \in Updater /\ old.candidate = "none"
        /\ old.machine.mode = "Overlap" /\ old.at = "running" /\ old.machine.step = "Start"
    BY <1>1, <1>2, <1>5, DoneMovesOn DEF IndInv, Knows
  <1> HIDE DEF old, e
  <1>7. /\ next \in Updater /\ next.epoch = e /\ next.candidate = "none"
        /\ next.machine = old.machine /\ next.at = "running"
    BY <1>4, <1>6 DEF Updater
  <1> HIDE DEF next
  <1>8. upd'[u] = next /\ \A v \in Updaters : v # u => upd'[v] = upd[v]
    BY <1>1 DEF IndInv, TypeOK
  <1>9. launches[e] = 0
    BY <1>1, <1>3, <1>4 DEF IndInv, EpochsAreGiven, TypeOK
  <1>10. TypeOK'
    BY <1>1, <1>4, <1>7, <1>8 DEF IndInv, TypeOK, gen_vars
  <1>11. LockIsHeld'
    BY <1>1, <1>2, <1>6, <1>7, <1>8, SMTT(30) DEF IndInv, LockIsHeld
  <1>12. EpochsAreGiven'
    <2>1. \A v \in Updaters : upd[v].epoch \in Nat /\ upd[v].epoch <= counter
      BY UpdaterFields, SMTT(30) DEF IndInv, TypeOK, EpochsAreGiven
    <2>2. \A v \in Updaters : upd'[v].epoch <= counter'
      BY <1>1, <1>3, <1>4, <1>7, <1>8, <2>1, SMTT(30)
    <2>3. \A v, w \in Updaters : v # w /\ upd'[v].epoch = upd'[w].epoch => upd'[v].epoch = 0
      BY <1>3, <1>4, <1>7, <1>8, <2>1, SMTT(30) DEF IndInv, EpochsAreGiven
    <2>4. \A g \in Epochs : launches[g] > 0 => g <= counter'
      BY <1>1, <1>3, <1>4, SMTT(30) DEF IndInv, EpochsAreGiven, Epochs
    <2> QED
      BY <1>1, <2>2, <2>3, <2>4, Zenon DEF IndInv, EpochsAreGiven, gen_vars
  <1>13. SelectionIsKnown'
    BY <1>1 DEF IndInv, SelectionIsKnown, SelectedServes, gen_vars
  <1>14. ProcessesEnd'
    BY <1>1 DEF IndInv, ProcessesEnd, SessionsSurvive, gen_vars
  <1>15. Transactions'
    <2>1. Knows(u)'
      BY <1>1, <1>2, <1>3, <1>6, <1>7, <1>8, <1>9, SMTT(30) DEF Knows, Acceptable, gen_vars
    <2>2. \A v \in Updaters : v # u =>
             /\ upd[v].candidate = "disposable" => Disposable(v)'
             /\ upd[v].candidate = "published" => Published(v)'
             /\ upd[v].at = "waiting" => upd[v].machine = NewMachine("Overlap")
                                           /\ upd[v].candidate = "none"
      BY <1>1, <1>8 DEF IndInv, Transactions, Disposable, Published, gen_vars
    <2> QED
      BY <1>2, <1>7, <1>8, <2>1, <2>2, SMTT(30) DEF Transactions
  <1> QED
    BY <1>10, <1>11, <1>12, <1>13, <1>14, <1>15 DEF IndInv

\* A candidate is launched once, and nobody has selected it.
LEMMA StartInd == ASSUME IndInv, NEW u \in Updaters, Start(u) PROVE IndInv'
  <1> DEFINE e == upd[u].epoch
             old == Answered(u, "Done")
             next == [old EXCEPT !.candidate = "disposable"]
  <1>1. /\ upd[u].at = "running" /\ upd[u].machine.step = "Start"
        /\ proc' = [proc EXCEPT ![e] = "starting"]
        /\ observed' = [observed EXCEPT ![e] = record]
        /\ launches' = [launches EXCEPT ![e] = @ + 1]
        /\ upd' = [upd EXCEPT ![u] = next]
        /\ UNCHANGED <<lock, record, counter, expired, leases, early, cut, history, crashed,
                       unmarked>>
    BY DEF Start, At
  <1>2. /\ lock = u /\ upd[u].machine.mode = "Overlap" /\ Knows(u)
        /\ \A v \in Updaters \ {u} : upd[v].at # "running"
    BY <1>1, RunsAlone
  <1>3. e > record /\ launches[e] = 0 /\ ~Acceptable(record)
    BY <1>1, <1>2 DEF Knows
  <1>4. record \in Epochs /\ record \in Nat /\ e \in Epochs /\ e > 1 /\ e # record
    <2>1. record \in 1..MaxEpoch /\ e \in 0..MaxEpoch
      BY UpdaterFields DEF IndInv, TypeOK, Epochs
    <2> QED
      BY <1>3, <2>1, HandoffConstants DEF Epochs
  <1>5. proc[e] = "none" /\ e \notin history /\ e \notin expired /\ e \notin cut
    BY <1>3, <1>4, Zenon DEF IndInv, EpochsAreGiven
  <1>6. NextStep(upd[u].machine) = "Verify"
    BY <1>1, <1>2 DEF NextStep
  <1>7. /\ old \in Updater /\ old.epoch = e
        /\ old.machine.mode = "Overlap" /\ old.at = "running" /\ old.machine.step = "Verify"
    BY <1>1, <1>2, <1>6, DoneMovesOn DEF IndInv
  <1> HIDE DEF old
  <1>8. /\ next \in Updater /\ next.epoch = e /\ next.candidate = "disposable"
        /\ next.machine = old.machine /\ next.at = "running"
    BY <1>7 DEF Updater, Handles
  <1> HIDE DEF next
  <1>9. upd'[u] = next /\ \A v \in Updaters : v # u => upd'[v] = upd[v]
    BY <1>1 DEF IndInv, TypeOK
  <1>10. \A v \in Updaters : upd'[v].epoch = upd[v].epoch
    BY <1>8, <1>9
  <1> HIDE DEF e
  <1>11. \A g \in Epochs : /\ proc'[g] = IF g = e THEN "starting" ELSE proc[g]
                           /\ observed'[g] = IF g = e THEN record ELSE observed[g]
                           /\ launches'[g] = IF g = e THEN 1 ELSE launches[g]
    BY <1>1, <1>3, <1>4 DEF IndInv, TypeOK
  <1>12. TypeOK'
    BY <1>1, <1>3, <1>4, <1>8, <1>9, SMTT(30) DEF IndInv, TypeOK
  <1>13. LockIsHeld'
    BY <1>1, <1>2, <1>7, <1>8, <1>9 DEF IndInv, LockIsHeld
  <1>14. EpochsAreGiven'
    <2>1. e <= counter
      BY SMTT(30) DEF IndInv, EpochsAreGiven, e
    <2> QED
      BY <1>1, <1>10, <1>11, <2>1 DEF IndInv, EpochsAreGiven
  <1>15. SelectionIsKnown'
    BY <1>1, <1>4, <1>11 DEF IndInv, SelectionIsKnown, SelectedServes
  <1>16. ProcessesEnd'
    BY <1>1, <1>5, <1>11 DEF IndInv, ProcessesEnd, SessionsSurvive
  <1>17. Transactions'
    <2>1. Disposable(u)'
      BY <1>1, <1>4, <1>5, <1>8, <1>9, <1>11, SMTT(30) DEF Disposable
    <2>2. Knows(u)'
      BY <1>1, <1>3, <1>4, <1>7, <1>8, <1>9, <1>11 DEF Knows, Acceptable
    <2>3. ASSUME NEW v \in Updaters, v # u, upd[v].candidate = "disposable"
          PROVE  Disposable(v)'
      <3>1. Disposable(v)
        BY <2>3, SMTT(30) DEF IndInv, Transactions
      <3>2. upd[v].epoch # e
        BY <2>3, <3>1, <1>4 DEF IndInv, EpochsAreGiven, Disposable, e
      <3>3. upd[v].epoch \in Epochs
        <4>1. upd[v].epoch \in 0..MaxEpoch
          BY UpdaterFields, SMTT(30) DEF IndInv, TypeOK
        <4> QED
          BY <3>1, <4>1, HandoffConstants DEF Disposable, Epochs
      <3> QED
        BY <1>1, <1>9, <1>11, <2>3, <3>1, <3>2, <3>3 DEF Disposable
    <2>4. \A v \in Updaters : v # u =>
             /\ upd[v].candidate = "published" => Published(v)'
             /\ upd[v].at = "waiting" => upd[v].machine = NewMachine("Overlap")
                                           /\ upd[v].candidate = "none"
      BY <1>1, <1>9 DEF IndInv, Transactions, Published
    <2> QED
      BY <1>2, <1>8, <1>9, <2>1, <2>2, <2>3, <2>4 DEF Transactions
  <1> QED
    BY <1>12, <1>13, <1>14, <1>15, <1>16, <1>17 DEF IndInv

\* A commit publishes a proven candidate that is newer.
LEMMA PublishInd == ASSUME IndInv, NEW u \in Updaters, Publish(u) PROVE IndInv'
  <1> DEFINE e == upd[u].epoch
             next == [upd[u] EXCEPT !.candidate = "published"]
  <1>1. /\ At(u, "Commit") /\ upd[u].at = "running" /\ upd[u].machine.step = "Commit"
        /\ upd[u].candidate = "disposable"
        /\ record' = e /\ history' = history \union {e}
        /\ upd' = [upd EXCEPT ![u] = next]
        /\ UNCHANGED <<lock, counter, gen_vars, launches, crashed, unmarked>>
    BY DEF Publish, At, IndInv, TypeOK
  <1>2. /\ lock = u /\ upd[u] \in Updater /\ upd[u].machine.mode = "Overlap" /\ Knows(u)
        /\ \A v \in Updaters \ {u} : upd[v].at # "running"
    BY <1>1, RunsAlone
  <1>3. /\ e \in Epochs /\ e > record /\ (e \in expired => e \in early)
        /\ Proven(u)
    BY <1>1, <1>2, CommitterKnows DEF Knows
  <1>4. e > 1 /\ launches[e] = 1 /\ e \notin cut
    BY <1>1 DEF IndInv, Transactions, Disposable
  <1>5. /\ next \in Updater /\ next.epoch = e /\ next.candidate = "published"
        /\ next.machine = upd[u].machine /\ next.at = "running"
    BY <1>1, <1>2 DEF Updater, Handles
  <1> HIDE DEF next
  <1>6. upd'[u] = next /\ \A v \in Updaters : v # u => upd'[v] = upd[v]
    BY <1>1 DEF IndInv, TypeOK
  <1>7. \A v \in Updaters : upd'[v].epoch = upd[v].epoch
    BY <1>5, <1>6, SMTT(30)
  <1>8. TypeOK'
    BY <1>1, <1>3, <1>5, <1>6, SMTT(30) DEF IndInv, TypeOK, gen_vars
  <1>9. LockIsHeld'
    BY <1>1, <1>2, <1>5, <1>6, SMTT(30) DEF IndInv, LockIsHeld
  <1>10. EpochsAreGiven'
    <2>1. counter' = counter /\ launches' = launches /\ proc' = proc /\ expired' = expired
          /\ cut' = cut
      BY <1>1 DEF gen_vars
    <2>2. \A g \in Epochs : launches[g] = 0 => (g \in history' <=> g \in history)
      BY <1>1, <1>4
    <2>3. EpochsAreGiven
      BY SMTT(30) DEF IndInv
    <2> HIDE DEF e
    <2> QED
      BY <1>7, <2>1, <2>2, <2>3 DEF EpochsAreGiven
  <1>11. SelectionIsKnown'
    <2>1. ASSUME NEW g \in Epochs PROVE observed[g] <= e
      <3>1. observed[g] <= record /\ observed[g] \in Nat /\ record \in Nat /\ e \in Nat
        <4>1. observed[g] \in Epochs /\ record \in Epochs /\ observed[g] <= record
          BY DEF IndInv, TypeOK, SelectionIsKnown
        <4> QED
          BY <1>3, <4>1, HandoffConstants DEF Epochs
      <3> QED
        BY <1>3, <3>1, SMTT(30)
    <2> QED
      BY <1>1, <1>3, <2>1 DEF SelectionIsKnown, SelectedServes, Proven, gen_vars
  <1>12. ProcessesEnd'
    BY <1>1, <1>4, Zenon DEF IndInv, ProcessesEnd, SessionsSurvive, gen_vars
  <1>13. Transactions'
    <2>1. Knows(u)'
      BY <1>1, <1>5, <1>6, Zenon DEF Knows
    <2>2. Published(u)'
      BY <1>1, <1>4, <1>5, <1>6, SMTT(30) DEF Published
    <2>3. ASSUME NEW v \in Updaters, v # u, upd[v].candidate = "disposable"
          PROVE  Disposable(v)'
      <3>1. Disposable(v)
        BY <2>3 DEF IndInv, Transactions
      <3>2. upd[v].epoch # e
        BY <1>4, <2>3, SMTT(30) DEF IndInv, EpochsAreGiven
      <3>3. /\ expired' = expired /\ early' = early /\ cut' = cut /\ launches' = launches
            /\ history' = history \union {e}
        BY <1>1, SMTT(30) DEF gen_vars
      <3> QED
        BY <1>6, <2>3, <3>1, <3>2, <3>3 DEF Disposable
    <2>4. \A v \in Updaters : v # u =>
             /\ upd[v].candidate = "published" => Published(v)'
             /\ upd[v].at = "waiting" => upd[v].machine = NewMachine("Overlap")
                                           /\ upd[v].candidate = "none"
      BY <1>1, <1>6 DEF IndInv, Transactions, Published
    <2> QED
      BY <1>2, <1>5, <1>6, <2>1, <2>2, <2>3, <2>4 DEF Transactions
  <1> QED
    BY <1>8, <1>9, <1>10, <1>11, <1>12, <1>13 DEF IndInv

\* What a drop kills was never selected, or its Commit was given up; and it is
\* not the candidate of the updater that runs now.
LEMMA DropCandidateInd ==
    ASSUME IndInv, NEW u \in Updaters, DropCandidate(u) PROVE IndInv'
  <1> DEFINE e == upd[u].epoch
             next == Outside("ended")
  <1>1. /\ upd[u].at = "ending"
        /\ upd' = [upd EXCEPT ![u] = next]
        /\ UNCHANGED <<lock, record, counter, observed, expired, early, history, launches,
                       crashed, unmarked>>
    BY Zenon DEF DropCandidate
  <1>2. upd[u] \in Updater
    BY DEF IndInv, TypeOK
  <1>3. /\ next \in Updater /\ next.at = "ended" /\ next.epoch = 0
        /\ next.candidate = "none" /\ next.machine.mode = "Overlap"
    BY OutsideIsEmpty
  <1> HIDE DEF next
  <1>4. CASE upd[u].candidate \notin {"disposable", "published"}
    <2>1. proc' = proc /\ leases' = leases /\ cut' = cut
      BY <1>4 DEF DropCandidate
    <2>2. \A v \in Updaters \ {u} : upd[v].at = "running" => lock = v
      BY DEF IndInv, LockIsHeld
    <2>3. lock \in Updaters \union {Nobody}
      BY DEF IndInv, TypeOK
    <2> QED
      BY <1>1, <1>3, <2>1, <2>2, <2>3, UnmarkedAreEpochs, UpdaterOnly, Zenon DEF gen_vars
  <1>5. CASE upd[u].candidate \in {"disposable", "published"}
    <2>1. Ends(e)
      BY <1>5 DEF DropCandidate
    <2>2. e > 1 /\ (e \notin history \/ e \in unmarked)
      BY <1>1, <1>5 DEF IndInv, Transactions, Disposable, Published
    <2>3. e \in Epochs
      <3>1. e \in 0..MaxEpoch
        BY <1>2, UpdaterFields
      <3> QED
        BY <2>2, <3>1, HandoffConstants DEF Epochs
    <2>4. record \in Epochs /\ (e = record => e \in unmarked)
      BY <2>2 DEF IndInv, TypeOK, SelectionIsKnown
    <2>5. upd'[u] = next /\ \A v \in Updaters : v # u => upd'[v] = upd[v]
      BY <1>1, SMTT(30) DEF IndInv, TypeOK
    <2>6. \A v \in Updaters : upd'[v].epoch \in {0, upd[v].epoch}
      BY <1>3, <2>5
    <2>7. \A v \in Updaters : v # u => upd[v].epoch # e
      BY <2>2 DEF IndInv, EpochsAreGiven
    <2>15. launches[e] # 0
      <3>1. CASE upd[u].candidate = "disposable"
        BY <3>1, SMTT(30) DEF IndInv, Transactions, Disposable
      <3>2. CASE upd[u].candidate = "published"
        BY <2>2, <2>3, <3>2 DEF IndInv, Transactions, Published, EpochsAreGiven
      <3> QED
        BY <1>5, <3>1, <3>2
    <2> HIDE DEF e
    <2>8. \A g \in Epochs : /\ proc'[g] = IF g = e THEN "stopped" ELSE proc[g]
                            /\ leases'[g] = IF g = e THEN 0 ELSE leases[g]
      BY <2>1, <2>3 DEF IndInv, TypeOK, Ends, Gone
    <2>16. cut \subseteq cut' /\ cut' \subseteq cut \union {e}
      BY <2>1 DEF Ends
    <2>9. TypeOK'
      <3>1. 0 \in 0..MaxLeases
        BY HandoffConstants
      <3>2. upd' \in [Updaters -> Updater]
        BY <1>1, <1>3, Zenon DEF IndInv, TypeOK
      <3>3. proc' \in [Epochs -> {"none", "starting", "serving", "stopped"}]
            /\ leases' \in [Epochs -> 0..MaxLeases]
        BY <2>1, <3>1, Zenon DEF IndInv, TypeOK, Ends, Gone
      <3> QED
        BY <1>1, <2>3, <2>16, <3>2, <3>3 DEF IndInv, TypeOK
    <2>10. LockIsHeld'
      BY <1>1, <1>3, <2>5 DEF IndInv, LockIsHeld
    <2>11. EpochsAreGiven'
      <3>1. counter \in Nat
        BY HandoffConstants DEF IndInv, TypeOK
      <3> QED
        BY <1>1, <2>6, <2>8, <2>15, <2>16, <3>1 DEF IndInv, EpochsAreGiven
    <2>12. SelectionIsKnown'
      BY <1>1, <2>4, <2>8 DEF IndInv, SelectionIsKnown, SelectedServes
    <2>13. ProcessesEnd'
      BY <1>1, <2>2, <2>8, <2>16, SMTT(30) DEF IndInv, ProcessesEnd, SessionsSurvive
    <2>14. Transactions'
      <3>1. ASSUME NEW v \in Updaters, v # u, upd[v].at = "running" PROVE Knows(v)'
        <4>1. Knows(v)
          BY <3>1 DEF IndInv, Transactions
        <4>2. Acceptable(record)' => Acceptable(record)
          BY <1>1, <2>4, <2>8 DEF Acceptable
        <4>3. upd[v].machine.step = "Commit" /\ upd[v].candidate = "disposable" =>
                 upd[v].epoch \in Epochs /\ upd[v].epoch # e
          BY <2>7, <3>1, CommitterKnows DEF At
        <4>4. upd[v].machine.step = "Commit" /\ upd[v].candidate = "disposable" /\ Proven(v)
                 => Proven(v)'
          BY <1>1, <2>5, <2>8, <3>1, <4>3 DEF Proven
        <4>5. upd'[v] = upd[v]
          BY <2>5, <3>1
        <4> QED
          BY <1>1, <4>1, <4>2, <4>4, <4>5, Zenon DEF Knows
      <3>2. \A v \in Updaters : v # u =>
               /\ upd[v].candidate = "disposable" => Disposable(v)'
               /\ upd[v].candidate = "published" => Published(v)'
               /\ upd[v].at = "waiting" => upd[v].machine = NewMachine("Overlap")
                                             /\ upd[v].candidate = "none"
        BY <1>1, <2>5, <2>7, <2>16 DEF IndInv, Transactions, Disposable, Published
      <3> QED
        BY <1>3, <2>5, <3>1, <3>2, SMTT(30) DEF Transactions
    <2> QED
      BY <2>9, <2>10, <2>11, <2>12, <2>13, <2>14 DEF IndInv
  <1> QED
    BY <1>4, <1>5

\* Every step keeps the invariant.
LEMMA NextInd == IndInv /\ [Next]_vars => IndInv'
  <1> SUFFICES ASSUME IndInv, [Next]_vars PROVE IndInv'
    OBVIOUS
  <1>1. ASSUME NEW u \in Updaters, Step(u) PROVE IndInv'
    BY <1>1, RecheckInd, PrepareInd, StartInd, VerifyInd, ValidateInd, PublishInd, SelectedInd,
       RetireInd, FailInd DEF Step
  <1>2. ASSUME NEW u \in Updaters,
               Acquire(u) \/ Unlock(u) \/ DropCandidate(u) \/ UpdaterCrash(u)
        PROVE  IndInv'
    BY <1>2, AcquireInd, UnlockInd, DropCandidateInd, UpdaterCrashInd
  <1>3. ASSUME NEW g \in Epochs,
               \/ BecomeReady(g) \/ Refresh(g) \/ Expire(g) \/ RetireAndExit(g)
               \/ Admit(g) \/ Release(g) \/ GenerationCrash(g)
        PROVE  IndInv'
    BY SMTT(30), <1>3, BecomeReadyInd, RefreshInd, ExpireInd, RetireAndExitInd, AdmitInd,
       ReleaseInd,
       GenerationCrashInd
  <1>4. CASE UNCHANGED vars
    BY <1>4, Zenon DEF vars, IndInv, TypeOK, LockIsHeld, EpochsAreGiven, SelectionIsKnown,
       SelectedServes, ProcessesEnd, SessionsSurvive, Transactions, Disposable, Published,
       Knows, Proven, Acceptable
  <1> QED
    BY <1>1, <1>2, <1>3, <1>4 DEF Next

\* The invariant holds throughout.
LEMMA Inductive == Spec => []IndInv
  BY InitInd, NextInd, PTL DEF Spec

\* For any number of updaters and crashes an epoch names one process for ever:
\* allocate never gives one again, and a candidate is launched once.
THEOREM EpochsCorrect == Spec => []EpochsAreUnique
  <1>1. IndInv => EpochsAreUnique
    BY DEF IndInv, EpochsAreGiven, EpochsAreUnique, EpochNamesOneProcess
  <1> QED
    BY <1>1, Inductive, PTL

\* No updater, failed, dead or late, and no retirement cuts anybody off, in any
\* order of the steps of any number of processes: the selected generation serves,
\* and nothing ends a generation that was ever selected under its sessions, but
\* for its own death, a staging lifetime that passed before it had observed its
\* selection, and a Commit given up before Candidate::selected().
THEOREM HandoffCorrect == Spec => []NobodyIsCutOff
  <1>1. IndInv => NobodyIsCutOff
    BY DEF IndInv, SelectionIsKnown, ProcessesEnd, NobodyIsCutOff
  <1> QED
    BY <1>1, Inductive, PTL

\* A selection is only ever replaced by a newer one, and only while it does not
\* serve what the updaters want: the recheck under the lock holds until the
\* publication.
THEOREM ReplacementsCorrect == Spec => OnlyNeededReplacements
  <1>1. IndInv /\ [Next]_vars =>
          [record' # record => record' > record /\ ~Acceptable(record)]_vars
    <2> SUFFICES ASSUME IndInv, Next, record' # record
                 PROVE  record' > record /\ ~Acceptable(record)
      OBVIOUS
    <2>1. PICK u \in Updaters : Publish(u)
      BY Zenon
         DEF Next, Step, Acquire, Recheck, Prepare, Start, Verify, Validate, Selected, Retire,
         Fail, Abandon, Unlock, DropCandidate, UpdaterCrash, BecomeReady, Refresh, Expire,
         RetireAndExit,
         Admit, Release, GenerationCrash
    <2>2. At(u, "Commit") /\ upd[u].candidate = "disposable" /\ record' = upd[u].epoch
      BY <2>1 DEF Publish
    <2>3. Knows(u)
      BY <2>2, RunsAlone DEF At
    <2> QED
      BY <2>2, <2>3 DEF At, Knows
  <1> QED
    BY <1>1, Inductive, PTL DEF Spec, OnlyNeededReplacements

-----------------------------------------------------------------------------
(* A lock file: ProcessLock.                                                 *)

LockTypes ==
    /\ system \in {"unix", "windows"} /\ entry \in {"missing", "own", "other", "link"}
    /\ doing \in [Processes -> {"idle", "open", "check", "pause", "sleep", "probes", "holds",
                                "done"}]
    /\ wants \in [Processes -> Calls]
    /\ left \in [Processes -> Nat] /\ pause \in [Processes -> Nat] /\ nap \in [Processes -> Nat]
    /\ gave \in [Processes -> {"nothing", "free", "held", "none", "error", "released", "crashed"}]
    /\ held_then \in [Processes -> BOOLEAN]

\* The lock is held by at most one: whoever has a guard or probes, or the child of
\* a holder that crashed.
LockHasOneHolder ==
    /\ copied \subseteq Processes
    /\ holder \subseteq Processes \union {"copy"}
    /\ \A x, y \in holder : x = y
    /\ \A p \in Processes : p \in holder <=> doing[p] \in {"holds", "probes"}
    /\ "copy" \in holder => \E p \in copied : gave[p] = "crashed"

\* What a call knows at each place: it found the lock held before it paused, and a
\* private lock was opened on a file of this user's.
LockKnows(p) ==
    /\ gave[p] # "nothing" => doing[p] = "done"
    /\ doing[p] \in {"idle", "open", "probes"} => ~held_then[p]
    /\ doing[p] \in {"pause", "sleep"} => held_then[p]
    /\ gave[p] = "free" => ~held_then[p]
    /\ gave[p] \in {"none", "held"} => held_then[p] /\ (wants[p] \in Bounded => left[p] = 0)
    /\ doing[p] = "sleep" /\ wants[p] \in Bounded => nap[p] <= left[p]
    /\ doing[p] \in {"check", "pause", "sleep", "holds"} /\ wants[p] = "acquire_private_until" =>
          entry = "own" \/ (entry = "other" /\ system = "windows")

LockInv == LockTypes /\ LockHasOneHolder /\ \A p \in Processes : LockKnows(p)

\* Nobody has the lock at first.
LEMMA LockStarts == LockInit => LockInv
  BY LockConstants
     DEF LockInit, LockInv, LockTypes, LockHasOneHolder, LockKnows, Calls, Bounded

\* What a call reports follows from what it knows.
LEMMA LockPromise == LockInv => LockIsTrue
  <1> SUFFICES ASSUME LockInv PROVE LockIsTrue
    OBVIOUS
  <1>1. {p \in Processes : doing[p] \in {"holds", "probes"}} = holder \ {"copy"}
    BY LockConstants DEF LockInv, LockHasOneHolder
  <1>2. "copy" \in holder => \E p \in copied : gave[p] = "crashed"
    BY DEF LockInv, LockHasOneHolder
  <1>3. \A p \in Processes : LockKnows(p)
    BY DEF LockInv
  <1> QED
    BY <1>1, <1>2, <1>3 DEF LockKnows, LockIsTrue

\* Only the call of p takes this step.
OnlyOf(p) ==
    /\ \A q \in Processes \ {p} :
          /\ doing'[q] = doing[q] /\ wants'[q] = wants[q] /\ left'[q] = left[q]
          /\ nap'[q] = nap[q] /\ gave'[q] = gave[q] /\ held_then'[q] = held_then[q]
    /\ entry' \in {entry, Opened}
    /\ UNCHANGED <<system, copied>>

\* The others' calls know what they knew: a step opens at most a file that was
\* missing.
LEMMA OthersKnow ==
    ASSUME LockInv, NEW p \in Processes, OnlyOf(p)
    PROVE  \A q \in Processes \ {p} : LockKnows(q)'
  BY Zenon DEF OnlyOf, LockInv, LockTypes, LockKnows, Opened

\* A step of one call that neither takes nor gives the lock.
LEMMA CallKeeps ==
    ASSUME LockInv, NEW p \in Processes, OnlyOf(p), LockTypes', LockKnows(p)',
           UNCHANGED holder,
           doing[p] \notin {"holds", "probes", "done"}, doing'[p] \notin {"holds", "probes"}
    PROVE  LockInv'
  <1>1. LockHasOneHolder'
    BY DEF LockInv, LockTypes, LockHasOneHolder, LockKnows, OnlyOf
  <1> QED
    BY <1>1, OthersKnow, Zenon DEF LockInv

\* Opening: a private lock is opened on a file of this user's.
LEMMA OpenKeeps ==
    ASSUME LockInv, NEW p \in Processes,
           \/ open_or_create(p) \/ open_existing(p) \/ open_private(p)
           \/ \E c \in Calls, allowance \in Allowances : Call(p, c, allowance)
    PROVE  LockInv'
  <1> USE DEF To, Give, Return, Same, Waiting
  <1>1. LockTypes /\ LockKnows(p)
    BY DEF LockInv
  <1>2. ASSUME NEW c \in Calls, NEW allowance \in Allowances, Call(p, c, allowance)
        PROVE  LockInv'
    <2>1. LockTypes'
      BY <1>1, <1>2, LockConstants DEF Call, LockTypes
    <2>2. LockKnows(p)' /\ OnlyOf(p) /\ UNCHANGED holder
      BY <1>1, <1>2, SMTT(30) DEF Call, LockTypes, LockKnows, OnlyOf
    <2> QED
      BY <1>1, <1>2, <2>1, <2>2, CallKeeps DEF Call, LockTypes
  <1>3. ASSUME open_or_create(p) \/ open_existing(p)
        PROVE  LockInv'
    <2>1. LockTypes'
      BY <1>1, <1>3 DEF open_or_create, open_existing, LockTypes, Opened
    <2>2. OnlyOf(p) /\ UNCHANGED holder
      BY <1>1, <1>3 DEF open_or_create, open_existing, LockTypes, OnlyOf
    <2>3. LockKnows(p)'
      BY <1>1, <1>3, Zenon
         DEF open_or_create, open_existing, LockTypes, LockKnows, Probes,
             Bounded
    <2> QED
      BY <1>1, <1>3, <2>1, <2>2, <2>3, CallKeeps
         DEF open_or_create, open_existing, LockTypes
  <1>4. ASSUME open_private(p)
        PROVE  LockInv'
    <2>1. LockTypes'
      BY <1>1, <1>4 DEF open_private, LockTypes, Opened
    <2>2. OnlyOf(p) /\ UNCHANGED holder
      BY <1>1, <1>4 DEF open_private, LockTypes, OnlyOf
    <2>3. LockKnows(p)'
      BY <1>1, <1>4 DEF open_private, open_private_unix, open_private_windows,
         Opened, LockTypes, LockKnows
    <2> QED
      BY <1>1, <1>4, <2>1, <2>2, <2>3, CallKeeps DEF open_private, LockTypes
  <1> QED
    BY <1>2, <1>3, <1>4

\* The lesser of two times: no more than the first.
LEMMA LeastIsBounded ==
    ASSUME NEW a \in Nat, NEW b \in Nat
    PROVE  Least(a, b) <= a
  BY SMTT(30) DEF Least

\* Waiting: a pause follows a look that found the lock held, and ends with the
\* time there is.
LEMMA WaitKeeps ==
    ASSUME LockInv, NEW p \in Processes,
           WouldBlock(p) \/ LockFails(p) \/ next_pause(p) \/ Wake(p)
    PROVE  LockInv'
  <1> USE DEF To, Give, Return, Same, Waiting, GiveUp
  <1>1. LockTypes /\ LockKnows(p)
    BY DEF LockInv
  <1>2. CASE WouldBlock(p)
    <2>1. LockTypes' /\ OnlyOf(p) /\ UNCHANGED holder
      BY <1>1, <1>2 DEF WouldBlock, LockTypes, OnlyOf
    <2>2. LockKnows(p)'
      BY <1>1, <1>2 DEF WouldBlock, LockTypes, LockKnows, Bounded
    <2> QED
      BY <1>1, <1>2, <2>1, <2>2, CallKeeps DEF WouldBlock, LockTypes
  <1>3. CASE LockFails(p)
    <2>1. LockTypes' /\ OnlyOf(p) /\ UNCHANGED holder
      BY <1>1, <1>3 DEF LockFails, LockTypes, OnlyOf
    <2>2. LockKnows(p)'
      BY <1>1, <1>3, SMTT(30) DEF LockFails, LockTypes, LockKnows
    <2> QED
      BY <1>1, <1>3, <2>1, <2>2, CallKeeps DEF LockFails, LockTypes
  <1>4. CASE next_pause(p)
    <2>1. LockTypes' /\ OnlyOf(p) /\ UNCHANGED holder
      BY <1>1, <1>4, LockConstants, SMTT(30)
         DEF next_pause, LockTypes, OnlyOf, Nap, Least
    <2>2. LockKnows(p)'
      <3>1. CASE wants[p] \in Bounded /\ left[p] = 0
        BY <1>1, <1>4, <3>1, SMTT(30) DEF next_pause, LockTypes, LockKnows
      <3>2. CASE ~(wants[p] \in Bounded /\ left[p] = 0)
        <4>1. nap'[p] = Nap(p) /\ doing'[p] = "sleep" /\ doing[p] = "pause"
              /\ UNCHANGED <<system, entry, wants, left, gave, held_then>>
          BY <1>1, <1>4, <3>2 DEF next_pause, LockTypes
        <4>2. wants[p] \in Bounded => nap'[p] <= left[p]
          <5>1. left[p] \in Nat /\ pause[p] \in Nat
            BY <1>1 DEF LockTypes
          <5>2. wants[p] \in Bounded => Nap(p) = Least(left[p], pause[p])
            BY Zenon DEF Nap
          <5>3. Least(left[p], pause[p]) <= left[p]
            BY <5>1, LeastIsBounded, Zenon
          <5> QED
            BY <4>1, <5>2, <5>3, Zenon
        <4> QED
          BY <1>1, <4>1, <4>2 DEF LockKnows
      <3> QED
        BY <3>1, <3>2, Zenon
    <2> QED
      BY <1>1, <1>4, <2>1, <2>2, CallKeeps, SMTT(30) DEF next_pause, LockTypes
  <1>5. CASE Wake(p)
    <2>1. LockTypes' /\ OnlyOf(p) /\ UNCHANGED holder
      BY <1>1, <1>5, SMTT(30) DEF Wake, LockTypes, OnlyOf
    <2>2. LockKnows(p)'
      BY <1>1, <1>5 DEF Wake, LockTypes, LockKnows
    <2> QED
      BY <1>1, <1>5, <2>1, <2>2, CallKeeps DEF Wake, LockTypes
  <1> QED
    BY <1>2, <1>3, <1>4, <1>5

\* Holding: the lock is taken when it is free, and given back, or left to a copy
\* when its holder crashes.
LEMMA HoldKeeps ==
    ASSUME LockInv, NEW p \in Processes,
           locked(p) \/ LetGo(p) \/ Copy(p) \/ Drop(p) \/ Crash(p)
    PROVE  LockInv'
  <1> USE DEF To, Give, Return, Same, Waiting
  <1>1. LockTypes /\ LockKnows(p) /\ LockHasOneHolder
    BY DEF LockInv
  <1>2. CASE locked(p)
    <2>1. LockTypes' /\ OnlyOf(p)
      BY <1>1, <1>2, SMTT(30) DEF locked, LockTypes, OnlyOf
    <2>2. LockKnows(p)'
      BY <1>1, <1>2 DEF locked, LockTypes, LockKnows
    <2>3. LockHasOneHolder'
      BY <1>1, <1>2, LockConstants, SMTT(30) DEF locked, LockTypes, LockHasOneHolder
    <2> QED
      BY <2>1, <2>2, <2>3, OthersKnow DEF LockInv
  <1>3. CASE LetGo(p) \/ Drop(p)
    <2>1. LockTypes' /\ OnlyOf(p)
      BY <1>1, <1>3 DEF LetGo, Drop, LockTypes, OnlyOf
    <2>2. LockKnows(p)'
      BY <1>1, <1>3, Zenon DEF LetGo, Drop, LockTypes, LockKnows
    <2>3. holder' = {}
      BY <1>1, <1>3 DEF LetGo, Drop, Unlocked, LockHasOneHolder
    <2>4. p \in holder /\ doing'[p] = "done"
      <3>1. doing[p] \in {"holds", "probes"} /\ doing' = [doing EXCEPT ![p] = "done"]
        BY <1>3 DEF LetGo, Drop, Return
      <3> QED
        BY <1>1, <3>1 DEF LockTypes, LockHasOneHolder
    <2>5. \A q \in Processes : doing'[q] \notin {"holds", "probes"}
      BY <1>1, <2>1, <2>4, Zenon DEF OnlyOf, LockHasOneHolder
    <2>6. LockHasOneHolder'
      BY <1>1, <2>1, <2>3, <2>5, Zenon DEF OnlyOf, LockHasOneHolder
    <2> QED
      BY <2>1, <2>2, <2>6, OthersKnow DEF LockInv
  <1>4. CASE Copy(p)
    <2>1. UNCHANGED <<system, entry, holder, doing, wants, left, pause, nap, gave, held_then>>
          /\ copied' = copied \union {p}
      BY <1>4 DEF Copy
    <2> QED
      <3>1. LockTypes' /\ \A q \in Processes : LockKnows(q)'
        BY <2>1, Zenon DEF LockInv, LockTypes, LockKnows
      <3>2. LockHasOneHolder'
        BY <2>1, Zenon DEF LockInv, LockHasOneHolder
      <3> QED
        BY <3>1, <3>2 DEF LockInv
  <1>5. CASE Crash(p)
    <2>1. LockTypes' /\ OnlyOf(p)
      BY <1>1, <1>5, SMTT(30) DEF Crash, LockTypes, OnlyOf
    <2>2. LockKnows(p)'
      BY <1>1, <1>5 DEF Crash, LockTypes, LockKnows
    <2>3. gave'[p] = "crashed" /\ doing'[p] = "done" /\ doing[p] # "done"
      BY <1>1, <1>5, SMTT(30) DEF Crash, LockTypes
    <2>4. ASSUME p \notin holder PROVE LockHasOneHolder'
      BY <1>1, <1>5, <2>1, <2>3, <2>4 DEF Crash, OnlyOf, LockTypes, LockHasOneHolder
    <2>5. ASSUME p \in holder PROVE LockHasOneHolder'
      BY <1>1, <1>5, <2>1, <2>3, <2>5, LockConstants
         DEF Crash, OnlyOf, LockTypes, LockHasOneHolder
    <2>6. LockHasOneHolder' => LockInv'
      BY <2>1, <2>2, OthersKnow DEF LockInv
    <2> QED
      BY <2>4, <2>5, <2>6
  <1> QED
    BY <1>2, <1>3, <1>4, <1>5

\* Every step at the lock file keeps the invariant.
LEMMA LockStep ==
    ASSUME LockInv, [LockNext]_kvars
    PROVE  LockInv'
  <1>1. CASE CopyCloses
    <2>1. /\ UNCHANGED <<system, entry, copied, doing, wants, left, pause, nap, gave, held_then>>
          /\ holder = {"copy"} /\ holder' = {}
      BY <1>1 DEF CopyCloses, Waiting
    <2> QED
      BY <2>1, LockConstants DEF LockInv, LockTypes, LockHasOneHolder, LockKnows
  <1>2. CASE Tick
    <2>1. /\ UNCHANGED <<system, entry, holder, copied, doing, wants, pause, gave, held_then>>
          /\ left' = [p \in Processes |-> IF left[p] > 0 THEN left[p] - 1 ELSE 0]
          /\ nap' = [p \in Processes |-> IF nap[p] > 0 THEN nap[p] - 1 ELSE 0]
      BY <1>2 DEF Tick
    <2>2. LockTypes' /\ LockHasOneHolder'
      BY <2>1 DEF LockInv, LockTypes, LockHasOneHolder
    <2>3. \A p \in Processes : LockKnows(p)'
      BY <2>1, SMTT(30) DEF LockInv, LockTypes, LockKnows
    <2> QED
      BY <2>2, <2>3, SMTT(30) DEF LockInv
  <1>3. CASE UNCHANGED kvars
    BY <1>3 DEF kvars, LockInv, LockTypes, LockHasOneHolder, LockKnows
  <1> QED
    BY <1>1, <1>2, <1>3, OpenKeeps, WaitKeeps, HoldKeeps, SMTT(30) DEF LockNext, Proceed

\* However many processes open, probe, wait for and drop a lock file, and whenever
\* one of them crashes: one process holds it, nobody sleeps past a deadline, and
\* what a call reports was so within it (ProcessLock, poll, open_private).
THEOREM LockCorrect == LockSpec => []LockIsTrue
  BY LockStarts, LockStep, LockPromise, PTL DEF LockSpec

=============================================================================

----------------------------- MODULE Outstanding -----------------------------
(***************************************************************************)
(* Requests sent to the peer whose replies have not yet reached the        *)
(* client: Outstanding of src/transport.rs.                                *)
(*                                                                         *)
(* Critical sections of the mutex are single steps.  A thread in           *)
(* wait_settled blocks on the condition variable; notify_all marks every   *)
(* blocked thread as woken, and a woken thread looks again.                *)
(*                                                                         *)
(* External: the relay around it.  A peer connection starts with an epoch  *)
(* and answers the requests that were sent in it, in any order, also after *)
(* the relay has given it up; each reply is flushed to the client before   *)
(* it is settled.  `owed`, `inflight` and `replied` follow those requests. *)
(***************************************************************************)
EXTENDS Integers, FiniteSets

CONSTANTS
    Keys,           \* request keys; a client may use one again
    Capacity,       \* capacity of the set
    Waiters,        \* threads that may call wait_settled
    Failers,        \* Failing guards
    Movers,         \* Transition guards
    MaxRequests,    \* bound: requests ever sent
    MaxEpoch        \* bound: times the requests are failed or cleared

ASSUME OutstandingConstants ==
    /\ Capacity \in Nat
    /\ IsFiniteSet(Waiters)
    /\ IsFiniteSet(Failers)
    /\ IsFiniteSet(Movers)
    /\ MaxRequests \in Nat
    /\ MaxEpoch \in Nat

VARIABLES
    keys,           \* OutstandingState.keys: requests in flight of each key
    tracked,
    epoch,
    overflowed,
    failing,
    transitions,
    waiters,
    thread,         \* where each waiter is
    reporting,      \* Failing guards alive
    moving,         \* Transition guards alive
    owed,           \* requests of this epoch the client has no reply to
    inflight,       \* requests a connection of each epoch may yet answer
    replied,        \* replies flushed to the client and not yet settled
    sent            \* requests sent so far

set_vars == <<keys, tracked, epoch, overflowed, failing, transitions, waiters>>
relay_vars == <<reporting, moving, owed, inflight, replied, sent>>
vars == <<keys, tracked, epoch, overflowed, failing, transitions, waiters, thread,
          reporting, moving, owed, inflight, replied, sent>>

EpochNumbers == 0..MaxEpoch

None == [k \in Keys |-> 0]

TypeOK ==
    /\ keys \in [Keys -> Nat]
    /\ tracked \in Nat
    /\ epoch \in EpochNumbers
    /\ overflowed \in BOOLEAN
    /\ failing \in Nat
    /\ transitions \in Nat
    /\ waiters \in Nat
    /\ thread \in [Waiters -> {"outside", "blocked", "woken", "returned"}]
    /\ reporting \subseteq Failers
    /\ moving \subseteq Movers
    /\ owed \in [Keys -> Int]
    /\ inflight \in [EpochNumbers -> [Keys -> Nat]]
    /\ replied \in [EpochNumbers -> [Keys -> Nat]]
    /\ sent \in Nat

Init ==
    /\ keys = None
    /\ tracked = 0
    /\ epoch = 0
    /\ overflowed = FALSE
    /\ failing = 0
    /\ transitions = 0
    /\ waiters = 0
    /\ thread = [w \in Waiters |-> "outside"]
    /\ reporting = {}
    /\ moving = {}
    /\ owed = None
    /\ inflight = [e \in EpochNumbers |-> None]
    /\ replied = [e \in EpochNumbers |-> None]
    /\ sent = 0

-----------------------------------------------------------------------------
(* Settled, and who is told.                                               *)

\* OutstandingState::settled
Settled ==
    ~overflowed /\ failing = 0 /\ transitions = 0 /\ \A k \in Keys : keys[k] = 0

\* Fault: notify_one.
WakeIfSettledOne ==
    IF waiters > 0 /\ Settled'
      THEN thread' = [w \in Waiters |->
             IF thread[w] = "blocked" /\ w = CHOOSE v \in Waiters : thread[v] = "blocked"
               THEN "woken" ELSE thread[w]]
      ELSE UNCHANGED thread

\* wake_if_settled at the end of an update: notify_all if must_wake.
WakeIfSettled ==
    IF waiters > 0 /\ Settled'
      THEN thread' = [w \in Waiters |-> IF thread[w] = "blocked" THEN "woken" ELSE thread[w]]
      ELSE UNCHANGED thread

-----------------------------------------------------------------------------
(* Requests and replies.                                                   *)

\* Fault: a request beyond the capacity is forgotten.
TrackForget(k) ==
    /\ IF tracked < Capacity
         THEN keys' = [keys EXCEPT ![k] = @ + 1] /\ tracked' = tracked + 1
         ELSE UNCHANGED <<keys, tracked>>
    /\ UNCHANGED overflowed

\* begin() counts the request, or remembers that it could not.
Track(k) ==
    IF tracked < Capacity
      THEN /\ keys' = [keys EXCEPT ![k] = @ + 1]
           /\ tracked' = tracked + 1
           /\ UNCHANGED overflowed
      ELSE overflowed' = TRUE /\ UNCHANGED <<keys, tracked>>

Begin(k) ==
    /\ sent < MaxRequests
    /\ Track(k)
    /\ sent' = sent + 1
    /\ owed' = [owed EXCEPT ![k] = @ + 1]
    /\ inflight' = [inflight EXCEPT ![epoch][k] = @ + 1]
    /\ UNCHANGED <<epoch, failing, transitions, waiters, thread, reporting, moving, replied>>

\* A reply of a connection that started in epoch e reaches the client.
Reply(e, k) ==
    /\ inflight[e][k] > 0
    /\ inflight' = [inflight EXCEPT ![e][k] = @ - 1]
    /\ replied' = [replied EXCEPT ![e][k] = @ + 1]
    /\ owed' = IF e = epoch THEN [owed EXCEPT ![k] = @ - 1] ELSE owed
    /\ UNCHANGED <<set_vars, thread, reporting, moving, sent>>

\* Fault: a settlement is not compared with the current epoch.
AppliesAnyEpoch(e) == TRUE

\* A settlement from before the last fail() or clear() settles nothing.
Applies(e) == e = epoch

\* settle(e, k)
Settle(e, k) ==
    /\ replied[e][k] > 0
    /\ replied' = [replied EXCEPT ![e][k] = @ - 1]
    /\ IF Applies(e) /\ keys[k] > 0
         THEN /\ keys' = [keys EXCEPT ![k] = @ - 1]
              /\ tracked' = tracked - 1
              /\ UNCHANGED <<overflowed, failing, transitions>>
              /\ WakeIfSettled
         ELSE UNCHANGED <<keys, tracked, overflowed, failing, transitions, thread>>
    /\ UNCHANGED <<epoch, waiters, reporting, moving, owed, inflight, sent>>

\* clear(): the peer has proved, by a receipt after the last reply, that every
\* request is settled.
Clear ==
    /\ epoch < MaxEpoch
    /\ \A k \in Keys : owed[k] = 0
    /\ keys' = None
    /\ tracked' = 0
    /\ epoch' = epoch + 1
    /\ overflowed' = FALSE
    /\ UNCHANGED <<failing, transitions>>
    /\ WakeIfSettled
    /\ UNCHANGED <<waiters, relay_vars>>

\* fail() takes every key ...
ForgetRequests == keys' = None /\ tracked' = 0

\* ... and holds off settledness until the failures have been reported.
Fail(f) ==
    /\ f \notin reporting
    /\ epoch < MaxEpoch
    /\ ForgetRequests
    /\ failing' = failing + 1
    /\ overflowed' = FALSE
    /\ epoch' = epoch + 1
    /\ reporting' = reporting \union {f}
    /\ owed' = None
    /\ UNCHANGED <<transitions, waiters, thread, moving, inflight, replied, sent>>

\* Failing::drop, after the last failure has reached the client.
Reported(f) ==
    /\ f \in reporting
    /\ reporting' = reporting \ {f}
    /\ failing' = failing - 1
    /\ UNCHANGED <<keys, overflowed, transitions>>
    /\ WakeIfSettled
    /\ UNCHANGED <<tracked, epoch, waiters, moving, owed, inflight, replied, sent>>

\* transition()
Transition(m) ==
    /\ m \notin moving
    /\ moving' = moving \union {m}
    /\ transitions' = transitions + 1
    /\ UNCHANGED <<keys, tracked, epoch, overflowed, failing, waiters, thread,
                   reporting, owed, inflight, replied, sent>>

\* Transition::drop
Moved(m) ==
    /\ m \in moving
    /\ moving' = moving \ {m}
    /\ transitions' = transitions - 1
    /\ UNCHANGED <<keys, overflowed, failing>>
    /\ WakeIfSettled
    /\ UNCHANGED <<tracked, epoch, waiters, reporting, owed, inflight, replied, sent>>

-----------------------------------------------------------------------------
(* wait_settled.                                                           *)

\* The call registers, looks, and returns or blocks.
Wait(w) ==
    /\ thread[w] = "outside"
    /\ IF Settled
         THEN thread' = [thread EXCEPT ![w] = "returned"] /\ UNCHANGED waiters
         ELSE thread' = [thread EXCEPT ![w] = "blocked"] /\ waiters' = waiters + 1
    /\ UNCHANGED <<keys, tracked, epoch, overflowed, failing, transitions, relay_vars>>

\* A woken thread has the lock again: it returns, or goes back to sleep.
Look(w) ==
    /\ thread[w] = "woken"
    /\ IF Settled
         THEN thread' = [thread EXCEPT ![w] = "returned"] /\ waiters' = waiters - 1
         ELSE thread' = [thread EXCEPT ![w] = "blocked"] /\ UNCHANGED waiters
    /\ UNCHANGED <<keys, tracked, epoch, overflowed, failing, transitions, relay_vars>>

\* A condition variable may wake a thread for no reason.
SpuriousWakeup(w) ==
    /\ thread[w] = "blocked"
    /\ thread' = [thread EXCEPT ![w] = "woken"]
    /\ UNCHANGED <<set_vars, relay_vars>>

Next ==
    \/ \E k \in Keys : Begin(k)
    \/ \E e \in EpochNumbers, k \in Keys : Reply(e, k) \/ Settle(e, k)
    \/ Clear
    \/ \E f \in Failers : Fail(f) \/ Reported(f)
    \/ \E m \in Movers : Transition(m) \/ Moved(m)
    \/ \E w \in Waiters : Wait(w) \/ Look(w) \/ SpuriousWakeup(w)

Spec == Init /\ [][Next]_vars

\* What is bound to happen: a woken thread gets the lock.  Nothing makes a peer
\* reply, a report end or a condition variable wake a thread by itself.
WokenLooks(w) == Look(w)

-----------------------------------------------------------------------------
(* Properties.                                                             *)

\* Unless it has overflowed, the set holds exactly the requests of this epoch
\* that are owed a reply or whose reply is about to be settled, however often
\* a key is reused and whatever late replies of older connections arrive.
TracksExactly ==
    ~overflowed => \A k \in Keys : keys[k] = owed[k] + replied[epoch][k]

\* "Settling earlier lets the session end with part of a reply unsent": when
\* the set says it is settled, no reply is owed and no failure unreported.
SettledMeansAnswered ==
    Settled => /\ \A k \in Keys : owed[k] = 0
               /\ reporting = {}
               /\ moving = {}

\* A session that stays settled ends for everybody who waits for it.
WaitersReturn ==
    \A w \in Waiters :
        <>[](Settled /\ thread[w] # "outside") => <>(thread[w] = "returned")
=============================================================================

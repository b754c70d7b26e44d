---------------------------- MODULE ProcessLock ----------------------------
(* The lock file of a daemon or an upgrade (ownership.rs, backoff.rs,        *)
(* open_private): processes acquire it, wait for it with growing pauses, or  *)
(* look whether it is held, which takes it for a moment.  The operating      *)
(* system tells nobody of a release.  A child may have a copy of the         *)
(* holder's descriptor.                                                      *)
EXTENDS Integers

CONSTANTS
    Processes,
    FIRST, LONGEST,   \* the pauses
    Allowances        \* how long a call may wait

\* Pauses and allowances are times, and no process is called like a copy.
ASSUME LockConstants ==
    /\ FIRST \in Nat /\ LONGEST \in Nat /\ Allowances \subseteq Nat
    /\ "copy" \notin Processes

VARIABLES
    system,     \* "unix" or "windows"
    entry,      \* what is at the path: "missing", "own", "other" or "link"
    holder,     \* the descriptor that is locked: a process's, "copy" or none
    copied,     \* the processes whose descriptor a child has a copy of
    doing,      \* where each process is
    wants,      \* which call it made
    left,       \* the time to its deadline
    pause,      \* its next pause
    nap,        \* the time until it wakes
    gave,       \* what its call returned
    held_then   \* whether the lock was held when it last tried

kvars == <<system, entry, holder, copied, doing, wants, left, pause, nap, gave, held_then>>

Bounded == {"acquire_until", "acquire_private_until", "wait_released_until"}
Calls == Bounded \cup {"try_acquire", "acquire_async", "is_held"}
Probes == {"is_held", "wait_released_until"}

LockInit ==
    /\ system \in {"unix", "windows"} /\ entry \in {"missing", "own", "other", "link"}
    /\ holder = {} /\ copied = {}
    /\ doing = [p \in Processes |-> "idle"] /\ wants = [p \in Processes |-> "try_acquire"]
    /\ left = [p \in Processes |-> 0] /\ pause = [p \in Processes |-> FIRST]
    /\ nap = [p \in Processes |-> 0] /\ gave = [p \in Processes |-> "nothing"]
    /\ held_then = [p \in Processes |-> FALSE]

To(p, there) == doing' = [doing EXCEPT ![p] = there]
Give(p, answer) == gave' = [gave EXCEPT ![p] = answer]
Return(p, answer) == To(p, "done") /\ Give(p, answer)
Same == UNCHANGED <<system, copied, wants, left>>
Waiting == UNCHANGED <<pause, nap, held_then>>

Call(p, call, allowance) ==
    /\ doing[p] = "idle" /\ To(p, "open")
    /\ wants' = [wants EXCEPT ![p] = call] /\ left' = [left EXCEPT ![p] = allowance]
    /\ UNCHANGED <<system, entry, holder, copied, gave>> /\ Waiting

-----------------------------------------------------------------------------
(* Opening.                                                                  *)

Opened == IF entry = "missing" THEN "own" ELSE entry

open_or_create(p) ==
    /\ doing[p] = "open" /\ wants[p] \in {"try_acquire", "acquire_until", "acquire_async"}
    /\ \/ entry' = Opened /\ To(p, "check") /\ UNCHANGED gave
       \/ Return(p, "error") /\ UNCHANGED entry
    /\ UNCHANGED holder /\ Same /\ Waiting

\* A missing file is free, and none is created.
open_existing(p) ==
    /\ doing[p] = "open" /\ wants[p] \in Probes
    /\ \/ entry = "missing" /\ Return(p, "free")
       \/ entry # "missing" /\ To(p, "check") /\ UNCHANGED gave
       \/ Return(p, "error")
    /\ UNCHANGED <<entry, holder>> /\ Same /\ Waiting

\* Fault: the owner is not looked at.
open_private_unix_any(p) == Opened # "link"

\* open_private on Unix: no link, and this user's.
open_private_unix(p) == Opened \notin {"link", "other"}

\* open_private on Windows: the link itself is opened, and refused.
open_private_windows(p) == Opened # "link"

open_private(p) ==
    /\ doing[p] = "open" /\ wants[p] = "acquire_private_until"
    /\ \/ /\ IF system = "unix" THEN open_private_unix(p) ELSE open_private_windows(p)
          /\ entry' = Opened /\ To(p, "check") /\ UNCHANGED gave
       \/ entry' \in {entry, Opened} /\ Return(p, "error")
    /\ UNCHANGED holder /\ Same /\ Waiting

-----------------------------------------------------------------------------
(* Locking.                                                                  *)

\* locked succeeds: a guard, or for a probe a moment's.
locked(p) ==
    /\ doing[p] = "check" /\ holder = {}
    /\ holder' = {p} /\ held_then' = [held_then EXCEPT ![p] = FALSE]
    /\ To(p, IF wants[p] \in Probes THEN "probes" ELSE "holds")
    /\ UNCHANGED <<entry, pause, nap, gave>> /\ Same

\* It would block. try_acquire and is_held have their answer.
WouldBlock(p) ==
    /\ doing[p] = "check" /\ holder # {}
    /\ held_then' = [held_then EXCEPT ![p] = TRUE]
    /\ CASE wants[p] = "try_acquire" -> Return(p, "none")
         [] wants[p] = "is_held" -> Return(p, "held")
         [] OTHER -> To(p, "pause") /\ UNCHANGED gave
    /\ UNCHANGED <<entry, holder, pause, nap>> /\ Same

\* Locking fails for another reason.
LockFails(p) ==
    /\ doing[p] = "check" /\ Return(p, "error")
    /\ UNCHANGED <<entry, holder>> /\ Same /\ Waiting

Least(a, b) == IF a < b THEN a ELSE b

\* Fault: the deadline does not shorten a pause.
NapWhole(p) == pause[p]

\* next_pause: no longer than is left.
Nap(p) == IF wants[p] \in Bounded THEN Least(left[p], pause[p]) ELSE pause[p]

GiveUp(p) == Return(p, IF wants[p] \in Probes THEN "held" ELSE "none")

next_pause(p) ==
    /\ doing[p] = "pause"
    /\ IF wants[p] \in Bounded /\ left[p] = 0 THEN GiveUp(p) /\ UNCHANGED <<pause, nap>>
       ELSE /\ nap' = [nap EXCEPT ![p] = Nap(p)]
            /\ pause' = [pause EXCEPT ![p] = Least(LONGEST, 2 * @)]
            /\ To(p, "sleep") /\ UNCHANGED gave
    /\ UNCHANGED <<entry, holder, held_then>> /\ Same

\* poll, after a pause: no check at the deadline or later.
Wake(p) ==
    /\ doing[p] = "sleep" /\ nap[p] = 0
    /\ IF wants[p] \in Bounded /\ left[p] = 0 THEN GiveUp(p)
       ELSE To(p, "check") /\ UNCHANGED gave
    /\ UNCHANGED <<entry, holder>> /\ Same /\ Waiting

\* A probe lets go and answers.
LetGo(p) ==
    /\ doing[p] = "probes" /\ holder' = holder \ {p} /\ Return(p, "free")
    /\ UNCHANGED entry /\ Same /\ Waiting

-----------------------------------------------------------------------------
(* Holding.                                                                  *)

\* A child gets a copy of the descriptor.
Copy(p) ==
    /\ doing[p] = "holds" /\ copied' = copied \cup {p}
    /\ UNCHANGED <<system, entry, holder, doing, wants, left, gave>> /\ Waiting

\* Fault: closing the descriptor is left to release it.
UnlockedByClose(p) == IF p \in copied THEN {"copy"} ELSE {}

\* Unlocking releases the copies too.
Unlocked(p) == {}

\* ProcessLock::drop
Drop(p) ==
    /\ doing[p] = "holds" /\ holder' = Unlocked(p) /\ Return(p, "released")
    /\ UNCHANGED entry /\ Same /\ Waiting

\* The process ends: a copy keeps the lock.
Crash(p) ==
    /\ doing[p] \in {"holds", "probes", "check", "sleep"} /\ Return(p, "crashed")
    /\ holder' = IF p \notin holder THEN holder ELSE IF p \in copied THEN {"copy"} ELSE {}
    /\ UNCHANGED entry /\ Same /\ Waiting

CopyCloses ==
    /\ holder = {"copy"} /\ holder' = {}
    /\ UNCHANGED <<system, entry, copied, doing, wants, left, gave>> /\ Waiting

Tick ==
    /\ \E p \in Processes : doing[p] # "done" /\ (left[p] > 0 \/ nap[p] > 0)
    /\ left' = [p \in Processes |-> IF left[p] > 0 THEN left[p] - 1 ELSE 0]
    /\ nap' = [p \in Processes |-> IF nap[p] > 0 THEN nap[p] - 1 ELSE 0]
    /\ UNCHANGED <<system, entry, holder, copied, doing, wants, pause, gave, held_then>>

Proceed(p) ==
    \/ open_or_create(p) \/ open_existing(p) \/ open_private(p)
    \/ locked(p) \/ WouldBlock(p) \/ next_pause(p) \/ Wake(p) \/ LetGo(p)

LockNext ==
    \/ \E p \in Processes :
         \/ Proceed(p) \/ LockFails(p) \/ Copy(p) \/ Drop(p) \/ Crash(p)
         \/ \E call \in Calls, allowance \in Allowances : Call(p, call, allowance)
    \/ CopyCloses \/ Tick

LockSpec == LockInit /\ [][LockNext]_kvars

-----------------------------------------------------------------------------

\* One process holds the lock; it is held only while a guard, a probe or a
\* crashed holder's child has it, so that a dropped guard releases it; what is
\* reported of it was so within the call, a wait gives up only at its deadline
\* and never sleeps past it; and a private lock is on a file that is this
\* user's and no link (ProcessLock, poll, next_pause, open_private).
LockIsTrue ==
    /\ {p \in Processes : doing[p] \in {"holds", "probes"}} = holder \ {"copy"}
    /\ "copy" \in holder => \E p \in copied : gave[p] = "crashed"
    /\ \A p \in Processes :
          /\ gave[p] = "free" => ~held_then[p]
          /\ gave[p] \in {"none", "held"} =>
                held_then[p] /\ (wants[p] \in Bounded => left[p] = 0)
          /\ doing[p] = "sleep" /\ wants[p] \in Bounded => nap[p] <= left[p]
          /\ doing[p] = "holds" /\ wants[p] = "acquire_private_until" =>
                entry = "own" \/ (entry = "other" /\ system = "windows")

\* A call with a deadline returns, and so does one that does not wait
\* (lock_until, poll, is_held).
LockCallsReturn ==
    \A p \in Processes :
        doing[p] \in {"open", "check"} /\ wants[p] # "acquire_async" ~> doing[p] \in {"done", "holds"}
=============================================================================

-------------------------------- MODULE Serve --------------------------------
(***************************************************************************)
(* The accept loop of a daemon (src/serve.rs) with the admission pools it  *)
(* takes permits from (src/admission.rs).                                  *)
(*                                                                         *)
(* The loop is one step per poll of a branch, and per place where another  *)
(* thread can act between two of its reads of shared state: the drain may  *)
(* start anywhere.  `draining` is the lifecycle as DrainGate promises it.  *)
(* A handler that ends drops its permit and stays in the JoinSet until it  *)
(* is joined.  Statistics nothing here reads again (Capacity.rejected, the *)
(* Rejected event) are left out.                                           *)
(*                                                                         *)
(* External: the listener, the evidence and policy that accept or reject a *)
(* peer, the handlers, which may do anything, and other holders of         *)
(* permits.                                                                *)
(***************************************************************************)
EXTENDS Naturals, FiniteSets

CONSTANTS
    Connections,    \* connections that may come; also names of their handlers
    HandshakeLimit, ApplicationLimit, ControlLimit,     \* Limits; zero disables a pool
    MaxOthers,      \* bound: permits of a pool held outside the loop
    DrainBudget

ASSUME ServeConstants ==
    /\ IsFiniteSet(Connections)
    /\ HandshakeLimit \in Nat /\ ApplicationLimit \in Nat /\ ControlLimit \in Nat
    /\ MaxOthers \in Nat
    /\ DrainBudget \in Nat

VARIABLES
    draining,
    pc,             \* position of run() and finish()
    hand,           \* the connection between accept and its decision
    state,          \* what has become of each connection
    pool,           \* the pool its permit is from
    active,         \* Capacity.active
    others,         \* permits held outside the loop
    served,         \* Served
    joined,         \* handlers taken out of the JoinSet
    stopped,        \* how the accept loop was left
    left,           \* time left of the drain budget
    late            \* connections accepted after the drain had started

vars == <<draining, pc, hand, state, pool, active, others, served, joined, stopped,
          left, late>>

\* Pool, and the limit of each.
Pools == {"Handshake", "Application", "Control"}
Limit == [p \in Pools |-> CASE p = "Handshake" -> HandshakeLimit
                             [] p = "Application" -> ApplicationLimit
                             [] OTHER -> ControlLimit]

Positions == {"select", "join", "accept", "authenticate", "check", "spawn", "backoff",
              "finish", "reap", "returned", "dropped"}

Running == {"running", "aborting"}
Ended == {"completed", "panicked", "cancelled"}
Fates == {"absent", "accepted", "rejected", "refused", "permitted", "let go"}
            \union Running \union Ended

Are(fates) == {c \in Connections : state[c] \in fates}

\* handlers.is_empty() asks for this set.
Handlers == Are(Running \union Ended) \ joined

TypeOK ==
    /\ draining \in BOOLEAN
    /\ pc \in Positions
    /\ hand \subseteq Connections /\ Cardinality(hand) <= 1
    /\ state \in [Connections -> Fates]
    /\ pool \in [Connections -> SUBSET Pools]
    /\ active \in [Pools -> Nat]
    /\ others \in [Pools -> 0..MaxOthers]
    /\ served \in [{"admitted", "unauthenticated", "over_capacity", "aborted"} -> Nat]
    /\ joined \subseteq Connections
    /\ stopped \in {"no", "Ok", "Err"}
    /\ left \in 0..DrainBudget
    /\ late \subseteq Connections

Init ==
    /\ draining = FALSE
    /\ pc = "select"
    /\ hand = {}
    /\ state = [c \in Connections |-> "absent"]
    /\ pool = [c \in Connections |-> {}]
    /\ active = [p \in Pools |-> 0]
    /\ others = [p \in Pools |-> 0]
    /\ served = [count \in {"admitted", "unauthenticated", "over_capacity", "aborted"} |-> 0]
    /\ joined = {}
    /\ stopped = "no"
    /\ left = DrainBudget
    /\ late = {}

-----------------------------------------------------------------------------
(* Admission.                                                              *)

\* Fault: the limit itself still admits.
FreeUpTo(p) == active[p] <= Limit[p]

\* try_acquire admits while the pool is below its limit.
Free(p) == active[p] < Limit[p]

\* Fault: a dropped permit frees a slot of the other pools.
ReleaseWrong(c) == active' = [p \in Pools |-> IF p \in pool[c] THEN active[p] ELSE active[p] - 1]

\* Dropping the permit of c.
Release(c) == active' = [p \in Pools |-> IF p \in pool[c] THEN active[p] - 1 ELSE active[p]]

TakePermit(p) ==
    /\ Free(p)
    /\ others[p] < MaxOthers
    /\ active' = [active EXCEPT ![p] = @ + 1]
    /\ others' = [others EXCEPT ![p] = @ + 1]
    /\ UNCHANGED <<draining, pc, hand, state, pool, served, joined, stopped, left, late>>

GivePermit(p) ==
    /\ others[p] > 0
    /\ active' = [active EXCEPT ![p] = @ - 1]
    /\ others' = [others EXCEPT ![p] = @ - 1]
    /\ UNCHANGED <<draining, pc, hand, state, pool, served, joined, stopped, left, late>>

StartDrain ==
    /\ ~draining
    /\ draining' = TRUE
    /\ UNCHANGED <<pc, hand, state, pool, active, others, served, joined, stopped, left, late>>

-----------------------------------------------------------------------------
(* The accept loop.  The select! is biased: draining, then a handler that  *)
(* has ended, then the listener.                                           *)

Stop(how) == pc' = "finish" /\ stopped' = how

Goto(next) == pc' = next /\ UNCHANGED stopped

PollDraining ==
    /\ pc = "select"
    /\ IF draining THEN Stop("Ok") ELSE Goto("join")
    /\ UNCHANGED <<draining, hand, state, pool, active, others, served, joined, left, late>>

PollHandlers ==
    /\ pc = "join"
    /\ \/ \E c \in Handlers \intersect Are(Ended) : joined' = joined \union {c} /\ Goto("select")
       \/ Handlers \intersect Are(Ended) = {} /\ Goto("accept") /\ UNCHANGED joined
    /\ UNCHANGED <<draining, hand, state, pool, active, others, served, left, late>>

\* No connection is waiting: the task sleeps until a branch may be ready.
Park ==
    /\ pc = "accept"
    /\ Goto("select")
    /\ UNCHANGED <<draining, hand, state, pool, active, others, served, joined, left, late>>

Accept(c) ==
    /\ pc = "accept"
    /\ state[c] = "absent"
    /\ state' = [state EXCEPT ![c] = "accepted"]
    /\ hand' = {c}
    /\ late' = IF draining THEN late \union {c} ELSE late
    /\ Goto("authenticate")
    /\ UNCHANGED <<draining, pool, active, others, served, joined, left>>

\* EMFILE and ENFILE pause the loop; any other error ends it.
AcceptFails ==
    /\ pc = "accept"
    /\ Goto("backoff") \/ Stop("Err")
    /\ UNCHANGED <<draining, hand, state, pool, active, others, served, joined, left, late>>

\* This select! is not biased.
BackOff ==
    /\ pc = "backoff"
    /\ (draining /\ Stop("Ok")) \/ Goto("select")
    /\ UNCHANGED <<draining, hand, state, pool, active, others, served, joined, left, late>>

\* No evidence, or the policy rejects it.
Reject(c) ==
    /\ pc = "authenticate" /\ c \in hand
    /\ state' = [state EXCEPT ![c] = "rejected"]
    /\ hand' = {}
    /\ served' = [served EXCEPT !["unauthenticated"] = @ + 1]
    /\ Goto("select")
    /\ UNCHANGED <<draining, pool, active, others, joined, left, late>>

\* The policy grants what belongs to pool p, and its permit is tried.
Admit(c, p) ==
    /\ pc = "authenticate" /\ c \in hand
    /\ IF Free(p)
       THEN /\ state' = [state EXCEPT ![c] = "permitted"]
            /\ pool' = [pool EXCEPT ![c] = {p}]
            /\ active' = [active EXCEPT ![p] = @ + 1]
            /\ Goto("check")
            /\ UNCHANGED <<hand, served>>
       ELSE /\ state' = [state EXCEPT ![c] = "refused"]
            /\ hand' = {}
            /\ served' = [served EXCEPT !["over_capacity"] = @ + 1]
            /\ Goto("select")
            /\ UNCHANGED <<pool, active>>
    /\ UNCHANGED <<draining, others, joined, left, late>>

\* Fault: the loop does not look at the lifecycle again.
CheckNothing(c) ==
    /\ pc = "check" /\ c \in hand
    /\ Goto("spawn")
    /\ UNCHANGED <<draining, hand, state, pool, active, others, served, joined, left, late>>

\* "Draining can start while this peer is checked."  The connection and its
\* permit are dropped.
CheckOpen(c) ==
    /\ pc = "check" /\ c \in hand
    /\ IF draining
       THEN /\ state' = [state EXCEPT ![c] = "let go"]
            /\ hand' = {}
            /\ Release(c)
            /\ Stop("Ok")
       ELSE Goto("spawn") /\ UNCHANGED <<state, hand, active>>
    /\ UNCHANGED <<draining, pool, others, served, joined, left, late>>

Spawn(c) ==
    /\ pc = "spawn" /\ c \in hand
    /\ state' = [state EXCEPT ![c] = "running"]
    /\ hand' = {}
    /\ served' = [served EXCEPT !["admitted"] = @ + 1]
    /\ Goto("select")
    /\ UNCHANGED <<draining, pool, active, others, joined, left, late>>

-----------------------------------------------------------------------------
(* The handlers, and finish().                                             *)

End(c, fate) ==
    /\ state' = [state EXCEPT ![c] = fate]
    /\ Release(c)
    /\ UNCHANGED <<draining, pc, hand, pool, others, served, joined, stopped, left, late>>

\* A handler returns or panics, perhaps in the poll during which it is aborted.
HandlerEnds(c) ==
    /\ state[c] \in Running
    /\ \E fate \in {"completed", "panicked"} : End(c, fate)

\* The runtime drops an aborted handler at its next await.
HandlerCancelled(c) ==
    /\ state[c] = "aborting"
    /\ End(c, "cancelled")

AbortAll == state' = [c \in Connections |-> IF state[c] = "running" THEN "aborting" ELSE state[c]]

Tick ==
    /\ pc = "finish"
    /\ left > 0
    /\ left' = left - 1
    /\ UNCHANGED <<draining, pc, hand, state, pool, active, others, served, joined, stopped, late>>

JoinInTime(c) ==
    /\ pc = "finish"
    /\ c \in Handlers \intersect Are(Ended)
    /\ joined' = joined \union {c}
    /\ UNCHANGED <<draining, pc, hand, state, pool, active, others, served, stopped, left, late>>

\* Fault: the remaining handlers are awaited without the deadline.
FinishPatiently == Handlers = {}

\* The first loop of finish() ends with the set or with the deadline.
FinishOver == Handlers = {} \/ left = 0

AbortRest ==
    /\ pc = "finish"
    /\ FinishOver
    /\ AbortAll
    /\ Goto("reap")
    /\ UNCHANGED <<draining, hand, pool, active, others, served, joined, left, late>>

\* Fault: every join error is taken for a cancellation.
CountsAsErr(c) == state[c] # "completed"

\* is_err_and(is_cancelled): a panic is not an abort.
CountsAsAborted(c) == state[c] = "cancelled"

Reap(c) ==
    /\ pc = "reap"
    /\ c \in Handlers \intersect Are(Ended)
    /\ joined' = joined \union {c}
    /\ served' = IF CountsAsAborted(c) THEN [served EXCEPT !["aborted"] = @ + 1] ELSE served
    /\ UNCHANGED <<draining, pc, hand, state, pool, active, others, stopped, left, late>>

Return ==
    /\ pc = "reap"
    /\ Handlers = {}
    /\ Goto("returned")
    /\ UNCHANGED <<draining, hand, state, pool, active, others, served, joined, left, late>>

\* The caller drops the future where it awaits; the JoinSet aborts its tasks.
DropFuture ==
    /\ pc \in {"select", "backoff", "finish", "reap"}
    /\ AbortAll
    /\ Goto("dropped")
    /\ UNCHANGED <<draining, hand, pool, active, others, served, joined, left, late>>

-----------------------------------------------------------------------------
LoopStep ==
    \/ PollDraining \/ PollHandlers \/ Park \/ AcceptFails \/ BackOff
    \/ \E c \in Connections :
          \/ Accept(c) \/ Reject(c) \/ CheckOpen(c) \/ Spawn(c)
          \/ \E p \in Pools : Admit(c, p)
          \/ JoinInTime(c) \/ Reap(c)
    \/ AbortRest \/ Return

Next ==
    \/ LoopStep
    \/ StartDrain
    \/ \E p \in Pools : TakePermit(p) \/ GivePermit(p)
    \/ \E c \in Connections : HandlerEnds(c) \/ HandlerCancelled(c)
    \/ Tick
    \/ DropFuture

Spec == Init /\ [][Next]_vars

\* The task is polled, time passes, and an aborted handler reaches an await.
\* Nobody need drain, connect, or return from a handler.
FairSpec ==
    /\ Spec
    /\ WF_vars(LoopStep)
    /\ WF_vars(Tick)
    /\ \A c \in Connections : WF_vars(HandlerCancelled(c))

-----------------------------------------------------------------------------
(* Properties.                                                             *)

\* A pool's count is the permits alive, never above its limit, however
\* handlers end: by returning, panicking, cancellation, or not starting at all.
CapacityIsKept ==
    \A p \in Pools :
        /\ active[p] = others[p] + Cardinality({c \in Are({"permitted"} \union Running) : p \in pool[c]})
        /\ active[p] <= Limit[p]

\* What run() returns is true and final: every connection is in the one count
\* that tells its fate, except the one a drain let go, every handler has ended,
\* and none was cancelled before the drain budget was used up.
ReportIsTrue ==
    pc = "returned" =>
        /\ served.unauthenticated = Cardinality(Are({"rejected"}))
        /\ served.over_capacity = Cardinality(Are({"refused"}))
        /\ served.admitted = Cardinality(Are(Ended))
        /\ served.aborted = Cardinality(Are({"cancelled"}))
        /\ Are(Running \union {"accepted", "permitted"}) = {}
        /\ Cardinality(Are({"let go"})) <= IF stopped = "Ok" THEN 1 ELSE 0
        /\ Are({"cancelled"}) # {} => left = 0

\* Once draining has started at most one more connection is accepted, and no
\* handler ever gets it.
DrainStopsAccepting ==
    /\ Cardinality(late) <= 1
    /\ late \intersect Are(Running \union Ended) = {}

\* No pool is exceeded or leaks a permit, and nobody is let in once the drain
\* has begun (Admission::try_acquire, Permit::drop, Server::run).
AdmitsRightly == TypeOK /\ CapacityIsKept /\ DrainStopsAccepting

\* A drain, or an accept error, ends the loop, even if handlers hang.
DrainEnds == (draining \/ stopped # "no") ~> pc \in {"returned", "dropped"}
=============================================================================

----------------------------- MODULE UnixSocket -----------------------------
(***************************************************************************)
(* Listener acquisition and guarded cleanup of a Unix endpoint:            *)
(* src/local/unix_socket.rs.                                               *)
(*                                                                         *)
(* External: the bind lock, which the kernel releases when its holder      *)
(* ends, and the file system.  A name holds an unrelated file or a socket  *)
(* with an inode number; a number is given again once no name and no       *)
(* listener has it, if ReuseInodes.  A connection to a socket is accepted  *)
(* or left waiting while somebody listens on it, and refused otherwise.    *)
(***************************************************************************)
EXTENDS Integers, FiniteSets

CONSTANTS
    Binders,        \* processes
    Inodes,         \* inode numbers
    ReuseInodes     \* whether the file system gives a number again

Nobody == "nobody"

VARIABLES
    file,           \* what the endpoint's name holds
    bind_lock,      \* who holds <socket>.bind.lock
    place,          \* where each process is
    listens,        \* processes whose listener is open
    bound,          \* the inode each process bound
    captured,       \* SocketGuard: the inode it recorded
    used            \* inode numbers given so far

vars == <<file, bind_lock, place, listens, bound, captured, used>>

Absent == [kind |-> "absent", inode |-> 0, owner |-> Nobody]
Unrelated == [kind |-> "other", inode |-> 0, owner |-> Nobody]

Init ==
    /\ file \in {Absent, Unrelated}
    /\ bind_lock = Nobody
    /\ place = [b \in Binders |-> "outside"]
    /\ listens = {}
    /\ bound = [b \in Binders |-> 0]
    /\ captured = [b \in Binders |-> 0]
    /\ used = {}

Held == {bound[b] : b \in listens} \union {file.inode}
FreeInodes == Inodes \ (IF ReuseInodes THEN Held ELSE used)

Move(b, to) == place' = [place EXCEPT ![b] = to]

\* Fault: the serialization lock is kept.
ReturnLocked(b, result) == Move(b, result) /\ UNCHANGED bind_lock

\* acquire() returns: the serialization lock is dropped.
Return(b, result) == Move(b, result) /\ bind_lock' = Nobody

\* bind_private: the kernel creates the name with its listener.
BindPrivate(b) ==
    \E i \in FreeInodes :
        /\ file' = [kind |-> "socket", inode |-> i, owner |-> b]
        /\ bound' = [bound EXCEPT ![b] = i]
        /\ listens' = listens \union {b}
        /\ used' = used \union {i}

-----------------------------------------------------------------------------
(* acquire.                                                                *)

\* The path is too long, or its directory not private: nothing is left behind.
Refused(b) ==
    /\ place[b] = "outside"
    /\ Move(b, "failed")
    /\ UNCHANGED <<file, bind_lock, listens, bound, captured, used>>

\* Contention on the lock counts as a running owner.
Lock(b) ==
    /\ place[b] = "outside"
    /\ IF bind_lock = Nobody
         THEN Move(b, "binding") /\ bind_lock' = b
         ELSE Move(b, "stood_down") /\ UNCHANGED bind_lock
    /\ UNCHANGED <<file, listens, bound, captured, used>>

Bind(b) ==
    /\ place[b] = "binding"
    /\ CASE file.kind = "absent" -> BindPrivate(b) /\ Return(b, "won")
         [] file.kind = "other" -> Return(b, "failed") /\ UNCHANGED <<file, listens, bound, used>>
         [] file.kind = "socket" ->
              Move(b, "probing") /\ UNCHANGED <<file, bind_lock, listens, bound, used>>
    /\ UNCHANGED captured

Answering == \E b \in listens : bound[b] = file.inode

\* The probe connects or times out, and the owner is running; only a refused
\* connection permits reclaiming.
Probe(b) ==
    /\ place[b] = "probing"
    /\ IF Answering THEN Return(b, "stood_down")
       ELSE Move(b, "reclaiming") /\ UNCHANGED bind_lock
    /\ UNCHANGED <<file, listens, bound, captured, used>>

Unlink(b) ==
    /\ place[b] = "reclaiming"
    /\ file' = Absent
    /\ Move(b, "binding_again")
    /\ UNCHANGED <<bind_lock, listens, bound, captured, used>>

BindAgain(b) ==
    /\ place[b] = "binding_again"
    /\ BindPrivate(b)
    /\ Return(b, "won")
    /\ UNCHANGED captured

\* Any other error of a system call; set_permissions fails with the name bound.
Fails(b) ==
    /\ place[b] \in {"binding", "probing", "reclaiming", "binding_again"}
    /\ Return(b, "failed")
    /\ \/ UNCHANGED <<file, used>>
       \/ /\ file.kind = "absent"
          /\ \E i \in FreeInodes : /\ file' = [kind |-> "socket", inode |-> i, owner |-> b]
                                   /\ used' = used \union {i}
    /\ UNCHANGED <<listens, bound, captured>>

-----------------------------------------------------------------------------
(* SocketGuard, and the end of a process.                                  *)

Capture(b) ==
    /\ place[b] = "won"
    /\ captured' = [captured EXCEPT ![b] = file.inode]
    /\ Move(b, "serving")
    /\ UNCHANGED <<file, bind_lock, listens, bound, used>>

\* The owner closes its listener first: serve() consumes it.
CloseListener(b) ==
    /\ place[b] = "serving"
    /\ listens' = listens \ {b}
    /\ Move(b, "closed")
    /\ UNCHANGED <<file, bind_lock, bound, captured, used>>

\* SocketGuard::drop gives up on contention.
GuardLocks(b) ==
    /\ place[b] = "closed"
    /\ IF bind_lock = Nobody
         THEN Move(b, "cleaning") /\ bind_lock' = b
         ELSE Move(b, "ended") /\ UNCHANGED bind_lock
    /\ UNCHANGED <<file, listens, bound, captured, used>>

\* Fault: whatever socket is there is removed.
OwnSocketAny(b) == file.kind = "socket"

\* The guard recognises its socket by device and inode.
OwnSocket(b) == file.kind = "socket" /\ file.inode = captured[b]

GuardRemoves(b) ==
    /\ place[b] = "cleaning"
    /\ file' = IF OwnSocket(b) THEN Absent ELSE file
    /\ Return(b, "ended")
    /\ UNCHANGED <<listens, bound, captured, used>>

\* A process dies: the kernel closes its listener and releases its lock.
Crash(b) ==
    /\ place[b] \notin {"outside", "dead", "stood_down", "failed", "ended"}
    /\ Move(b, "dead")
    /\ listens' = listens \ {b}
    /\ bind_lock' = IF bind_lock = b THEN Nobody ELSE bind_lock
    /\ UNCHANGED <<file, bound, captured, used>>

\* A process that has no endpoint may try again.
Retry(b) ==
    /\ place[b] \in {"stood_down", "failed", "dead", "ended"}
    /\ Cardinality(used) < Cardinality(Inodes)
    /\ Move(b, "outside")
    /\ UNCHANGED <<file, bind_lock, listens, bound, captured, used>>

Next ==
    \E b \in Binders :
        \/ Refused(b) \/ Lock(b) \/ Fails(b) \/ Bind(b) \/ Probe(b) \/ Unlink(b) \/ BindAgain(b)
        \/ Capture(b) \/ CloseListener(b) \/ GuardLocks(b) \/ GuardRemoves(b)
        \/ Crash(b) \/ Retry(b)

Spec == Init /\ [][Next]_vars

-----------------------------------------------------------------------------
(* Properties.                                                             *)

\* "An exiting generation cannot unlink an endpoint created by its successor":
\* the endpoint's name leads to whoever listens, whatever other processes
\* reclaim, clean up or leave behind when they die; so at most one listens.
EndpointStays == \A b \in listens : file.kind = "socket" /\ file.owner = b

Acquiring == {"binding", "probing", "reclaiming", "binding_again"}

\* acquire() and SocketGuard preserve unrelated files.  A process stands down only
\* while another one listens, is acquiring the endpoint, or cleans up behind the
\* listener it closed, and then nobody may be serving; so a process that stood
\* down never leaves the endpoint to processes that stood down as well.
StandDownIsJustified ==
    /\ file.kind = "other" => file' = file
    /\ \A b \in Binders :
         place[b] # "stood_down" /\ place'[b] = "stood_down" =>
             \E c \in Binders \ {b} : c \in listens \/ place[c] \in Acquiring \union {"cleaning"}
    /\ (\E b \in Binders : place[b] = "stood_down") =>
             \E b \in Binders : place[b] # "stood_down"
=============================================================================

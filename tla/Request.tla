------------------------------ MODULE Request ------------------------------
(* A health or drain request (client.rs), from connecting to the reply, and  *)
(* the service's answer (control.rs).  The caller repeats a request whose    *)
(* error is transient.  Meanwhile the endpoint may change hands, a child may *)
(* serve on an inherited listener, the service may die and the deadline may  *)
(* pass.                                                                     *)
EXTENDS Integers

CONSTANTS
    Pids,        \* processes that may serve the endpoint
    OwnUser,     \* those that run as this OS user
    NoPid,       \* the kernel reports no PID
    MaxMoves     \* bound: changes of the endpoint

VARIABLES
    endpoint,    \* {} or the process that listens and the one that serves
    operation,   \* "HEALTH" or "DRAIN"
    expected,    \* {} or the PID the caller expects
    late,        \* the deadline has passed
    step,        \* where request() is, or its outcome
    connection,  \* {} or the endpoint's holder when this attempt connected
    reply,       \* {} or what the service answered
    drained,     \* processes whose admission is closed
    handled,     \* requests that services have executed
    health,      \* the observation returned
    moves

rvars == <<endpoint, operation, expected, late, step, connection, reply, drained,
           handled, health, moves>>

Holders == [listener : Pids, server : Pids]

\* What the kernel reports: the process that listened, perhaps without a PID.
Credentials == {[pid |-> p, same_user |-> c.listener \in OwnUser] :
                    p \in {NoPid} \cup {c.listener : c \in connection}, c \in connection}

Init ==
    /\ endpoint \in {{}} \cup {{[listener |-> p, server |-> p]} : p \in Pids}
    /\ operation \in {"HEALTH", "DRAIN"}
    /\ expected \in {{}} \cup {{p} : p \in Pids}
    /\ late = FALSE /\ step = "connect" /\ connection = {} /\ reply = {}
    /\ drained = {} /\ handled = 0 /\ health = {} /\ moves = 0

Client == UNCHANGED <<operation, expected, step, connection, reply, health>>

-----------------------------------------------------------------------------
(* The world.                                                                *)

\* The endpoint ends, is bound by another process, or is served by a child.
Move ==
    /\ moves < MaxMoves /\ moves' = moves + 1
    /\ \E e \in SUBSET Holders :
        /\ e # endpoint
        /\ \/ e = {}
           \/ endpoint = {} /\ \E p \in Pids : e = {[listener |-> p, server |-> p]}
           \/ \E old \in endpoint, p \in Pids : e = {[old EXCEPT !.server = p]}
        /\ endpoint' = e
    /\ UNCHANGED <<late, drained, handled>> /\ Client

DeadlinePasses ==
    /\ ~late /\ late' = TRUE
    /\ UNCHANGED <<endpoint, drained, handled, moves>> /\ Client

\* ControlService::serve: the request is handled and answered, perhaps when the
\* client has already given up.
Handle ==
    /\ step \in {"exchange", "Protocol"} /\ reply = {}
    /\ \E c \in connection :
        /\ drained' = IF operation = "DRAIN" THEN drained \cup {c.server} ELSE drained
        /\ reply' = {[process_id |-> c.server, draining |-> c.server \in drained']}
    /\ handled' = handled + 1
    /\ UNCHANGED <<endpoint, operation, expected, late, step, connection, health, moves>>

-----------------------------------------------------------------------------
(* request().                                                                *)

World == UNCHANGED <<endpoint, operation, expected, late, drained, handled, moves>>
Outcome(what) == step' = what /\ UNCHANGED health

\* Errors that a later attempt may not meet.
IsTransient(error) ==
    error \in {"NotFound", "ConnectionRefused", "ConnectionReset", "ConnectionAborted",
               "NotConnected", "UnexpectedEof", "BrokenPipe", "TimedOut", "WouldBlock",
               "Interrupted"}

ConnectError(error) ==
    IF IsTransient(error) THEN "Unavailable" ELSE error

\* connect_once_until: one attempt; no address, no time or what the OS says.
ConnectErrors ==
    {"EndpointTooLong", "PermissionDenied", "NotConnected", "Failed"}
        \cup (IF endpoint = {} THEN {"NotFound", "ConnectionRefused"} ELSE {})
        \cup (IF late THEN {"TimedOut"} ELSE {})

Connect ==
    /\ step = "connect"
    /\ \/ /\ endpoint # {} /\ ~late
          /\ connection' = endpoint /\ Outcome("authenticate")
       \/ /\ \E error \in ConnectErrors : Outcome(ConnectError(error))
          /\ UNCHANGED connection
    /\ UNCHANGED reply /\ World

\* The policies: this user, and the expected process if there is one.
SameUser(c) == c.same_user
MatchPid(observed, p) == observed # NoPid /\ observed = p
ExpectedProcess(c) == SameUser(c) /\ \A p \in expected : MatchPid(c.pid, p)

\* credentials(), the policy, a PID to compare the reply with, time left.
Authenticate ==
    /\ step = "authenticate"
    /\ \/ Outcome("Credentials")
       \/ \E c \in Credentials :
            Outcome(IF ~ExpectedProcess(c) \/ c.pid = NoPid THEN "Peer"
                    ELSE IF late THEN "Late" ELSE "exchange")
    /\ UNCHANGED <<connection, reply>> /\ World

\* Negotiation, framing or the connection fails, also after the service has
\* executed the request; the session's deadline ends a silent one.
ExchangeFails ==
    /\ step = "exchange"
    /\ Outcome("Protocol")
    /\ UNCHANGED <<connection, reply>> /\ World

\* Fault: the reply's claim is not compared with the connection.
TrustworthyAny(r) == TRUE

Trustworthy(r) == \A c \in connection : r.process_id = c.listener

Receive ==
    /\ step = "exchange"
    /\ \E r \in reply :
        IF ~Trustworthy(r) THEN Outcome("ProcessMismatch")
        ELSE IF late THEN Outcome("Late")
        ELSE step' = "Ok" /\ health' = {r}
    /\ UNCHANGED <<connection, reply>> /\ World

\* Fault: every failure of the connection looks transient.
TransientBroadly == step \in {"Unavailable", "Protocol", "Late"}

\* RequestError::is_transient
Transient == step = "Unavailable"

\* The caller tries the same endpoint again.
Again ==
    /\ Transient /\ ~late
    /\ step' = "connect" /\ connection' = {} /\ reply' = {}
    /\ UNCHANGED health /\ World

Next ==
    \/ Move \/ DeadlinePasses \/ Handle
    \/ Connect \/ Authenticate \/ ExchangeFails \/ Receive \/ Again

-----------------------------------------------------------------------------

\* An observation that is returned was made by a process of this user, the
\* expected one if one was expected, the one the kernel names for the
\* connection; after a drain its admission is closed
\* (client::request).
AnswersAreTrue ==
    \A h \in health :
        /\ h.process_id \in OwnUser
        /\ expected \subseteq {h.process_id}
        /\ operation = "DRAIN" => h.draining /\ h.process_id \in drained

\* A request is repeated only if no service can have executed it, whatever
\* happened to the connection (RequestError::is_transient).
NeverReplayed == handled <= 1
=============================================================================

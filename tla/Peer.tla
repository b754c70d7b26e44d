-------------------------------- MODULE Peer --------------------------------
(* Who is at the other end of a connection (peer.rs, local/peer.rs): the     *)
(* credentials each platform reports, and the policies that turn them into a *)
(* grant.  A named-pipe server runs as its client while it reads the         *)
(* client's user; a lookup by PID describes whoever has the PID by then.     *)
EXTENDS Integers, Sequences, SequencesExt, FiniteSetsExt

CONSTANTS Pids        \* the PIDs there are

Users == {"own", "other"}
Sides == {"linux", "macos", "server", "client"}

VARIABLES
    side,          \* the platform, and on Windows the end of the pipe this is
    connector,     \* the process that connected: its PID and user then
    owner,         \* the PID of the socket's most recent owner
    runs,          \* the user of the process that has each PID now, or "nobody"
    context,       \* whom the pipe says its client is: a user, "none", "anonymous"
    carried,       \* the users it has said
    thread,        \* whom this thread runs as: "process", "caller" or a client
    before,        \* whom it ran as when it was asked
    previous,      \* the token it is to go back to
    named,         \* the PID the operating system named
    client,        \* the client's user, as read
    stage,         \* where the call is
    credentials,   \* what it returned, {} or a set of one
    expected,      \* the PID in the record a policy compares with, or a set of none
    tiers,         \* the policies of First
    compared,      \* what each policy that was asked had for an expected PID
    granted        \* what they granted or why not

uvars == <<side, connector, owner, runs, context, carried, thread, before, previous, named, client,
           stage, credentials, expected, tiers, compared, granted>>

Init ==
    /\ side \in Sides
    /\ connector \in [pid : Pids, user : Users, visible : BOOLEAN]
    /\ connector.visible \/ side = "linux"
    /\ owner = connector.pid
    /\ runs = [p \in Pids |-> IF p = connector.pid THEN connector.user ELSE "nobody"]
    /\ context \in IF side = "server" THEN {connector.user, "none", "anonymous"} ELSE {"none"}
    /\ carried = {context} \cap Users
    /\ before \in IF side = "server" THEN {"process", "caller"} ELSE {"process"}
    /\ thread = before
    /\ previous = {} /\ named = {} /\ client = "nobody" /\ stage = "start" /\ credentials = {}
    /\ expected = {} /\ tiers = <<>> /\ compared = <<>> /\ granted = <<>>

-----------------------------------------------------------------------------
(* The rest of the machine.                                                  *)

Known == UNCHANGED <<side, connector, thread, before, previous, named, client, stage,
                     credentials, tiers, compared, granted>>

\* The peer exits while another process holds its end of the connection.
PeerExits ==
    /\ runs[connector.pid] # "nobody"
    /\ runs' = [runs EXCEPT ![connector.pid] = "nobody"]
    /\ Known /\ UNCHANGED <<owner, context, carried, expected>>

\* A process starts.
ProcessStarts(p, user) ==
    /\ runs[p] = "nobody" /\ runs' = [runs EXCEPT ![p] = user]
    /\ Known /\ UNCHANGED <<owner, context, carried, expected>>

\* The end is passed on.
EndPassed(p) ==
    /\ side = "macos" /\ owner' = p
    /\ Known /\ UNCHANGED <<runs, context, carried, expected>>

\* Dynamic context tracking: the pipe carries the user of the message that was
\* read last, who is whoever held the client's end and wrote it.
MessageRead(user) ==
    /\ side = "server" /\ context # "anonymous"
    /\ context' = user /\ carried' = carried \cup {user}
    /\ Known /\ UNCHANGED <<owner, runs, expected>>

\* The record that names a process changes.
RecordChanges(e) ==
    /\ expected' = e
    /\ Known /\ UNCHANGED <<owner, runs, context, carried>>

World ==
    \/ PeerExits \/ \E user \in Users : MessageRead(user)
    \/ \E p \in Pids : EndPassed(p) \/ \E user \in Users : ProcessStarts(p, user)
    \/ \E e \in {{p} : p \in Pids} : RecordChanges(e)

-----------------------------------------------------------------------------
(* Credentials.                                                              *)

Fixed == UNCHANGED <<side, connector, owner, runs, context, carried, before, expected, tiers,
                     compared, granted>>

\* Credentials::new
New(pid, same_user) == [pid |-> pid, same_user |-> same_user, user_evidence |-> "Connection"]

\* Credentials::with_user_evidence
WithUserEvidence(c, evidence) == [c EXCEPT !.user_evidence = evidence]

Report(c) == credentials' = {c} /\ stage' = "reported"

\* A query fails, and nothing is reported.
Fails(at) ==
    /\ stage = at /\ stage' = "error"
    /\ Fixed /\ UNCHANGED <<thread, previous, named, client, credentials>>

\* visible_pid: a peer of another PID namespace has PID 0.
VisiblePid == IF connector.visible THEN {connector.pid} ELSE {}

\* peer_credentials: what was recorded when the peer connected.
PeerCredentials == [pid |-> VisiblePid, user |-> connector.user]

FdCredentials ==
    /\ side = "linux" /\ stage = "start"
    /\ Report(New(PeerCredentials.pid, PeerCredentials.user = "own"))
    /\ Fixed /\ UNCHANGED <<thread, previous, named, client>>

\* macos_peer_uid: as recorded when the peer connected.
MacosPeerUid ==
    /\ side = "macos" /\ stage = "start"
    /\ client' = connector.user /\ stage' = "uid"
    /\ Fixed /\ UNCHANGED <<thread, previous, named, credentials>>

\* macos_credentials, macos_peer_pid: the most recent owner's.
MacosPeerPid ==
    /\ stage = "uid"
    /\ Report(New({owner}, client = "own"))
    /\ Fixed /\ UNCHANGED <<thread, previous, named, client>>

\* PeerCredentials::credentials, of a pipe.
ServerEnd == side = "server"

\* pipe_credentials: the peer's PID, and on a server's end its own user.
PipeCredentials ==
    /\ side \in {"server", "client"} /\ stage = "start"
    /\ named' = {connector.pid}
    /\ stage' = IF ServerEnd THEN "own" ELSE "lookup"
    /\ Fixed /\ UNCHANGED <<thread, previous, client, credentials>>

\* query_token_user: a token's user, unless its size or it cannot be read.
QueryTokenUser(user) == {user, "failed"}

\* token_user, of a process, if there is one and its token can be opened.
TokenUser(user) == IF user = "nobody" THEN {"failed"} ELSE QueryTokenUser(user)

\* thread_token: the token this thread has, if it has one.
ThreadToken == IF thread = "process" THEN {} ELSE {thread}

\* pipe_client_runs_as_this_user: this process's own user is read first.
OwnUser ==
    /\ stage = "own"
    /\ \E own \in TokenUser("own") : stage' = IF own = "failed" THEN "error" ELSE "client"
    /\ Fixed /\ UNCHANGED <<thread, previous, named, client, credentials>>

\* Impersonating::pipe_client. A pipe that carries no user yet falls back to
\* the lookup.
PipeClient ==
    /\ stage = "client"
    /\ IF context = "none" THEN stage' = "lookup" /\ UNCHANGED <<thread, previous>>
       ELSE previous' = ThreadToken /\ thread' = context /\ stage' = "impersonating"
    /\ Fixed /\ UNCHANGED <<named, client, credentials>>

\* thread_token_user: of the client this thread runs as, unless it is anonymous.
\* A failure, or a panic, drops the guard too.
ThreadTokenUser ==
    /\ stage = "impersonating"
    /\ \E user \in QueryTokenUser(thread) :
         /\ stage' = CASE user = "failed" -> "drop_error"
                       [] user = "anonymous" -> "drop_lookup"
                       [] OTHER -> "drop_compare"
         /\ client' = IF stage' = "drop_compare" THEN user ELSE client
    /\ Fixed /\ UNCHANGED <<thread, previous, named, credentials>>

Dropping == {"drop_lookup", "drop_compare", "drop_error"}

\* Fault: back to the process's own token, whatever the thread had.
RestoredToProcess == "process"

\* SetThreadToken or RevertToSelf.
Restored == IF previous = {} THEN "process" ELSE CHOOSE t \in previous : TRUE

\* Impersonating::drop, on every path.
Drop ==
    /\ stage \in Dropping
    /\ thread' = Restored /\ previous' = {}
    /\ stage' = CASE stage = "drop_lookup" -> "lookup" [] stage = "drop_compare" -> "compare"
                  [] OTHER -> "error"
    /\ Fixed /\ UNCHANGED <<named, client, credentials>>

\* Windows refuses: the process aborts.
DropFails ==
    /\ stage \in Dropping /\ stage' = "aborted"
    /\ Fixed /\ UNCHANGED <<thread, previous, named, client, credentials>>

SameSid(user, own) == user = own

\* pipe_client_runs_as_this_user, of the two users.
Compare ==
    /\ stage = "compare"
    /\ Report(New(named, SameSid(client, "own")))
    /\ Fixed /\ UNCHANGED <<thread, previous, named, client>>

\* Fault: the lookup passes for the connection's own word.
EvidenceOfLookupConnection == "Connection"

EvidenceOfLookup == "PidLookup"

\* process_runs_as_this_user, of whoever has the PID; an error if nobody does.
Lookup ==
    /\ stage = "lookup"
    /\ \E user \in TokenUser(runs[CHOOSE p \in named : TRUE]) :
         IF user = "failed" THEN stage' = "error" /\ UNCHANGED <<client, credentials>>
         ELSE /\ client' = user
              /\ Report(WithUserEvidence(New(named, SameSid(user, "own")), EvidenceOfLookup))
    /\ Fixed /\ UNCHANGED <<thread, previous, named>>

Collect ==
    \/ FdCredentials \/ MacosPeerUid \/ MacosPeerPid \/ PipeCredentials \/ OwnUser \/ PipeClient
    \/ ThreadTokenUser \/ Drop \/ DropFails \/ Compare \/ Lookup
    \/ \E at \in {"start", "uid", "own", "client"} : Fails(at)

-----------------------------------------------------------------------------
(* Policies.                                                                 *)

Ok(grant) == <<"Ok", grant>>
Err(reason) == <<"Err", reason>>

\* SameUser::grant
SameUser(c) == IF c.same_user THEN Ok("any") ELSE Err("OtherUser")

\* match_pid
MatchPid(observed, e) ==
    CASE observed = {} -> Err("Unreported") [] observed = e -> Ok("this")
      [] OTHER -> Err("OtherProcess")

\* ExpectedProcess::grant
ExpectedProcess(c, e) ==
    CASE SameUser(c) = Err("OtherUser") -> Err("OtherUser")
      [] e = {} -> Err("NoExpectedProcess")
      [] OTHER -> MatchPid(c.pid, e)

\* First::then: a policy, and what it grants.
Tiers == {<<"SameUser", "redacted">>, <<"ExpectedProcess", "full">>}

Try(tier, c, e) ==
    LET answer == IF tier[1] = "SameUser" THEN SameUser(c) ELSE ExpectedProcess(c, e)
    IN  IF answer[1] = "Ok" THEN Ok(tier[2]) ELSE answer

\* authenticate: the policies are asked one by one, and each reads for itself
\* what is expected by then.
Authenticate(list) ==
    /\ stage = "reported" /\ stage' = "granting"
    /\ tiers' = list /\ compared' = <<>> /\ granted' = Err("NoPolicy")
    /\ UNCHANGED <<side, connector, owner, runs, context, carried, thread, before, previous,
                   named, client, credentials, expected>>

\* Fault: a later policy decides too.
FirstOrLast == Len(compared) < Len(tiers)

\* First::grant: whether another policy is asked.
First == Len(compared) < Len(tiers) /\ granted[1] = "Err"

\* The first that accepts grants; if none does, the last one's reason stands.
Grant ==
    /\ stage = "granting"
    /\ IF First
       THEN LET tier == tiers[Len(compared) + 1] IN
            /\ granted' = Try(tier, CHOOSE c \in credentials : TRUE, expected)
            /\ compared' = Append(compared, expected) /\ UNCHANGED stage
       ELSE stage' = "authenticated" /\ UNCHANGED <<granted, compared>>
    /\ UNCHANGED <<side, connector, owner, runs, context, carried, thread, before, previous,
                   named, client, credentials, expected, tiers>>

Next == World \/ Collect \/ Grant \/ \E list \in BoundedSeq(Tiers, 2) : Authenticate(list)

-----------------------------------------------------------------------------

\* The thread runs as its caller left it whenever the call is over, unless the
\* process is. A user check that is said to come from the connection does: on
\* Unix it tells of the process that connected, and on a pipe of a user whose
\* message the pipe has carried, never of one that has the client's PID later.
\* The PID is the connecting process's, except on macOS, where it may be that of
\* a later owner of the socket. A grant is that of the first policy that accepts,
\* the full one only for the PID that was expected when that policy was asked
\* (Impersonating, pipe_credentials, fd_credentials, macos_credentials,
\* First::grant).
PeerIsTrue ==
    /\ stage \in {"reported", "error", "granting", "authenticated"} => thread = before
    /\ \A c \in credentials :
          /\ c.pid \subseteq (IF side = "macos" THEN Pids ELSE {connector.pid})
          /\ CASE c.user_evidence # "Connection" -> side \in {"server", "client"}
               [] side = "server" -> (IF c.same_user THEN "own" ELSE "other") \in carried
               [] OTHER -> c.same_user <=> connector.user = "own"
          /\ stage = "authenticated" =>
                LET accepts == {i \in DOMAIN compared : c.same_user /\
                                   (tiers[i][1] = "ExpectedProcess" =>
                                       compared[i] # {} /\ c.pid = compared[i])}
                IN  IF accepts = {} THEN granted[1] = "Err" /\ Len(compared) = Len(tiers)
                    ELSE granted = Ok(tiers[Min(accepts)][2])
=============================================================================

----------------------------- MODULE MCBoundary -----------------------------
(* What crosses the boundary of a process: how a daemon is spawned on either *)
(* system with its descriptors, handles and command line, what it says on    *)
(* its readiness channel and, on Windows, the pipe under it, what services   *)
(* are called, who is at the other end of a connection, and how messages are *)
(* encoded.  The parts share no state, so a behaviour follows one of them    *)
(* and leaves the others at rest.                                            *)
EXTENDS Integers, Sequences

CONSTANTS
    Silence, Budget, MaxSaid, Threads, MaxWritten, Std, Spawners,
    ArgLength, MaxChanges, Top, CAP, UNKNOWN, Limits,
    Sids, Ids, MAX_COMPONENT, MAX_NAME_BYTES, MAX_SOCKET_PATH_BYTES, MAX_PIPE_NAME_UNITS, MaxDir,
    Pids, MaxLength, Older, MaxSet

VARIABLES
    part,
    writer, pipe, open, said, said_ready, line, buffer, todo, age, reading, broken,
    state, quiet, news, closed, permit, launcher, lpc, timer, left, woken, outcome,
    onestep, policy, disposition, lock, at, kind, previous, child, reusedpid,
    handle, leaky, keeps, panicked,
    started, daemon, end, inherited, written, unread, got, connected, exited, ended,
    operation, woke,
    original, flagged, copies, held, stage, unseen, restore, stuck, plain, job,
    program, create, target, listing, heir, streams, incaller, daemons, killed,
    phase, args, text, split, quoted, slashes, within, changes, ready, env,
    table, marked, range, rlimit, wanted, kept, step, variable, notifier, heirs,
    service, directory, accepted,
    side, connector, owner, runs, context, carried, thread, before, former, named, client, asked,
    credentials, expected, tiers, compared, granted,
    peer, current, class, attributes, verdict, query,
    type, fields, newer, knows, wire, size, length, reader, unknown, turn

Channel == INSTANCE Readiness
Unix == INSTANCE SpawnUnix
Named == INSTANCE ReadyPipe
Windows == INSTANCE WindowsSpawn
Line == INSTANCE CommandLine
Files == INSTANCE Descriptors
Names == INSTANCE Naming
Other == INSTANCE Peer WITH previous <- former, stage <- asked
Tokens == INSTANCE Token
Message == INSTANCE Codec

channel_vars == <<writer, pipe, open, said, said_ready, line, buffer, todo, age,
                  reading, broken, state, quiet, news, closed, permit, launcher, lpc,
                  timer, left, woken, outcome>>
unix_vars == <<onestep, policy, disposition, lock, at, kind, previous, child,
               reusedpid, handle, leaky, keeps, panicked>>
pipe_vars == <<started, daemon, end, inherited, written, unread, got, connected,
               exited, ended, operation, woke>>
windows_vars == <<original, flagged, copies, held, stage, unseen, restore, stuck,
                  plain, job, program, create, target, listing, heir, streams, incaller,
                  daemons, killed>>
line_vars == <<phase, args, text, split, quoted, slashes, within, changes, ready, env>>
file_vars == <<table, marked, range, rlimit, wanted, kept, step, variable, notifier, heirs>>
names_vars == <<service, directory, accepted>>
other_vars == <<side, connector, owner, runs, context, carried, thread, before, former, named,
                client, asked, credentials, expected, tiers, compared, granted>>
tokens_vars == <<peer, current, class, attributes, verdict, query>>
codec_vars == <<type, fields, newer, knows, wire, size, length, reader, unknown, turn>>
spawn_vars == <<channel_vars, unix_vars, pipe_vars, windows_vars, line_vars, file_vars>>
who_vars == <<names_vars, other_vars, tokens_vars, codec_vars>>
vars == <<part, spawn_vars, who_vars>>

Init ==
    /\ part \in {"channel", "unix", "pipe", "windows", "line", "files", "names", "other",
                 "tokens", "codec"}
    /\ Channel!Init
    /\ part # "channel" => writer = "notifier" /\ launcher = [mode |-> "wait", async |-> FALSE]
    /\ Unix!Init
    /\ part # "unix" => onestep /\ policy = "default" /\ kind = [t \in Threads |-> "daemon"]
    /\ Named!Init
    /\ Windows!Init
    /\ IF part = "windows" THEN program = "exe" \/ original = {}
       ELSE /\ original = {} /\ job = "none" /\ program = "exe"
            /\ target = [stream \in {"out", "err"} |-> "Null"]
    /\ Line!Init
    /\ IF part = "files" THEN Files!Init ELSE Files!Rest
    /\ Names!Init
    /\ Other!Init
    /\ part # "other" =>
          side = "linux" /\ connector = [pid |-> 1, user |-> "own", visible |-> TRUE]
    /\ IF part = "tokens" THEN Tokens!Init ELSE Tokens!Rest
    /\ Message!Init

Next ==
    /\ UNCHANGED part
    /\ \/ /\ part = "channel" /\ Channel!Next
          /\ UNCHANGED <<unix_vars, pipe_vars, windows_vars, line_vars, file_vars, who_vars>>
       \/ /\ part = "unix" /\ Unix!Next
          /\ UNCHANGED <<channel_vars, pipe_vars, windows_vars, line_vars, file_vars, who_vars>>
       \/ /\ part = "pipe" /\ Named!Next
          /\ UNCHANGED <<channel_vars, unix_vars, windows_vars, line_vars, file_vars, who_vars>>
       \/ /\ part = "windows" /\ Windows!Next
          /\ UNCHANGED <<channel_vars, unix_vars, pipe_vars, line_vars, file_vars, who_vars>>
       \/ /\ part = "line" /\ Line!Next
          /\ UNCHANGED <<channel_vars, unix_vars, pipe_vars, windows_vars, file_vars, who_vars>>
       \/ /\ part = "files" /\ Files!Next
          /\ UNCHANGED <<channel_vars, unix_vars, pipe_vars, windows_vars, line_vars, who_vars>>
       \/ /\ part = "names" /\ Names!Next
          /\ UNCHANGED <<spawn_vars, other_vars, tokens_vars, codec_vars>>
       \/ /\ part = "other" /\ Other!Next
          /\ UNCHANGED <<spawn_vars, names_vars, tokens_vars, codec_vars>>
       \/ /\ part = "tokens" /\ Tokens!Next
          /\ UNCHANGED <<spawn_vars, names_vars, other_vars, codec_vars>>
       \/ /\ part = "codec" /\ Message!Next
          /\ UNCHANGED <<spawn_vars, names_vars, other_vars, tokens_vars>>

\* The channel's reader, the launcher and its timers run, and so does the
\* pipe's reader.
Spec ==
    /\ Init /\ [][Next]_vars
    /\ WF_channel_vars(part = "channel" /\ Channel!Reader)
    /\ WF_channel_vars(part = "channel" /\ Channel!Launcher)
    /\ WF_channel_vars(part = "channel" /\ Channel!Tick)
    /\ WF_pipe_vars(part = "pipe" /\ Named!Reader)

\* Whoever reads a readiness channel to its end has all that the daemon said,
\* whatever the pieces it came in and however soon the daemon closed the pipe or
\* exited, and no launcher sleeps on news it has not seen (read_messages,
\* Decoder::push, ready::Reader, Shared::post, Channel::wait_for_news).
ChannelTellsAll ==
    Channel!LearnsWhatWasSaid /\ Named!NothingLost /\ Channel!NoNewsMissed

\* Spawns on either system leave the process as it was; a daemon gets exactly
\* what is meant for it, descriptors, handles, arguments and environment, and
\* no other child gets the caller's standard handles or a readiness channel
\* (spawn_then, ready_pipe, in_new_session, StdioInheritGuard,
\* append_argument, environment_block, WindowsChild::kill).
SpawnsAreClean ==
    /\ Unix!SpawnIsClean /\ Windows!HandlesAreKept /\ Line!StartedAsAsked
    /\ Files!ChannelIsItsOwn

\* Two installations share no pipe and no file, not even where a file system
\* takes two names for one, and a directory holds the sockets it was accepted
\* for; a user check comes from where it is said to, grants are those of the
\* first policy that accepts, and the thread that read a client is itself again;
\* tokens are compared by what they hold and read within their buffers
\* (ServiceIdentity, SocketDir, pipe_credentials, First::grant, compare_tokens).
PeersAreKnown ==
    Names!NamesAreDistinct /\ Other!PeerIsTrue /\ Tokens!ComparesExactly /\ Tokens!ReadsWithin

\* A message arrives as it was sent, through a peer of another version too
\* (compute_size, write_to, merge_field).
MessagesSurvive == Message!MessagesSurvive

\* The waits around a readiness channel end: for the daemon's word, unless it
\* reports progress for ever to a launcher that sets no limit, and for the end of
\* the channel (Channel::wait, Signaled, ready::Reader::settle).
EveryWaitEnds ==
    /\ part = "channel" => Channel!LauncherReturns
    /\ part = "pipe" => Named!ReaderEnds
=============================================================================

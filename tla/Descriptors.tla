---------------------------- MODULE Descriptors ----------------------------
(* The descriptors of a daemon from its launcher to the programs it starts   *)
(* (ready_pipe, in_new_session and take_ready_descriptor of local/unix.rs,   *)
(* Notifier::from_env).  A descriptor number names what is open there; exec  *)
(* closes the numbers marked close-on-exec.                                  *)
EXTENDS Integers, FiniteSets

CONSTANTS
    Top,       \* bound: the highest descriptor number
    CAP,       \* the highest limit the sweep considers
    UNKNOWN,   \* the limit it takes when there is none to read
    Limits     \* the soft limits there may be

VARIABLES
    table,      \* what each number names, in the process at hand
    marked,     \* the numbers that are close-on-exec
    range,      \* the kernel has close_range
    rlimit,     \* the soft limit, if it can be read
    wanted,     \* the command has a readiness channel
    kept,       \* the daemon's end of the channel, if there is one
    step,       \* where the launch is
    variable,   \* what the environment says the channel is, if anything
    notifier,   \* the number the daemon's notifier owns
    heirs       \* what a program of the daemon's holds

dvars == <<table, marked, range, rlimit, wanted, kept, step, variable, notifier, heirs>>

Fds == 0 .. Top
Streams == 0 .. 2
Open == {fd \in Fds : table[fd] # "closed"}
Free(from) == {fd \in Fds \ Open : fd >= from}
Lowest(fds) == CHOOSE fd \in fds : \A other \in fds : fd <= other

\* The launcher may lack standard streams, and have inheritable files and
\* pipes of others.
Init ==
    /\ table \in [Fds -> {"closed", "file", "write"}]
    /\ \A fd \in Streams : table[fd] # "write"
    /\ marked = {} /\ range \in BOOLEAN /\ rlimit \in {{}} \cup {{limit} : limit \in Limits}
    /\ wanted \in BOOLEAN /\ kept = {} /\ step = "start"
    /\ variable = {} /\ notifier = {} /\ heirs = {}

\* A launch that does not come.
Rest ==
    /\ table = [fd \in Fds |-> "closed"] /\ marked = {} /\ range = TRUE /\ rlimit = {}
    /\ wanted = FALSE /\ kept = {} /\ step = "start"
    /\ variable = {} /\ notifier = {} /\ heirs = {}

Fixed == UNCHANGED <<range, rlimit, wanted>>
Outside == UNCHANGED <<variable, notifier, heirs>>
Fails == step' = "failed" /\ UNCHANGED <<table, marked, kept, variable>>

-----------------------------------------------------------------------------
(* The launcher.                                                             *)

\* Fault: the daemon's end stays where the pipe put it.
RaisedNot(writer, free) == writer

\* The daemon's end is moved to 3 or above.
Raised(writer, free) == Lowest(free)

ready_pipe ==
    LET reader == Lowest(Free(0))
        writer == Lowest(Free(0) \ {reader})
        free == Free(3) \ {reader, writer}
    IN  /\ step = "start" /\ wanted
        /\ IF Cardinality(Free(0)) < 2 \/ free = {} THEN Fails
           ELSE LET raised == Raised(writer, free)
                IN  /\ table' = [table EXCEPT ![reader] = "read", ![raised] = "channel"]
                    /\ marked' = {reader, raised} /\ kept' = {raised}
                    /\ variable' = {raised} /\ step' = "piped"
        /\ UNCHANGED <<notifier, heirs>> /\ Fixed

\* No channel; whoever started the launcher may have left a variable.
NoChannel ==
    /\ step = "start" /\ ~wanted /\ step' = "piped"
    /\ variable' \in {{}} \cup {{value} : value \in Fds \cup {-1}}
    /\ UNCHANGED <<table, marked, kept, notifier, heirs>> /\ Fixed

\* The child has its standard streams before the hook runs.
Fork ==
    /\ step = "piped" /\ step' = "forked"
    /\ table' = [fd \in Fds |-> IF fd \in Streams THEN "stream" ELSE table[fd]]
    /\ marked' = marked \ Streams
    /\ UNCHANGED kept /\ Outside /\ Fixed

Smaller(a, b) == IF a < b THEN a ELSE b

descriptor_limit ==
    Smaller(CAP, IF rlimit = {} THEN UNKNOWN ELSE CHOOSE limit \in rlimit : TRUE)

mark_inherited_descriptors_cloexec ==
    {fd \in Open \ Streams : range \/ fd < descriptor_limit}

\* Fault: the channel is spared before the sweep.
PrepareKeepFirst == (marked \ kept) \cup mark_inherited_descriptors_cloexec

\* The hook of in_new_session: the sweep, then the channel is spared.
Prepare == (marked \cup mark_inherited_descriptors_cloexec) \ kept

\* checked: -1 fails the spawn.
in_new_session ==
    /\ step = "forked"
    /\ \/ Fails
       \/ kept \subseteq Open /\ marked' = Prepare /\ step' = "prepared" /\ UNCHANGED <<table, kept, variable>>
    /\ UNCHANGED <<notifier, heirs>> /\ Fixed

Exec ==
    /\ step = "prepared" /\ step' = "daemon"
    /\ table' = [fd \in Fds |-> IF fd \in marked THEN "closed" ELSE table[fd]]
    /\ marked' = {} /\ UNCHANGED kept /\ Outside /\ Fixed

-----------------------------------------------------------------------------
(* The daemon.                                                               *)

\* Refused: no number, a standard stream, nothing open, no write end of a pipe.
Refused(value) == value <= 2 \/ table[value] \notin {"channel", "write"}

\* Fault: the end stays inheritable.
TakenInheritable(value) == notifier' = {value} /\ UNCHANGED marked

Taken(value) == notifier' = {value} /\ marked' = marked \cup {value}

take_ready_descriptor(value) ==
    IF Refused(value) THEN UNCHANGED <<notifier, marked>> ELSE Taken(value)

\* Notifier::from_env, first thing in main: the variable goes in any case.
from_env ==
    /\ step = "daemon" /\ step' = "serving" /\ variable' = {}
    /\ IF variable = {} THEN UNCHANGED <<notifier, marked>>
       ELSE \E value \in variable : take_ready_descriptor(value)
    /\ UNCHANGED <<table, kept, heirs>> /\ Fixed

\* The daemon starts a program.
Program ==
    /\ step = "serving" /\ step' = "done"
    /\ heirs' = {table[fd] : fd \in Open \ marked}
    /\ UNCHANGED <<table, marked, kept, variable, notifier>> /\ Fixed

Next == ready_pipe \/ NoChannel \/ Fork \/ in_new_session \/ Exec \/ from_env \/ Program

-----------------------------------------------------------------------------

\* A daemon starts with its standard streams and its own channel, whichever
\* descriptors its launcher had or lacked, except that the loop that replaces
\* close_range stops at the limit; it takes that channel over, never a stream
\* or anything but a write end; and no program it starts holds the channel or
\* sees its variable (ready_pipe, in_new_session, take_ready_descriptor).
ChannelIsItsOwn ==
    /\ step \in {"daemon", "serving", "done"} =>
          /\ \A fd \in Open \ Streams : fd \in kept \/ (~range /\ fd >= descriptor_limit)
          /\ \A fd \in kept : table[fd] = "channel"
    /\ step \in {"serving", "done"} =>
          /\ wanted => notifier = kept /\ notifier # {}
          /\ \A fd \in notifier : fd > 2 /\ table[fd] \in {"channel", "write"}
          /\ variable = {}
    /\ "channel" \notin heirs
=============================================================================

---------------------------- MODULE CommandLine ----------------------------
(* The command line and environment of a daemon on Windows (launch.rs,       *)
(* local/command_line.rs): the arguments are put into one line, which the    *)
(* C runtime of the daemon splits again, reading it unit by unit; and the    *)
(* caller's changes are made to the inherited environment, where names that  *)
(* differ only in case are one, and then the name of the daemon's readiness  *)
(* pipe is put there or taken out.                                           *)
EXTENDS Integers, Sequences, FiniteSets, SequencesExt

CONSTANTS
    ArgLength,      \* bound: units in an argument
    MaxChanges    \* bound: changes to the environment

VARIABLES
    phase,     \* "args", "split", "change", "started" or "refused"
    args,      \* the arguments
    text,      \* what is left of the line
    split,     \* the arguments the daemon has so far
    quoted,    \* it is between quotes
    slashes,   \* backslashes it has not yet given out
    within,    \* it is within an argument
    changes,   \* the changes made, in order
    ready,     \* a readiness channel was asked for
    env        \* the environment, in the order of the list

avars == <<phase, args, text, split, quoted, slashes, within, changes, ready, env>>

QUOTE == "quote"
BACKSLASH == "backslash"
SPACE == "space"
Unit == {QUOTE, BACKSLASH, SPACE, "letter"}

-----------------------------------------------------------------------------
(* The line.                                                                 *)

needs_quotes(arg) == arg = <<>> \/ \E i \in DOMAIN arg : arg[i] \in {SPACE, QUOTE}

Slashes(n) == [i \in 1..n |-> BACKSLASH]

\* Fault: backslashes at the end are copied.
AtEndOnce(n) == Slashes(n)

\* Backslashes before the closing quote are doubled.
AtEnd(n) == Slashes(2 * n)

\* append_argument, one unit at a time.
Escape(s, unit) ==
    CASE unit = BACKSLASH -> [s EXCEPT !.n = @ + 1]
      [] unit = QUOTE -> [line |-> s.line \o Slashes(2 * s.n + 1) \o <<QUOTE>>, n |-> 0]
      [] OTHER -> [line |-> s.line \o Slashes(s.n) \o <<unit>>, n |-> 0]

append_argument(arg) ==
    IF ~needs_quotes(arg) THEN arg
    ELSE LET s == FoldLeft(Escape, [line |-> <<QUOTE>>, n |-> 0], arg)
         IN  s.line \o AtEnd(s.n) \o <<QUOTE>>

\* command_line, after the program, which is quoted and has no quote.
command_line(all) == FlattenSeq([i \in DOMAIN all |-> <<SPACE>> \o append_argument(all[i])])

-----------------------------------------------------------------------------
(* The environment: names by spelling, in any case.                          *)

ENV == "READY"
Name == {"path", "PATH", "ready", ENV}
folded(name) == IF name = "path" THEN "PATH" ELSE IF name = "ready" THEN ENV ELSE name
same_name(a, b) == folded(a) = folded(b)

Change == [op : {"Set"}, name : Name, value : {1, 2}] \cup [op : {"Remove"}, name : Name, value : {0}]

\* One change of environment_block.
Apply(list, change) ==
    SelectSeq(list, LAMBDA v : ~same_name(v.name, change.name))
        \o (IF change.op = "Set" THEN <<[name |-> change.name, value |-> change.value]>> ELSE <<>>)

\* All of them in order, and the list sorted by name.
environment_block(inherited, all) ==
    LET vars == FoldLeft(Apply, inherited, all)
    IN  SelectSeq(vars, LAMBDA v : folded(v.name) = "PATH")
            \o SelectSeq(vars, LAMBDA v : folded(v.name) = ENV)

Pipe == 3   \* the name of the readiness pipe
Stale == 4  \* the name of one this process was given

\* Fault: without a channel the variable is left alone.
ReadinessOnlySet == IF ready THEN <<[op |-> "Set", name |-> ENV, value |-> Pipe]>> ELSE <<>>

\* What DaemonCommand::spawn adds to the changes.
Readiness ==
    <<IF ready THEN [op |-> "Set", name |-> ENV, value |-> Pipe]
      ELSE [op |-> "Remove", name |-> ENV, value |-> 0]>>

-----------------------------------------------------------------------------

Arguments == UNION {[1..n -> Unit] : n \in 0..ArgLength}

\* DaemonCommand::new. This process may have been given a channel of its own.
Init ==
    /\ phase = "args" /\ args = <<>> /\ text = <<>> /\ split = <<>>
    /\ quoted = FALSE /\ slashes = 0 /\ within = FALSE
    /\ changes = <<>> /\ ready = FALSE
    /\ env = <<[name |-> "PATH", value |-> 0], [name |-> ENV, value |-> Stale]>>

Reading == <<split, quoted, slashes, within>>

arg ==
    /\ phase = "args" /\ args = <<>>
    /\ \E first \in Arguments : args' = Append(args, first)
    /\ UNCHANGED <<phase, text, Reading, changes, ready, env>>

args_more ==
    /\ phase = "args" /\ Len(args) = 1
    /\ \E more \in {<<<<"letter">>>>, <<<<>>>>} : args' = args \o more
    /\ UNCHANGED <<phase, text, Reading, changes, ready, env>>

Spawn ==
    /\ phase = "args" /\ args # <<>> /\ phase' = "split"
    /\ text' = command_line(args)
    /\ UNCHANGED <<args, Reading, changes, ready, env>>

\* A program with a quote or without a name, and a NUL anywhere, are refused.
Refuse ==
    /\ phase = "args" /\ phase' = "refused"
    /\ UNCHANGED <<args, text, Reading, changes, ready, env>>

\* The unit goes to the argument at hand, or begins one.
Give(units) ==
    LET last == Len(split) IN
    split' = IF within THEN [split EXCEPT ![last] = @ \o units] ELSE Append(split, units)

\* The C runtime: 2n backslashes and a quote are n and a quotation mark, 2n+1
\* are n and a quote; other backslashes are themselves.
Split ==
    /\ phase = "split" /\ text # <<>>
    /\ LET unit == Head(text) IN
       CASE unit = BACKSLASH ->
               /\ Give(<<>>) /\ within' = TRUE /\ slashes' = slashes + 1 /\ UNCHANGED quoted
         [] unit = QUOTE /\ slashes % 2 = 0 ->
               /\ Give(Slashes(slashes \div 2)) /\ within' = TRUE /\ slashes' = 0
               /\ quoted' = ~quoted
         [] unit = QUOTE /\ slashes % 2 = 1 ->
               /\ Give(Slashes(slashes \div 2) \o <<QUOTE>>) /\ within' = TRUE /\ slashes' = 0
               /\ UNCHANGED quoted
         [] unit = SPACE /\ ~quoted ->
               /\ IF within THEN Give(Slashes(slashes)) ELSE UNCHANGED split
               /\ within' = FALSE /\ slashes' = 0 /\ UNCHANGED quoted
         [] OTHER ->
               /\ Give(Slashes(slashes) \o <<unit>>) /\ within' = TRUE /\ slashes' = 0
               /\ UNCHANGED quoted
    /\ text' = Tail(text)
    /\ UNCHANGED <<phase, args, changes, ready, env>>

SplitEnds ==
    /\ phase = "split" /\ text = <<>> /\ phase' = "change"
    /\ IF within THEN Give(Slashes(slashes)) ELSE UNCHANGED split
    /\ within' = FALSE /\ slashes' = 0
    /\ UNCHANGED <<args, text, quoted, changes, ready, env>>

\* The changes, for the shortest of the lines.
Changing ==
    /\ phase = "change" /\ args = <<<<>>>>
    /\ UNCHANGED <<args, text, Reading>>

\* DaemonCommand::env
env_set ==
    /\ Changing /\ Len(changes) < MaxChanges
    /\ \E change \in Change : change.op = "Set" /\ changes' = Append(changes, change)
    /\ UNCHANGED <<phase, ready, env>>

env_remove ==
    /\ Changing /\ Len(changes) < MaxChanges
    /\ \E change \in Change : change.op = "Remove" /\ changes' = Append(changes, change)
    /\ UNCHANGED <<phase, ready, env>>

readiness_channel == Changing /\ ready' = TRUE /\ UNCHANGED <<phase, changes, env>>

\* DaemonCommand::from: the changes of a command, one for each name, and
\* neither its streams nor a channel.
From ==
    /\ Changing /\ changes = <<>> /\ ready' = FALSE
    /\ \E first, second \in Change :
          ~same_name(first.name, second.name) /\ changes' = <<first, second>>
    /\ UNCHANGED <<phase, env>>

\* DaemonCommand::spawn: the readiness variable comes last.
Start ==
    /\ Changing /\ phase' = "started"
    /\ env' = environment_block(env, changes \o Readiness)
    /\ UNCHANGED <<changes, ready>>

\* A name that is empty or has an equals sign or NUL in it is refused.
RefuseName == Changing /\ phase' = "refused" /\ UNCHANGED <<changes, ready, env>>

Next ==
    \/ arg \/ args_more \/ Spawn \/ Refuse \/ RefuseName \/ Split \/ SplitEnds
    \/ env_set \/ env_remove \/ readiness_channel \/ From \/ Start

-----------------------------------------------------------------------------

Says(name) == {i \in DOMAIN changes : same_name(changes[i].name, name)}
Latest(S) == CHOOSE i \in S : \A j \in S : j <= i

\* The daemon is started with the arguments and the environment its launcher
\* asked for: its C runtime splits the line into the same arguments, for each
\* name, however spelled, the last change to it decides, and it is given a
\* readiness pipe if there is one for it and never that of its launcher
\* (append_argument, environment_block, DaemonCommand::spawn).
StartedAsAsked ==
    /\ phase = "change" => split = args
    /\ phase = "started" =>
        LET given(name) == {env[i] : i \in {j \in DOMAIN env : same_name(env[j].name, name)}} IN
        /\ given(ENV) = IF ready THEN {[name |-> ENV, value |-> Pipe]} ELSE {}
        /\ IF Says("PATH") = {} THEN given("PATH") # {}
           ELSE LET c == changes[Latest(Says("PATH"))] IN
                given("PATH") =
                    IF c.op = "Remove" THEN {} ELSE {[name |-> c.name, value |-> c.value]}
        /\ \A i, j \in DOMAIN env : same_name(env[i].name, env[j].name) => i = j
=============================================================================

----------------------------- MODULE MCSession -----------------------------
(* What passes between two processes: a binary session, a subscription to    *)
(* lifecycle events, a control request, the wait for a selection and the     *)
(* platform I/O under them.  The parts share no state, so a behaviour        *)
(* follows one of them and leaves the others at rest.                        *)
EXTENDS Session

CONSTANTS
    Own, Generations, Builds, OwnBuild, Buffered,
    Pids, OwnUser, NoPid, MaxMoves,
    CommitBudget, ProofBudgets, PollInterval

\* Offers that agree, that differ in limit, capabilities, version or service,
\* that require what the other lacks, and one that is not valid.
Plain == [service |-> "s", minimum |-> 2, maximum |-> 2, supported |-> {"HEALTH", "WATCH"},
          required |-> {}, max_frame |-> 3, reads_refusal |-> TRUE]
Offers ==
    {Plain,
     [Plain EXCEPT !.supported = {"HEALTH"}, !.max_frame = 1],
     [Plain EXCEPT !.required = {"WATCH"}, !.max_frame = 2],
     [Plain EXCEPT !.supported = {"HEALTH"}, !.reads_refusal = FALSE],
     [Plain EXCEPT !.minimum = 1, !.maximum = 1],
     [Plain EXCEPT !.minimum = 3, !.maximum = 3],
     [Plain EXCEPT !.service = "t"],
     [Plain EXCEPT !.required = {"DRAIN"}]}
ControlMessages ==
    {[operation |-> "HEALTH", size |-> 1], [operation |-> "WATCH", size |-> 3],
     [operation |-> "PREPARE", size |-> 1], [operation |-> "unknown", size |-> 1]}

VARIABLES
    part,
    marked_ready, draining, published, unseen, pending, task, view, previous, sequence,
    stream, latest, subscriber,
    endpoint, operation, expected, late, step, connection, reply, drained, handled,
    health, moves,
    socket, nonblocking, active, transition, bounded, due, room, bytes, writing, reading,
    clearing,
    kernel, signalled, transfer, woke, returned,
    runner, proofBudget, elapsed, named, serving, seen, committedAt, readAt, until, round,
    reached, nap, result

Events == INSTANCE Watch
Ask == INSTANCE Request
Setup == INSTANCE SetupIo
Choice == INSTANCE Selection WITH pc <- round

event_vars == <<marked_ready, draining, published, unseen, pending, task, view, previous,
                sequence, stream, latest, subscriber>>
ask_vars == <<endpoint, operation, expected, late, step, connection, reply, drained,
              handled, health, moves>>
setup_vars == <<socket, nonblocking, active, transition, bounded, due, room, bytes, writing,
                reading, clearing>>
pipe_vars == <<kernel, signalled, transfer, woke, returned>>
choice_vars == <<runner, proofBudget, elapsed, named, serving, seen, committedAt, readAt, until,
                 round, reached, nap, result>>
vars == <<part, svars, event_vars, ask_vars, setup_vars, pipe_vars, choice_vars>>

Init ==
    /\ part \in {"wire", "events", "ask", "setup", "pipe", "choice"}
    /\ SessionInit /\ Events!Init /\ Ask!Init /\ Setup!Init /\ Setup!TransferInit /\ Choice!Init
    /\ part # "wire" => offers = [e \in Ends |-> Plain] /\ purpose = "accept"
    /\ part # "ask" => endpoint = {} /\ operation = "HEALTH" /\ expected = {}
    /\ part # "setup" => socket /\ bounded /\ room /\ bytes
    /\ part # "choice" => /\ runner = "async" /\ named = {} /\ ~serving
                          /\ \A budget \in ProofBudgets : proofBudget <= budget

Next ==
    /\ UNCHANGED part
    /\ \/ /\ part = "wire" /\ SessionNext
          /\ UNCHANGED <<event_vars, ask_vars, setup_vars, pipe_vars, choice_vars>>
       \/ /\ part = "events" /\ Events!Next
          /\ UNCHANGED <<svars, ask_vars, setup_vars, pipe_vars, choice_vars>>
       \/ /\ part = "ask" /\ Ask!Next
          /\ UNCHANGED <<svars, event_vars, setup_vars, pipe_vars, choice_vars>>
       \/ /\ part = "setup" /\ Setup!Next
          /\ UNCHANGED <<svars, event_vars, ask_vars, pipe_vars, choice_vars>>
       \/ /\ part = "pipe" /\ Setup!TransferNext
          /\ UNCHANGED <<svars, event_vars, ask_vars, setup_vars, choice_vars>>
       \/ /\ part = "choice" /\ Choice!Next
          /\ UNCHANGED <<svars, event_vars, ask_vars, setup_vars, pipe_vars>>

\* Both ends of a handshake run; a subscription's task, the calls it reports
\* and its client run; the threads of a connection run and its deadline passes;
\* who waits for a selection runs, and a blocking probe returns.
Spec ==
    /\ Init /\ [][Next]_vars
    /\ \A e \in {"client", "server"} : WF_svars(part = "wire" /\ Establish(e))
    /\ WF_event_vars(part = "events" /\ Events!Serve)
    /\ WF_event_vars(part = "events" /\ Events!Complete)
    /\ WF_event_vars(part = "events" /\ Events!Changed)
    /\ WF_setup_vars(part = "setup" /\ Setup!Write)
    /\ WF_setup_vars(part = "setup" /\ Setup!Clear)
    /\ WF_setup_vars(part = "setup" /\ Setup!ReadUntil)
    /\ WF_setup_vars(part = "setup" /\ Setup!DeadlinePasses)
    /\ WF_choice_vars(part = "choice" /\ Choice!Tick)
    /\ WF_choice_vars(part = "choice" /\ (Choice!ReadRecord \/ Choice!NoteRecord))
    /\ WF_choice_vars(part = "choice" /\ nap = 0 /\ Choice!NextRound)
    /\ WF_choice_vars(part = "choice" /\ Choice!ProbeTimesOut)
    /\ WF_choice_vars(part = "choice" /\ runner = "blocking"
                        /\ (Choice!ProbeReaches \/ Choice!ProbeAnswers))

\* Budgets are times, and a generation is a number.
ASSUME BudgetsAreTimes ==
    CommitBudget \in Nat /\ ProofBudgets \subseteq Nat /\ PollInterval \in Nat
ASSUME GenerationsAreNumbers == Generations \subseteq Nat /\ Own \in Nat

\* A client accepts every event the service sends, takes an observation only
\* from the process it expects and repeats only a request that nobody executed
\* (serve_watch, decode_event, client::request, RequestError::is_transient).
AnswersAreTrue == Events!EventsAccepted /\ Ask!AnswersAreTrue /\ Ask!NeverReplayed

\* No operation meets a socket in the wrong mode, and the kernel keeps no buffer
\* the caller has got back (UnixReader::read, UnixWriter::write,
\* transfer_overlapped).
IoIsSafe == Setup!ModesMatch /\ Setup!BufferIsReturned

\* What a wait for a selection reports is evidence: of a commit it has read, or
\* of a candidate that answered within both budgets (decide, Watch::record).
EvidenceIsReal == Choice!EvidenceIsReal

\* The wait gives up neither early nor against what it has read (decide, watch).
GivesUpRightly == Choice!GivesUpRightly

\* The ends never wait for each other, in a handshake or when setup ends, a
\* subscriber that keeps reading learns the final state, and the wait for a
\* selection ends (Session::connect, accept, clear_read_deadline, serve_watch,
\* await_selection).
NobodyWaitsForever ==
    /\ part = "wire" => HandshakeEnds
    /\ Setup!SetupEnds
    /\ part = "events" => Events!WatcherCatchesUp
    /\ part = "choice" => Choice!WaitEnds
=============================================================================

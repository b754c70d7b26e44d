----------------------------- MODULE Readiness -----------------------------
(* The readiness channel (readiness/channel.rs): a daemon writes lines into  *)
(* a pipe, a reader thread decodes them and posts events, and the launcher   *)
(* waits for them, in a thread or in a task, alone (Channel::wait) or        *)
(* between probes of other evidence (Signaled).  Time is measured in ticks,  *)
(* relative to the last message and to the launcher's timers.                *)
EXTENDS Integers, Sequences

CONSTANTS
    Silence,     \* ticks a launcher allows between messages
    Budget,      \* ticks a selection allows
    MaxSaid      \* bound: messages that are on their way at once

VARIABLES
    writer,      \* "notifier", or a program that writes lines of its own
    pipe,        \* bytes written and not read
    open,        \* the daemon holds the pipe's write end
    said,        \* progress messages sent and not yet counted
    said_ready,  \* "ready" was sent
    line,        \* Decoder::line
    buffer,      \* bytes read and not decoded
    todo,        \* what is left of post(): its event and steps
    age,         \* ticks since post() read the clock
    reading,     \* the reader thread runs
    broken,      \* a read has failed
    state,       \* Tracker::state
    quiet,       \* ticks since Tracker::last_message, up to Silence
    news,        \* Inner::version is not Signaled::seen
    closed,      \* Shared::closed
    permit,      \* the permit that notify_one leaves
    launcher,    \* [mode, async]: how this launcher waits
    lpc, timer, left, woken,
    outcome      \* what the launcher was told

cvars == <<writer, pipe, open, said, said_ready, line, buffer, todo, age, reading, broken,
           state, quiet, news, closed, permit, launcher, lpc, timer, left, woken, outcome>>
Daemon == <<writer, pipe, open, said, said_ready>>
Decoding == <<line, buffer, reading, broken>>
Tracked == <<state, quiet>>
Launching == <<closed, launcher, lpc, timer, left, outcome>>

\* One token stands for the word "ready", the word "progress", a space, a
\* printable byte of a detail, another byte and the newline.
MAX_MESSAGE == 4
MAX_DETAIL == MAX_MESSAGE - 3
Details == {<<>>, <<"d">>, <<"d", "d">>, <<"x">>}
OtherLines == {<<"x", "n">>, <<"p", " ", "n">>, <<"r", "d", "n">>, <<"r", "n">>,
               <<"p", " ", "d", "d", "n">>}

Printable(bytes) == \A i \in 1..Len(bytes) : bytes[i] \in {" ", "d"}

Parse(l) ==
    CASE l = <<"r">> -> "Ready"
      [] l = <<"p">> -> "Progress"
      [] Len(l) > 2 /\ SubSeq(l, 1, 2) = <<"p", " ">> /\ Printable(SubSeq(l, 3, Len(l)))
            -> "Progress"
      [] OTHER -> "Malformed"

ProgressLine(detail) ==
    IF Len(detail) > MAX_DETAIL \/ ~Printable(detail) THEN <<>>
    ELSE <<"p">> \o (IF detail = <<>> THEN <<>> ELSE <<" ">> \o detail) \o <<"n">>

Init ==
    /\ writer \in {"notifier", "other"}
    /\ pipe = <<>> /\ open = TRUE /\ said = 0 /\ said_ready = FALSE
    /\ line = <<>> /\ buffer = <<>> /\ todo = <<>> /\ age = 0
    /\ reading = TRUE /\ broken = FALSE
    /\ state = "Waiting" /\ quiet = 0 /\ news = FALSE
    /\ closed = FALSE /\ permit = FALSE
    /\ launcher \in [mode : {"wait", "signaled"}, async : BOOLEAN]
    /\ lpc = (IF launcher.mode = "wait" THEN "decide" ELSE "probe")
    /\ timer = 0 /\ left = Budget /\ woken = FALSE /\ outcome = "none"

-----------------------------------------------------------------------------
(* The daemon's end.                                                         *)

DaemonStep == UNCHANGED <<todo, age, news, permit, woken>> /\ UNCHANGED Decoding
                /\ UNCHANGED Tracked /\ UNCHANGED Launching

\* Notifier::progress, any number of times; a detail it refuses is an error, and
\* nothing is sent.
Progress ==
    /\ writer = "notifier" /\ open /\ said < MaxSaid
    /\ \E detail \in Details :
        /\ ProgressLine(detail) # <<>>
        /\ pipe' = pipe \o ProgressLine(detail)
    /\ said' = said + 1
    /\ UNCHANGED <<writer, open, said_ready>> /\ DaemonStep

\* Notifier::ready consumes the notifier, which closes its end.
Ready ==
    /\ writer = "notifier" /\ open
    /\ pipe' = pipe \o <<"r", "n">> /\ said_ready' = TRUE /\ open' = FALSE
    /\ UNCHANGED <<writer, said>> /\ DaemonStep

OtherWrites ==
    /\ writer = "other" /\ open /\ said < MaxSaid
    /\ \E l \in OtherLines :
        /\ pipe' = pipe \o l
        /\ said_ready' = (said_ready \/ l = <<"r", "n">>)
    /\ said' = said + 1
    /\ UNCHANGED <<writer, open>> /\ DaemonStep

\* The daemon exits, or drops its notifier.
Close ==
    /\ open /\ open' = FALSE
    /\ UNCHANGED <<writer, pipe, said, said_ready>> /\ DaemonStep

-----------------------------------------------------------------------------
(* The reader thread.                                                        *)

\* Fault: waiters are woken before the event is recorded.
PostOrderReversed == <<"notify", "record">>

PostOrder == <<"record", "notify">>

Posting(event) == todo' = <<event>> \o PostOrder /\ age' = 0

\* Fault: one byte less than the longest message fits.
PushShort(byte) == Len(line) >= MAX_MESSAGE - 2

\* Decoder::push refuses a byte that no line has room for.
Push(byte) == Len(line) >= MAX_MESSAGE - 1

\* A read returns bytes, the end or an error; a closed channel ends the thread.
Read ==
    /\ reading /\ todo = <<>> /\ buffer = <<>>
    /\ \/ /\ pipe # <<>>
          /\ \E k \in 1..Len(pipe) :
                /\ k <= MAX_MESSAGE
                /\ pipe' = SubSeq(pipe, k + 1, Len(pipe))
                /\ buffer' = (IF closed THEN <<>> ELSE SubSeq(pipe, 1, k))
          /\ reading' = ~closed
          /\ UNCHANGED <<broken, todo, age>>
       \/ /\ pipe = <<>> /\ ~open
          /\ reading' = FALSE
          /\ IF closed THEN UNCHANGED <<todo, age>> ELSE Posting("Died")
          /\ UNCHANGED <<pipe, buffer, broken>>
       \/ /\ reading' = FALSE /\ broken' = TRUE
          /\ IF closed THEN UNCHANGED <<todo, age>> ELSE Posting("Died")
          /\ UNCHANGED <<pipe, buffer>>
    /\ UNCHANGED <<writer, open, said, said_ready, line, news, permit, woken>>
    /\ UNCHANGED Tracked /\ UNCHANGED Launching

\* One byte of the buffer; ready and malformed lines end the thread.
Decode ==
    /\ todo = <<>> /\ buffer # <<>>
    /\ LET byte == Head(buffer)
           full == byte # "n" /\ Push(byte)
           message == IF full THEN "Malformed" ELSE Parse(line)
       IN  IF byte = "n" \/ full
           THEN /\ line' = <<>>
                /\ Posting(message)
                /\ reading' = (message = "Progress")
                /\ buffer' = (IF message = "Progress" THEN Tail(buffer) ELSE <<>>)
           ELSE /\ line' = Append(line, byte) /\ buffer' = Tail(buffer)
                /\ UNCHANGED <<todo, age, reading>>
    /\ UNCHANGED <<broken, news, permit, woken>>
    /\ UNCHANGED Daemon /\ UNCHANGED Tracked /\ UNCHANGED Launching

\* Tracker::record: an answer is final.
NextState(event) ==
    IF state \in {"Ready", "Died", "Malformed"} THEN state
    ELSE IF event = "Progress" THEN "Progressing" ELSE event

\* post() under the lock.
Record ==
    /\ Len(todo) > 1 /\ todo[2] = "record"
    /\ state' = NextState(todo[1])
    /\ quiet' = (IF state \in {"Ready", "Died", "Malformed"} \/ quiet < age THEN quiet ELSE age)
    /\ news' = TRUE
    /\ said' = said - (IF todo[1] = "Progress" THEN 1 ELSE 0)
    /\ todo' = (IF Len(todo) = 2 THEN <<>> ELSE <<todo[1]>> \o SubSeq(todo, 3, Len(todo)))
    /\ UNCHANGED <<writer, pipe, open, said_ready, age, permit, woken>>
    /\ UNCHANGED Decoding /\ UNCHANGED Launching

\* post() after it: the condition variable and the task's notification.
Notify ==
    /\ Len(todo) > 1 /\ todo[2] = "notify"
    /\ woken' = (woken \/ (lpc = "asleep" /\ ~launcher.async))
    /\ permit' = TRUE
    /\ todo' = (IF Len(todo) = 2 THEN <<>> ELSE <<todo[1]>> \o SubSeq(todo, 3, Len(todo)))
    /\ UNCHANGED <<age, news>>
    /\ UNCHANGED Daemon /\ UNCHANGED Decoding /\ UNCHANGED Tracked /\ UNCHANGED Launching

-----------------------------------------------------------------------------
(* The launcher.                                                             *)

Others == /\ UNCHANGED <<todo, age, launcher>>
          /\ UNCHANGED Daemon /\ UNCHANGED Decoding /\ UNCHANGED Tracked

\* Tracker::decide
Decision ==
    CASE state \in {"Ready", "Died", "Malformed"} -> state
      [] quiet >= Silence -> "Silent"
      [] OTHER -> "Wait"

Return(what) == lpc' = "done" /\ outcome' = what /\ closed' = TRUE
Sleep(ticks) == lpc' = "asleep" /\ timer' = ticks /\ UNCHANGED <<outcome, closed>>

\* wait() and wait_async(): decide, and sleep until there is news.
Wait ==
    /\ lpc = "decide"
    /\ \/ /\ Decision # "Wait" /\ Return(Decision) /\ UNCHANGED timer
       \/ /\ Decision = "Wait" /\ Sleep(Silence - quiet)
    /\ UNCHANGED <<news, left, woken, permit>> /\ Others

\* Signaled::probe: news from here on starts another round.  The evidence may
\* prove the daemon, fail or show nothing.
Probe ==
    /\ lpc = "probe"
    /\ IF left = 0 THEN Return("late") /\ UNCHANGED news
       ELSE /\ news' = FALSE /\ lpc' = "probing" /\ UNCHANGED <<outcome, closed>>
    /\ UNCHANGED <<timer, left, woken, permit>> /\ Others

Probed ==
    /\ lpc = "probing"
    /\ \/ \E result \in {"proof", "Evidence"} : Return(result)
       \/ Decision \in {"Died", "Malformed", "Silent"} /\ Return(Decision)
       \/ /\ Decision \in {"Ready", "Wait"}
          /\ lpc' = "unproven" /\ UNCHANGED <<outcome, closed>>
    /\ UNCHANGED <<news, timer, left, woken, permit>> /\ Others

\* Signaled::wait: another round at once, after the evidence's own wait or
\* when wait_for_news says so. The lock is taken for each of the two questions.
SignaledWait ==
    /\ \/ lpc = "unproven" /\ lpc' = (IF news THEN "probe" ELSE "stale")
       \/ lpc = "stale" /\ lpc' = (IF state = "Ready" THEN "poll" ELSE "news")
    /\ UNCHANGED <<news, timer, left, woken, permit, outcome, closed>> /\ Others

Poll ==
    /\ lpc = "poll" /\ lpc' = "probe"
    /\ UNCHANGED <<news, timer, left, woken, permit, outcome, closed>> /\ Others

\* quiet_for: nothing new, and nothing decided.
QuietFor == ~news /\ Decision = "Wait"

Least(a, b) == IF a < b THEN a ELSE b

WaitForNews ==
    /\ lpc = "news"
    /\ IF QuietFor /\ left > 0 THEN Sleep(Least(Silence - quiet, left))
       ELSE lpc' = "probe" /\ UNCHANGED <<timer, outcome, closed>>
    /\ UNCHANGED <<news, left, woken, permit>> /\ Others

\* A sleeper wakes for a notification or its timer, and looks again; the task
\* whose timer ran out starts its next round instead.
Wake ==
    /\ lpc = "asleep"
    /\ timer = 0 \/ (IF launcher.async THEN permit ELSE woken)
    /\ lpc' = (CASE launcher.mode = "wait" -> "decide"
                 [] launcher.async /\ ~permit -> "probe"
                 [] OTHER -> "news")
    /\ woken' = FALSE /\ permit' = (permit /\ ~launcher.async)
    /\ UNCHANGED <<news, timer, left, outcome, closed>> /\ Others

Tick ==
    /\ quiet' = (IF quiet < Silence THEN quiet + 1 ELSE quiet)
    /\ age' = (IF todo # <<>> /\ age < Silence THEN age + 1 ELSE age)
    /\ timer' = (IF lpc = "asleep" /\ timer > 0 THEN timer - 1 ELSE timer)
    /\ left' = (IF launcher.mode = "signaled" /\ left > 0 THEN left - 1 ELSE left)
    /\ UNCHANGED <<todo, state, news, closed, permit, launcher, lpc, woken, outcome>>
    /\ UNCHANGED Daemon /\ UNCHANGED Decoding

Reader == Read \/ Decode \/ Record \/ Notify
Launcher == Wait \/ Probe \/ Probed \/ SignaledWait \/ Poll \/ WaitForNews \/ Wake

Next == Progress \/ Ready \/ OtherWrites \/ Close \/ Reader \/ Launcher \/ Tick

-----------------------------------------------------------------------------

\* The launcher learns what the daemon said, in its order and however the pipe
\* cut it up: "ready" only if it was sent, a malformed line only from a program
\* that is not a notifier, the end only after everything before it, and every
\* progress report once (read_messages, Decoder::push, progress_line).
LearnsWhatWasSaid ==
    /\ state = "Ready" => said_ready
    /\ state = "Malformed" => writer = "other"
    /\ state = "Died" => broken \/ (~open /\ (writer = "notifier" => ~said_ready))
    /\ writer = "notifier" => said >= 0
    /\ writer = "notifier" /\ state \in {"Ready", "Died"} /\ ~broken => said = 0

\* A launcher does not sleep through an answer: if it sleeps and the channel
\* has a final state, a wake-up is on its way (Shared::post, Channel::wait,
\* wait_async, wait_for_news, wait_for_news_async).
NoNewsMissed ==
    lpc = "asleep" /\ state \in {"Ready", "Died", "Malformed"} =>
        todo # <<>> \/ (IF launcher.async THEN permit ELSE woken)

\* A launcher gets an answer, from the channel, the evidence or its own limits:
\* one that waits for the channel alone if the daemon does not report progress
\* for ever, one with a budget whatever the daemon does (Channel::wait, Signaled).
LauncherReturns ==
    launcher.mode = "signaled" \/ <>[][~Progress]_cvars => <>(lpc = "done")
=============================================================================

-------------------------- MODULE ReplacementMachine --------------------------
(***************************************************************************)
(* The pure transition machine of src/replacement.rs: the order of the     *)
(* steps of a replacement, as a function of what the adapter answers.      *)
(* Replacement runs it against a clock; Handoff runs it in a system of     *)
(* competing updaters.                                                     *)
(***************************************************************************)
Modes == {"Overlap", "Exclusive"}

Steps == {"Recheck", "Prepare", "Drain", "Start",
          "Verify", "Validate", "Commit", "Retire"}

Answers == {"Done", "Pending", "Unchanged"}

\* What Machine::advance gives its caller: "Continue" for Ok(None).
Verdicts == {"Continue", "Unchanged", "Complete", "RetirementPending",
             "InvalidProgress"}

Machines == [mode : Modes, step : Steps, committed : BOOLEAN]

NewMachine(mode) == [mode |-> mode, step |-> "Recheck", committed |-> FALSE]

\* Fault: the live proof is not revalidated before the commit.
NextStepUnvalidated(m) ==
    CASE m.step = "Recheck" -> "Prepare"
      [] m.step = "Prepare" -> IF m.mode = "Exclusive" THEN "Drain" ELSE "Start"
      [] m.step = "Drain" -> "Start"
      [] m.step = "Start" -> "Verify"
      [] m.step \in {"Verify", "Validate"} -> "Commit"
      [] m.step = "Commit" -> IF m.mode = "Exclusive" THEN "Commit" ELSE "Retire"
      [] m.step = "Retire" -> "Retire"

\* The step after m.step is done; the last step of each mode has none.
NextStep(m) ==
    CASE m.step = "Recheck" -> "Prepare"
      [] m.step = "Prepare" -> IF m.mode = "Exclusive" THEN "Drain" ELSE "Start"
      [] m.step = "Drain" -> "Start"
      [] m.step = "Start" -> "Verify"
      [] m.step = "Verify" -> "Validate"
      [] m.step = "Validate" -> "Commit"
      [] m.step = "Commit" -> IF m.mode = "Exclusive" THEN "Commit" ELSE "Retire"
      [] m.step = "Retire" -> "Retire"

\* Fault: a step that may not be retried is retried.
MayRetryAny(m) == m.step \in {"Recheck", "Verify", "Drain", "Start"}

MayRetry(m) == m.step \in {"Recheck", "Verify", "Drain"}

\* The caller's view of an answer.
Verdict(m, answer) ==
    CASE m.step = "Recheck" /\ answer = "Unchanged" -> "Unchanged"
      [] MayRetry(m) /\ answer = "Pending" -> "Continue"
      [] m.step = "Retire" /\ answer = "Pending" -> "RetirementPending"
      [] answer = "Done" ->
           IF m.step = "Retire" \/ (m.step = "Commit" /\ m.mode = "Exclusive")
             THEN "Complete" ELSE "Continue"
      [] OTHER -> "InvalidProgress"

\* The machine after an answer: only Done moves it.
Advance(m, answer) ==
    IF answer = "Done"
      THEN [m EXCEPT !.step = NextStep(m),
                     !.committed = @ \/ m.step = "Commit"]
      ELSE m
=============================================================================

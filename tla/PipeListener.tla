---------------------------- MODULE PipeListener ----------------------------
(***************************************************************************)
(* Listener acquisition on Windows: bind and next_step of                  *)
(* src/local/windows_socket.rs.                                            *)
(*                                                                         *)
(* External: the pipe name.  It is free, owned by a listener, or closing:  *)
(* its listener has gone and the kernel still refuses a first instance.    *)
(* A taken name is refused as busy or as access denied.  "foreign" is a    *)
(* name that denies access and has no peer of this user.                   *)
(***************************************************************************)
EXTENDS Integers

CONSTANTS
    Binders,
    Retries         \* CLOSING_PIPE_BACKOFF: pauses between attempts

VARIABLES
    pipe,           \* "free", "owned", "closing" or "foreign"
    call,             \* where each call of acquire() is
    retries_used

vars == <<pipe, call, retries_used>>

Init ==
    /\ pipe \in {"free", "owned", "closing", "foreign"}
    /\ call = [b \in Binders |-> "creating"]
    /\ retries_used = [b \in Binders |-> 0]

Answers == {"busy", "denied", "other"}

\* Fault: access denied without a peer is contention.
NextStepDenied(code, peer_answered, used) ==
    IF code \in {"busy", "denied"} THEN "contended" ELSE "fail"

\* next_step: what a failed bind means.
NextStep(code, peer_answered, used) ==
    CASE code = "busy" -> "contended"
      [] code = "other" -> "fail"
      [] peer_answered -> "contended"
      [] OTHER -> IF used < Retries THEN "retry" ELSE "fail"

\* create() succeeds on a free name, and fails otherwise; any other error may
\* come at any time.  Between the denial and the connection to a live peer
\* the name may change hands.
Create(b) ==
    /\ call[b] = "creating"
    /\ \/ /\ pipe = "free"
          /\ pipe' = "owned"
          /\ call' = [call EXCEPT ![b] = "won"]
          /\ UNCHANGED retries_used
       \/ /\ \E code \in Answers :
                /\ code \in {"busy", "denied"} => pipe # "free"
                /\ code = "busy" => pipe = "owned"
                /\ call' = [call EXCEPT ![b] = IF code = "denied" THEN "asking" ELSE
                             NextStep(code, FALSE, retries_used[b])]
          /\ UNCHANGED <<pipe, retries_used>>

\* live_same_user_peer makes one attempt: an owner all of whose instances are
\* taken does not answer it.  Then next_step; a retry pauses and creates again.
AskPeer(b) ==
    /\ call[b] = "asking"
    /\ \E answered \in {FALSE, pipe = "owned"} :
         LET step == NextStep("denied", answered, retries_used[b])
         IN  /\ call' = [call EXCEPT ![b] = IF step = "retry" THEN "creating" ELSE step]
             /\ retries_used' = [retries_used EXCEPT ![b] = IF step = "retry" THEN @ + 1 ELSE @]
    /\ UNCHANGED pipe

\* The owner goes, and the kernel lets go of its instances a moment later.
OwnerCloses == pipe = "owned" /\ pipe' = "closing" /\ UNCHANGED <<call, retries_used>>
PipeFreed == pipe = "closing" /\ pipe' = "free" /\ UNCHANGED <<call, retries_used>>

Next ==
    \/ \E b \in Binders : Create(b) \/ AskPeer(b)
    \/ OwnerCloses \/ PipeFreed

Spec == Init /\ [][Next]_vars

\* AlreadyRunning is reported only while a listener of this user owns the name,
\* and a denial is an error only after every pause: a name that is merely closing
\* is waited out.  A busy owner may be missed, and the denial is then the error.
DenialIsWeighed ==
    \A b \in Binders :
        /\ call[b] # "contended" /\ call'[b] = "contended" => pipe = "owned"
        /\ call[b] = "asking" /\ call'[b] = "fail" => retries_used[b] = Retries
=============================================================================

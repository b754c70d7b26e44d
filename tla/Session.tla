------------------------------ MODULE Session ------------------------------
(* A binary session (wire.rs, wire/asynchronous.rs): the two ends exchange a *)
(* magic number, offers and acceptances and then frames.  An I/O error, a    *)
(* deadline or a dropped future may stop either end inside a read or a       *)
(* write, with part of a frame consumed or sent.  The blocking and the       *)
(* asynchronous session take the same steps.                                 *)
EXTENDS Integers, Sequences, FiniteSets

CONSTANTS
    Hellos,      \* the offers an end may make
    Messages,    \* the control messages an application may send
    MaxFrames    \* bound: messages an end sends

\* A message has a size.
ASSUME MessagesHaveSizes == \A m \in Messages : m.size \in Nat

VARIABLES
    offers,      \* the offer of each end
    purpose,     \* the server accepts, or refuses with a reason
    pc,          \* where each end is in its handshake
    io,          \* what an open session is doing: "idle", "sending", "receiving"
    incoming,    \* what has been sent to each end and not read
    terms,       \* the agreement each end has computed
    failed,      \* Framed::failed
    error,       \* the refusal a client reports
    sent,        \* messages each end has begun to send
    delivered,   \* messages each end has received
    garbled      \* an end has read bytes at a place where no frame starts

svars == <<offers, purpose, pc, io, incoming, terms, failed, error, sent, delivered,
           garbled>>

Ends == {"client", "server"}
Peer(e) == IF e = "client" THEN "server" ELSE "client"

\* The version, and the sizes a frame can have relative to the limits.
VERSION == 2
MIN_FRAME == 1
HELLO_LIMIT == 2
MAX_FRAME == 3

None == [capabilities |-> {}, max_frame |-> HELLO_LIMIT]

Validate(h) ==
    /\ h.minimum # 0 /\ h.minimum <= h.maximum
    /\ h.required \subseteq h.supported
    /\ h.max_frame \in MIN_FRAME..MAX_FRAME

Least(a, b) == IF a < b THEN a ELSE b

SharesVersion(local, remote) ==
    /\ local.minimum <= VERSION /\ remote.minimum <= VERSION
    /\ local.maximum >= VERSION /\ remote.maximum >= VERSION

Compatible(local, remote) ==
    /\ Validate(local) /\ Validate(remote)
    /\ local.service = remote.service
    /\ SharesVersion(local, remote)
    /\ (local.required \cup remote.required) \subseteq (local.supported \cap remote.supported)

\* Fault: each end keeps its own receive limit.
AgreeOwnLimit(local, remote) ==
    [capabilities |-> local.supported \cap remote.supported, max_frame |-> local.max_frame]

Agree(local, remote) ==
    [capabilities |-> local.supported \cap remote.supported,
     max_frame |-> Least(local.max_frame, remote.max_frame)]

\* Refused::frame: the refusal sent to a client, if it gets one.
RefusalFrame(reason, offer, remote) ==
    IF remote.reads_refusal /\ offer.service = remote.service /\ Validate(remote)
    THEN <<[is |-> "refusal", reason |-> reason]>>
    ELSE <<>>

\* Fault: every failed negotiation is blamed on the client.
RejectionAlways(offer, remote) == RefusalFrame("ProtocolTooOld", offer, remote)

Rejection(offer, remote) ==
    IF remote.maximum < VERSION \/ ~(offer.required \subseteq remote.supported)
    THEN RefusalFrame("ProtocolTooOld", offer, remote)
    ELSE <<>>

RequiredCapability(m) ==
    CASE m.operation \in {"PREPARE", "PAUSED", "READY", "COMMIT", "ABORT"} -> {"HANDOFF"}
      [] m.operation \in {"HEALTH", "DRAIN", "WATCH", "APPLICATION"} -> {m.operation}
      [] OTHER -> {}

\* Session::check
Check(e, m) == RequiredCapability(m) \cap terms[e].capabilities # {}

SessionInit ==
    /\ offers \in [Ends -> Hellos]
    /\ purpose \in {"accept", "PeerRejected", "Retiring"}
    /\ pc = [e \in Ends |-> "start"]
    /\ io = [e \in Ends |-> "idle"]
    /\ incoming = [e \in Ends |-> <<>>]
    /\ terms = [e \in Ends |-> None]
    /\ failed = [e \in Ends |-> FALSE]
    /\ error = "none"
    /\ sent = [e \in Ends |-> 0]
    /\ delivered = [e \in Ends |-> {}]
    /\ garbled = FALSE

-----------------------------------------------------------------------------
(* The handshake.                                                            *)

Goto(e, place) == pc' = [pc EXCEPT ![e] = place]
Put(e, items) == incoming' = [incoming EXCEPT ![Peer(e)] = @ \o items]
Take(e) == incoming' = [incoming EXCEPT ![e] = Tail(@)]
Session == UNCHANGED <<io, failed, sent, delivered, garbled>>
Ready(e, place, what) ==
    /\ pc[e] = place
    /\ incoming[e] # <<>> /\ Head(incoming[e]).is \in what

\* connect() and accept() validate the caller's own offer; refuse() does not.
Start(e) ==
    /\ pc[e] = "start"
    /\ IF Validate(offers[e]) \/ (e = "server" /\ purpose # "accept")
       THEN /\ Goto(e, "greeting")
            /\ IF e = "client" THEN Put(e, <<[is |-> "magic"]>>) ELSE UNCHANGED incoming
       ELSE /\ Goto(e, "closed")
            /\ UNCHANGED incoming
    /\ UNCHANGED <<offers, purpose, terms, error>> /\ Session

ClientOffers ==
    /\ pc["client"] = "greeting"
    /\ Put("client", <<[is |-> "hello"]>>)
    /\ Goto("client", "offered")
    /\ UNCHANGED <<offers, purpose, terms, error>> /\ Session

ServerReadsMagic ==
    /\ Ready("server", "greeting", {"magic"})
    /\ Take("server") /\ Goto("server", "offered")
    /\ UNCHANGED <<offers, purpose, terms, error>> /\ Session

\* accept() and refuse() once the client's offer is read.
ServerReadsOffer ==
    /\ Ready("server", "offered", {"hello"})
    /\ LET ours == offers["server"]
           theirs == offers["client"]
           answer(items) == incoming' = [incoming EXCEPT !["server"] = Tail(@),
                                                         !["client"] = @ \o items]
       IN  IF purpose # "accept"
           THEN /\ answer(RefusalFrame(purpose, ours, theirs))
                /\ Goto("server", "closed") /\ UNCHANGED terms
           ELSE IF Compatible(ours, theirs)
           THEN /\ answer(<<[is |-> "hello"]>>)
                /\ Goto("server", "agreed")
                /\ terms' = [terms EXCEPT !["server"] = Agree(ours, theirs)]
           ELSE /\ answer(Rejection(ours, theirs))
                /\ Goto("server", "closed") /\ UNCHANGED terms
    /\ UNCHANGED <<offers, purpose, error>> /\ Session

CheckRefusal(answer) == answer.is = "refusal"

\* Fault: the client waits for the server's acceptance before it sends its own.
ClientWaits ==
    /\ Ready("client", "offered", {"hello", "refusal"})
    /\ Take("client")
    /\ IF CheckRefusal(Head(incoming["client"]))
       THEN /\ error' = Head(incoming["client"]).reason
            /\ Goto("client", "closed") /\ UNCHANGED terms
       ELSE /\ terms' = [terms EXCEPT !["client"] = Agree(offers["client"], offers["server"])]
            /\ Goto("client", "agreed")
            /\ UNCHANGED error
    /\ UNCHANGED <<offers, purpose>> /\ Session

\* connect(): read the answer, check_refusal, negotiate, accept.
ClientReadsAnswer ==
    /\ Ready("client", "offered", {"hello", "refusal"})
    /\ LET ours == offers["client"]
           theirs == offers["server"]
           answer == Head(incoming["client"])
           rest(items) == incoming' = [incoming EXCEPT !["client"] = Tail(@),
                                                       !["server"] = @ \o items]
       IN  IF CheckRefusal(answer)
           THEN /\ error' = answer.reason
                /\ rest(<<>>) /\ Goto("client", "closed") /\ UNCHANGED terms
           ELSE IF Compatible(ours, theirs)
           THEN /\ rest(<<[is |-> "accepted"]>>)
                /\ Goto("client", "agreed")
                /\ terms' = [terms EXCEPT !["client"] = Agree(ours, theirs)]
                /\ UNCHANGED error
           ELSE rest(<<>>) /\ Goto("client", "closed") /\ UNCHANGED <<terms, error>>
    /\ UNCHANGED <<offers, purpose>> /\ Session

\* read_acceptance; the server answers with its own.
ReadAcceptance(e) ==
    /\ Ready(e, "agreed", {"accepted"})
    /\ incoming' = [x \in Ends |->
            IF x = e THEN Tail(incoming[x])
            ELSE IF e = "server" THEN Append(incoming[x], [is |-> "accepted"])
            ELSE incoming[x]]
    /\ Goto(e, "open")
    /\ UNCHANGED <<offers, purpose, terms, error>> /\ Session

\* An end that waits finds the connection closed by its peer.
SeesEnd(e) ==
    /\ pc[e] \in {"greeting", "offered", "agreed"} /\ pc[Peer(e)] = "closed"
    /\ incoming[e] = <<>> /\ ~(e = "client" /\ pc[e] = "greeting")
    /\ Goto(e, "closed")
    /\ UNCHANGED <<offers, purpose, incoming, terms, error>> /\ Session

\* A read or a write of the handshake fails, or its deadline passes: the
\* connection is dropped with the session.
Break(e) ==
    /\ pc[e] \in {"greeting", "offered", "agreed"}
    /\ Goto(e, "closed")
    /\ UNCHANGED <<offers, purpose, incoming, terms, error>> /\ Session

-----------------------------------------------------------------------------
(* Frames.                                                                   *)

Usable(e) == ~failed[e]

Handshake == UNCHANGED <<offers, purpose, terms, error>>

\* Fault: the codec is marked failed only once an operation has failed.
BeginUnmarked(e, what) ==
    /\ io' = [io EXCEPT ![e] = what]
    /\ UNCHANGED failed

\* From here to its end an operation leaves the codec marked failed.
Begin(e, what) ==
    /\ io' = [io EXCEPT ![e] = what]
    /\ failed' = [failed EXCEPT ![e] = TRUE]

\* encode_frame: a message that is too large is an error that leaves the
\* session usable, like one outside the agreement.
Sendable(e, m) == Check(e, m) /\ m.size <= terms[e].max_frame

Send(e) ==
    /\ pc[e] = "open" /\ io[e] = "idle" /\ Usable(e) /\ sent[e] < MaxFrames
    /\ \E m \in Messages : Sendable(e, m)
    /\ Begin(e, "sending")
    /\ UNCHANGED <<pc, incoming, sent, delivered, garbled>> /\ Handshake

\* The message is chosen where it becomes visible.
Sent(e) ==
    /\ pc[e] = "open" /\ io[e] = "sending"
    /\ \E m \in Messages :
        /\ Sendable(e, m)
        /\ Put(e, <<[is |-> "frame", message |-> m]>>)
    /\ sent' = [sent EXCEPT ![e] = @ + 1]
    /\ io' = [io EXCEPT ![e] = "idle"]
    /\ failed' = [failed EXCEPT ![e] = FALSE]
    /\ UNCHANGED <<pc, delivered, garbled>> /\ Handshake

Receive(e) ==
    /\ pc[e] = "open" /\ io[e] = "idle" /\ Usable(e)
    /\ Begin(e, "receiving")
    /\ UNCHANGED <<pc, incoming, sent, delivered, garbled>> /\ Handshake

\* A frame above the limit is refused; a message outside the agreement poisons
\* the session; either way the operation ends with the codec failed.  Bytes
\* from inside a frame would be taken for one: the rest of a frame, or part of
\* one once something follows it (alone, it is waited for until the peer ends).
Received(e) ==
    /\ pc[e] = "open" /\ io[e] = "receiving"
    /\ incoming[e] # <<>> /\ (Head(incoming[e]).is = "part" => Len(incoming[e]) > 1)
    /\ LET head == Head(incoming[e])
           accepted == /\ head.is = "frame"
                       /\ head.message.size <= terms[e].max_frame /\ Check(e, head.message)
       IN  /\ delivered' = [delivered EXCEPT ![e] =
                                IF accepted THEN @ \cup {head.message} ELSE @]
           /\ failed' = [failed EXCEPT ![e] = ~accepted]
           /\ garbled' = (garbled \/ head.is # "frame")
    /\ Take(e)
    /\ io' = [io EXCEPT ![e] = "idle"]
    /\ UNCHANGED <<pc, sent>> /\ Handshake

\* An operation ends early: its deadline passes, its I/O fails or its future is
\* dropped.  Some of the bytes may have moved.
Interrupted(e) ==
    /\ pc[e] = "open" /\ io[e] # "idle"
    /\ \/ UNCHANGED <<incoming, sent>>
       \/ /\ io[e] = "sending" /\ Put(e, <<[is |-> "part"]>>)
          /\ sent' = [sent EXCEPT ![e] = @ + 1]
       \/ /\ io[e] = "receiving" /\ incoming[e] # <<>>
          /\ incoming' = [incoming EXCEPT ![e] = <<[is |-> "rest"]>> \o Tail(@)]
          /\ UNCHANGED sent
    /\ io' = [io EXCEPT ![e] = "idle"]
    /\ UNCHANGED <<pc, failed, delivered, garbled>> /\ Handshake

\* The owner drops the session.
Drop(e) ==
    /\ pc[e] = "open" /\ io[e] = "idle"
    /\ Goto(e, "closed")
    /\ UNCHANGED <<io, incoming, failed, sent, delivered, garbled>> /\ Handshake

Establish(e) ==
    \/ Start(e)
    \/ e = "client" /\ (ClientOffers \/ ClientReadsAnswer)
    \/ e = "server" /\ (ServerReadsMagic \/ ServerReadsOffer)
    \/ ReadAcceptance(e)
    \/ SeesEnd(e)

SessionNext ==
    \E e \in Ends :
        \/ Establish(e) \/ Break(e)
        \/ Send(e) \/ Sent(e) \/ Receive(e) \/ Received(e)
        \/ Interrupted(e) \/ Drop(e)

SessionSpec == SessionInit /\ [][SessionNext]_svars

-----------------------------------------------------------------------------

\* Both ends work under one agreement: an end with an open session knows that
\* its peer has computed the same terms, within both offers and with every
\* capability either requires (Terms::agree, Session::connect, Session::accept).
SameTerms ==
    \A e \in Ends : pc[e] = "open" =>
        /\ purpose = "accept"
        /\ terms[e] = terms[Peer(e)]
        /\ \A x \in Ends :
            /\ offers[x].required \subseteq terms[e].capabilities
            /\ terms[e].capabilities \subseteq offers[x].supported
            /\ terms[e].max_frame \in MIN_FRAME..offers[x].max_frame

\* A message is handed on only if both ends offered what it needs, and no frame
\* on its way is larger than its receiver accepts (Session::check, encode_frame).
OnlyAgreed ==
    /\ \A e \in Ends : \A m \in delivered[e] : \A x \in Ends :
            RequiredCapability(m) # {} /\ RequiredCapability(m) \subseteq offers[x].supported
    /\ \A e \in Ends : \A i \in 1..Len(incoming[e]) :
            incoming[e][i].is = "frame" =>
                incoming[e][i].message.size <= offers[e].max_frame

\* A session that stopped inside a frame is never used again, so nobody takes
\* bytes from the middle of a frame for a message (Framed::send, receive,
\* AsyncSession::send_message, receive_message).
NeverMisread == ~garbled

\* A refusal says what is so: "too old" only to a client that lacks a version
\* or a capability the server requires, the other reasons only from a server
\* that refuses for them, and none to a client that would not understand it
\* (Refused::frame, rejection, check_refusal).
RefusalIsTrue ==
    /\ error # "none" => offers["client"].reads_refusal
    /\ error = "ProtocolTooOld" =>
        \/ offers["client"].maximum < VERSION
        \/ ~(offers["server"].required \subseteq offers["client"].supported)
    /\ error \in {"PeerRejected", "Retiring"} => purpose = error

\* Both ends work under the same terms, only what both offered passes, bytes
\* from inside a frame are never taken for a message, and a refusal says what is
\* so (Terms::agree, Session::check, Framed::send, receive, Refused::frame).
SessionIsAgreed ==
    SameTerms /\ OnlyAgreed /\ NeverMisread /\ RefusalIsTrue

\* The two ends never wait for each other: a handshake ends, open or closed, at
\* both (Session::connect, Session::accept).
HandshakeEnds == \A e \in Ends : <>(pc[e] \in {"open", "closed"})
=============================================================================

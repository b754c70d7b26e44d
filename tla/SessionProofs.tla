---------------------------- MODULE SessionProofs ----------------------------
(***************************************************************************)
(* Whatever the offers, the messages and their number: the two ends of a   *)
(* binary session work under one agreement and take nothing for a message  *)
(* that is none.                                                           *)
(*                                                                         *)
(* The properties are not inductive by themselves.  What is missing is     *)
(* what each end may still have to read at every place of the handshake    *)
(* (ServerHears, ClientHears), that what is on its way is true             *)
(* (ItemsAreTrue), and that a frame left half sent or half read is left by *)
(* an end that has marked itself failed (Remnants, Marked).                *)
(***************************************************************************)
EXTENDS Session, TLAPS

\* The one agreement of the two offers.
Agreed == Agree(offers["client"], offers["server"])

\* The server accepts, and the agreement lies within both offers.
Fits ==
    /\ purpose = "accept"
    /\ \A x \in Ends :
          /\ offers[x].required \subseteq Agreed.capabilities
          /\ Agreed.capabilities \subseteq offers[x].supported
          /\ offers[x].max_frame \in 1..3 /\ Agreed.max_frame \in 1..offers[x].max_frame

\* The client understands a refusal, and deserves it for the reason given.
TrueRefusal(reason) ==
    /\ offers["client"].reads_refusal
    /\ reason = "ProtocolTooOld" =>
          \/ offers["client"].maximum < VERSION
          \/ ~(offers["server"].required \subseteq offers["client"].supported)
    /\ reason \in {"PeerRejected", "Retiring"} => purpose = reason

\* What may be on its way: the items of the handshake, and frames.
Item(is) == [is |-> is]
Items ==
    {Item(is) : is \in {"magic", "hello", "accepted", "part", "rest"}}
        \union {[is |-> "refusal", reason |-> r] :
                   r \in {"ProtocolTooOld", "PeerRejected", "Retiring"}}
        \union {[is |-> "frame", message |-> m] : m \in Messages}

WireTypes ==
    /\ purpose \in {"accept", "PeerRejected", "Retiring"}
    /\ pc \in [Ends -> {"start", "greeting", "offered", "agreed", "open", "closed"}]
    /\ io \in [Ends -> {"idle", "sending", "receiving"}]
    /\ incoming \in [Ends -> Seq(Items)]
    /\ terms = [e \in Ends |-> terms[e]]
    /\ failed \in [Ends -> BOOLEAN]
    /\ delivered = [e \in Ends |-> delivered[e]]

\* An end that has agreed, or is told that its peer has, knows the terms.
TermsAreShared ==
    /\ \A e \in Ends : pc[e] \in {"agreed", "open"} => terms[e] = Agreed /\ Fits
    /\ pc["client"] \in {"agreed", "open"} => terms["server"] = Agreed
    /\ pc["server"] = "open" => terms["client"] = Agreed

\* What an item on its way to an end says is so.
TrueItem(e, x) ==
    /\ x.is = "frame" => x.message \in Messages /\ x.message.size <= offers[e].max_frame
    /\ x.is = "refusal" => TrueRefusal(x.reason)
    /\ x.is = "hello" /\ e = "client" => terms["server"] = Agreed /\ Fits
    /\ x.is = "accepted" => terms[Peer(e)] = Agreed

ItemsAreTrue ==
    \A e \in Ends : \A i \in 1..Len(incoming[e]) : TrueItem(e, incoming[e][i])

\* Where the two ends are and what is on its way to each of them: they take turns.
ServerHears ==
    /\ pc["server"] \in {"start", "greeting"} =>
          \/ pc["client"] \in {"start", "closed"} /\ incoming["server"] = <<>>
          \/ pc["client"] \in {"greeting", "closed"} /\ incoming["server"] = <<Item("magic")>>
          \/ /\ pc["client"] \in {"offered", "closed"}
             /\ incoming["server"] = <<Item("magic"), Item("hello")>>
    /\ pc["server"] = "offered" =>
          \/ pc["client"] \in {"greeting", "closed"} /\ incoming["server"] = <<>>
          \/ pc["client"] \in {"offered", "closed"} /\ incoming["server"] = <<Item("hello")>>
    /\ pc["server"] = "agreed" =>
          \/ pc["client"] \in {"offered", "closed"} /\ incoming["server"] = <<>>
          \/ pc["client"] \in {"agreed", "closed"} /\ incoming["server"] = <<Item("accepted")>>
    /\ pc["server"] = "open" => pc["client"] \in {"agreed", "open", "closed"}

ClientHears ==
    /\ pc["client"] \in {"start", "greeting"} =>
          incoming["client"] = <<>> /\ pc["server"] \notin {"agreed", "open"}
    /\ pc["client"] = "offered" =>
          \/ /\ incoming["client"] = <<>>
             /\ pc["server"] \in {"start", "greeting", "offered", "closed"}
          \/ incoming["client"] = <<Item("hello")>> /\ pc["server"] \in {"agreed", "closed"}
          \/ /\ Len(incoming["client"]) = 1 /\ incoming["client"][1].is = "refusal"
             /\ pc["server"] = "closed"
    /\ pc["client"] = "agreed" =>
          \/ incoming["client"] = <<>> /\ pc["server"] \in {"agreed", "closed"}
          \/ /\ incoming["client"] # <<>> /\ incoming["client"][1].is = "accepted"
             /\ \A i \in 2..Len(incoming["client"]) : incoming["client"][i].is \in {"frame", "part"}
             /\ pc["server"] \in {"open", "closed"}
    /\ pc["client"] = "open" => pc["server"] \in {"open", "closed"}

\* On an open session only frames are on their way, whole but for one that its
\* sender or its reader left; who left it never uses the session again.
OnlyFrames ==
    \A e \in Ends : pc[e] = "open" =>
        \A i \in 1..Len(incoming[e]) : incoming[e][i].is \in {"frame", "part", "rest"}

Remnants ==
    \A e \in Ends : \A i \in 1..Len(incoming[e]) :
        /\ incoming[e][i].is = "part" =>
              i = Len(incoming[e]) /\ failed[Peer(e)] /\ io[Peer(e)] = "idle"
        /\ incoming[e][i].is = "rest" => failed[e] /\ io[e] = "idle"

\* From its begin to its end an operation leaves the codec marked failed, and
\* before a session is open nothing has failed.
Marked ==
    \A e \in Ends :
        /\ io[e] # "idle" => failed[e] /\ pc[e] = "open"
        /\ failed[e] => pc[e] \in {"open", "closed"}

WireInv ==
    /\ WireTypes /\ TermsAreShared /\ ItemsAreTrue /\ ServerHears /\ ClientHears
    /\ OnlyFrames /\ Remnants /\ Marked
    /\ OnlyAgreed /\ NeverMisread /\ RefusalIsTrue

\* No end has done anything at first.
LEMMA WireInit == SessionInit => WireInv
  <1> SUFFICES ASSUME SessionInit PROVE WireInv
    OBVIOUS
  <1>1. WireTypes /\ \A e \in Ends : pc[e] = "start" /\ incoming[e] = <<>>
                                          /\ io[e] = "idle" /\ ~failed[e]
    BY DEF SessionInit, WireTypes, Ends
  <1>2. ItemsAreTrue /\ OnlyFrames /\ Remnants /\ Marked /\ TermsAreShared
    BY <1>1 DEF ItemsAreTrue, OnlyFrames, Remnants, Marked, TermsAreShared, Ends
  <1>3. ServerHears /\ ClientHears
    BY <1>1 DEF ServerHears, ClientHears, Ends
  <1>4. OnlyAgreed /\ NeverMisread /\ RefusalIsTrue
    BY <1>1 DEF OnlyAgreed, NeverMisread, RefusalIsTrue, SessionInit
  <1> QED
    BY <1>1, <1>2, <1>3, <1>4 DEF WireInv

\* Open ends know the terms, and the terms lie within both offers.
LEMMA WirePromise ==
    WireInv => SameTerms /\ OnlyAgreed /\ NeverMisread /\ RefusalIsTrue
  <1> SUFFICES ASSUME WireInv PROVE SameTerms
    BY DEF WireInv
  <1> SUFFICES ASSUME NEW e \in Ends, pc[e] = "open"
               PROVE  /\ terms[e] = Agreed /\ terms[Peer(e)] = Agreed /\ Fits
    BY DEF SameTerms, Fits, MIN_FRAME
  <1> QED
    BY DEF WireInv, TermsAreShared, Ends, Peer

\* Two compatible offers give one agreement, whoever computes it.
LEMMA AgreementIsOne ==
    ASSUME purpose = "accept", NEW e \in Ends,
           Compatible(offers[e], offers[Peer(e)])
    PROVE  Agree(offers[e], offers[Peer(e)]) = Agreed /\ Fits
  <1> DEFINE c == offers["client"]
             s == offers["server"]
  <1>1. /\ c.max_frame \in 1..3 /\ s.max_frame \in 1..3
        /\ c.required \subseteq (c.supported \cap s.supported)
        /\ s.required \subseteq (c.supported \cap s.supported)
    BY DEF Compatible, Validate, MIN_FRAME, MAX_FRAME, Ends, Peer
  <1>2. Agree(c, s) = Agree(s, c)
    <2>1. Least(c.max_frame, s.max_frame) = Least(s.max_frame, c.max_frame)
      BY <1>1 DEF Least
    <2>2. c.supported \cap s.supported = s.supported \cap c.supported
      OBVIOUS
    <2> QED
      BY <2>1, <2>2, Zenon DEF Agree
  <1>3. Agree(offers[e], offers[Peer(e)]) = Agreed
    BY <1>2 DEF Agreed, Ends, Peer
  <1>4. /\ Agreed.capabilities = c.supported \cap s.supported
        /\ Agreed.max_frame = Least(c.max_frame, s.max_frame)
    BY DEF Agreed, Agree
  <1>5. Agreed.max_frame \in 1..c.max_frame /\ Agreed.max_frame \in 1..s.max_frame
    BY <1>1, <1>4 DEF Least
  <1> QED
    BY <1>1, <1>3, <1>4, <1>5 DEF Fits, Ends

\* What is left of a sequence once its head is taken.
LEMMA Less ==
    ASSUME NEW s \in Seq(Items), s # <<>>, NEW t, t = Tail(s)
    PROVE  /\ t \in Seq(Items) /\ Len(t) = Len(s) - 1 /\ Head(s) = s[1] /\ 1 \in 1..Len(s)
           /\ \A i \in 1..Len(t) : t[i] = s[i + 1] /\ i + 1 \in 1..Len(s)
  OBVIOUS

\* What a sequence is once an item is put behind it.
LEMMA More ==
    ASSUME NEW s \in Seq(Items), NEW x \in Items, NEW t, t = s \o <<x>>
    PROVE  /\ t \in Seq(Items) /\ Len(t) = Len(s) + 1
           /\ \A i \in 1..Len(t) : \/ i = Len(s) + 1 /\ t[i] = x
                                   \/ i \in 1..Len(s) /\ t[i] = s[i]
  <1>1. /\ t \in Seq(Items) /\ Len(t) = Len(s) + 1
        /\ \A i \in 1..Len(t) : t[i] = IF i = Len(s) + 1 THEN x ELSE s[i]
    OBVIOUS
  <1> QED
    BY <1>1

\* What a sequence is once its head is replaced.
LEMMA Replaced ==
    ASSUME NEW s \in Seq(Items), s # <<>>, NEW x \in Items, NEW t, t = <<x>> \o Tail(s)
    PROVE  t \in Seq(Items) /\ Len(t) = Len(s) /\ \A i \in 1..Len(t) : t[i] = s[i] \/ t[i] = x
  OBVIOUS

\* A sequence without items.
LEMMA Nothing ==
    ASSUME NEW s \in Seq(Items), Len(s) = 0
    PROVE  s = <<>>
  OBVIOUS

\* A sequence of two items.
LEMMA Pair ==
    ASSUME NEW x \in Items, NEW y \in Items, NEW s \in Seq(Items), Len(s) = 2, s[1] = x,
           s[2] = y
    PROVE  s = <<x, y>>
  OBVIOUS

\* The sequences of the handshake.
LEMMA ShortSequences ==
    ASSUME NEW x \in Items, NEW y \in Items
    PROVE  /\ <<>> \o <<x>> = <<x>> /\ <<x>> \o <<y>> = <<x, y>>
           /\ Tail(<<x>>) = <<>> /\ Tail(<<x, y>>) = <<y>>
           /\ Head(<<x>>) = x /\ Head(<<x, y>>) = x
           /\ <<x>> # <<>> /\ <<x, y>> # <<>>
  <1>1. <<>> \o <<x>> = <<x>>
    OBVIOUS
  <1>2. <<x>> \o <<y>> = <<x, y>>
    <2>1. <<x>> \o <<y>> \in Seq(Items) /\ Len(<<x>> \o <<y>>) = 2
      OBVIOUS
    <2>2. (<<x>> \o <<y>>)[1] = x /\ (<<x>> \o <<y>>)[2] = y
      OBVIOUS
    <2> QED
      BY <2>1, <2>2, Pair, Zenon
  <1>3. Tail(<<x>>) = <<>>
    OBVIOUS
  <1>4. Tail(<<x, y>>) = <<y>>
    OBVIOUS
  <1>5. Head(<<x>>) = x /\ Head(<<x, y>>) = x
    OBVIOUS
  <1>6. <<x>> # <<>> /\ <<x, y>> # <<>>
    OBVIOUS
  <1> QED
    BY <1>1, <1>2, <1>3, <1>4, <1>5, <1>6

\* An item of the handshake is read, and another may be sent: what is on its
\* way stays true, and it is not put behind a part of a frame.
LEMMA HandshakeItems ==
    ASSUME WireInv, NEW e \in Ends, pc[e] \notin {"open", "closed"},
           UNCHANGED <<offers, purpose, io, failed>>,
           \A d \in Ends : terms[d] = Agreed => terms'[d] = Agreed,
           incoming' = [d \in Ends |-> incoming'[d]],
           \/ incoming'[e] = incoming[e]
           \/ incoming[e] # <<>> /\ incoming'[e] = Tail(incoming[e]),
           NEW x \in Items, x.is \notin {"part", "rest"}, TrueItem(Peer(e), x)',
           \/ incoming'[Peer(e)] = incoming[Peer(e)]
           \/ incoming'[Peer(e)] = incoming[Peer(e)] \o <<x>>
    PROVE  incoming' \in [Ends -> Seq(Items)] /\ ItemsAreTrue' /\ Remnants'
  <1> DEFINE p == Peer(e)
             s == incoming[e]
             t == incoming[p]
  <1>1. /\ p \in Ends /\ p # e /\ Peer(p) = e /\ Ends = {e, p}
        /\ s \in Seq(Items) /\ t \in Seq(Items) /\ ~failed[e]
    BY DEF WireInv, WireTypes, Marked, Ends, Peer
  <1>2. /\ incoming'[e] \in Seq(Items)
        /\ \A i \in 1..Len(incoming'[e]) : \E j \in 1..Len(s) :
              incoming'[e][i] = s[j] /\ (j = Len(s) => i = Len(incoming'[e]))
    <2>1. CASE incoming'[e] = s
      BY <1>1, <2>1
    <2>2. CASE s # <<>> /\ incoming'[e] = Tail(s)
      <3>1. /\ incoming'[e] \in Seq(Items) /\ Len(incoming'[e]) = Len(s) - 1
            /\ \A i \in 1..Len(incoming'[e]) : incoming'[e][i] = s[i + 1] /\ i + 1 \in 1..Len(s)
        BY <1>1, <2>2, Less
      <3>2. \A i \in 1..Len(incoming'[e]) : i + 1 = Len(s) => i = Len(incoming'[e])
        BY <1>1, <3>1
      <3> QED
        BY <3>1, <3>2, Zenon
    <2> QED
      BY <2>1, <2>2
  <1>8. /\ incoming'[p] \in Seq(Items)
        /\ \A i \in 1..Len(incoming'[p]) :
              \/ incoming'[p][i] = x
              \/ i \in 1..Len(t) /\ incoming'[p][i] = t[i]
    <2>1. CASE incoming'[p] = t
      BY <1>1, <2>1
    <2>2. CASE incoming'[p] = t \o <<x>>
      <3>1. /\ incoming'[p] \in Seq(Items)
            /\ \A i \in 1..Len(incoming'[p]) : \/ i = Len(t) + 1 /\ incoming'[p][i] = x
                                               \/ i \in 1..Len(t) /\ incoming'[p][i] = t[i]
        BY <1>1, <2>2, More
      <3> QED
        BY <3>1
    <2> QED
      BY <2>1, <2>2
  <1>3. incoming' \in [Ends -> Seq(Items)]
    BY <1>1, <1>2, <1>8
  <1>4. Agreed' = Agreed /\ Fits' = Fits
    BY DEF Agreed, Fits, Agree, Ends
  <1>5. \A d \in Ends : \A y : TrueItem(d, y) => TrueItem(d, y)'
    BY <1>4 DEF TrueItem, TrueRefusal, Ends, Peer
  <1>6. ItemsAreTrue'
    BY <1>1, <1>2, <1>5, <1>8 DEF ItemsAreTrue, WireInv
  <1>7. Remnants'
    <2>1. \A i \in 1..Len(t) : t[i].is # "part" /\ (t[i].is = "rest" => failed[p] /\ io[p] = "idle")
      BY <1>1 DEF Remnants, WireInv
    <2>2. \A j \in 1..Len(s) :
             /\ s[j].is = "part" => j = Len(s) /\ failed[p] /\ io[p] = "idle"
             /\ s[j].is = "rest" => failed[e] /\ io[e] = "idle"
      BY <1>1 DEF Remnants, WireInv
    <2>3. \A i \in 1..Len(incoming'[e]) :
             /\ incoming'[e][i].is = "part" =>
                   i = Len(incoming'[e]) /\ failed'[p] /\ io'[p] = "idle"
             /\ incoming'[e][i].is = "rest" => failed'[e] /\ io'[e] = "idle"
      BY <1>2, <2>2
    <2>4. \A i \in 1..Len(incoming'[p]) :
             /\ incoming'[p][i].is # "part"
             /\ incoming'[p][i].is = "rest" => failed'[p] /\ io'[p] = "idle"
      BY <1>8, <2>1
    <2> QED
      BY <1>1, <2>3, <2>4 DEF Remnants
  <1> QED
    BY <1>3, <1>6, <1>7

\* A step of an end within its handshake.
HandshakeStep(e, place) ==
    /\ pc[e] \notin {"open", "closed"} /\ Goto(e, place)
    /\ place \in {"greeting", "offered", "agreed", "open", "closed"}
    /\ UNCHANGED <<offers, purpose>> /\ Session

\* Such a step changes where its end is, and keeps what is known of frames.
LEMMA HandshakeKeeps ==
    ASSUME WireInv, NEW e \in Ends, NEW place, HandshakeStep(e, place),
           incoming' \in [Ends -> Seq(Items)], ItemsAreTrue',
           terms' = [d \in Ends |-> terms'[d]]
    PROVE  /\ WireTypes' /\ Marked' /\ OnlyAgreed' /\ NeverMisread'
           /\ Agreed' = Agreed /\ Fits' = Fits
           /\ pc'[e] = place /\ \A d \in Ends : d # e => pc'[d] = pc[d]
  <1>1. WireTypes' /\ Marked'
        /\ pc'[e] = place /\ \A d \in Ends : d # e => pc'[d] = pc[d]
    BY Zenon DEF WireInv, WireTypes, Marked, HandshakeStep, Goto, Session
  <1>2. OnlyAgreed' /\ NeverMisread'
    BY Zenon DEF WireInv, OnlyAgreed, NeverMisread, HandshakeStep, Session,
       ItemsAreTrue, TrueItem, RequiredCapability
  <1>3. Agreed' = Agreed /\ Fits' = Fits
    BY DEF Agreed, Fits, Agree, Ends, HandshakeStep
  <1> QED
    BY <1>1, <1>2, <1>3

\* An end begins, waits no longer or gives up: nothing is read or sent.
LEMMA QuietKeeps ==
    ASSUME WireInv, NEW e \in Ends, NEW place, HandshakeStep(e, place),
           place = "closed" \/ (e = "server" /\ pc[e] = "start" /\ place = "greeting"),
           UNCHANGED <<incoming, terms, error>>
    PROVE  WireInv'
  <1>1. ItemsAreTrue' /\ Remnants' /\ incoming' \in [Ends -> Seq(Items)]
        /\ terms' = [d \in Ends |-> terms'[d]]
    <2>1. UNCHANGED <<offers, purpose, io, failed, incoming, terms>>
      BY DEF HandshakeStep, Session
    <2>2. UNCHANGED <<Agreed, Fits>>
      BY <2>1, Zenon DEF Agreed, Fits, Agree
    <2>3. ItemsAreTrue'
      BY <2>1, <2>2, Zenon DEF WireInv, ItemsAreTrue, TrueItem, TrueRefusal
    <2>4. Remnants'
      BY <2>1, Zenon DEF WireInv, Remnants
    <2> QED
      BY <2>1, <2>3, <2>4 DEF WireInv, WireTypes
  <1>2. /\ WireTypes' /\ Marked' /\ OnlyAgreed' /\ NeverMisread'
        /\ Agreed' = Agreed /\ Fits' = Fits
        /\ pc'[e] = place /\ \A d \in Ends : d # e => pc'[d] = pc[d]
    BY <1>1, HandshakeKeeps
  <1>3. ServerHears' /\ ClientHears'
    BY <1>2 DEF WireInv, ServerHears, ClientHears, Ends
  <1>4. OnlyFrames' /\ TermsAreShared' /\ RefusalIsTrue'
    BY <1>2
       DEF WireInv, OnlyFrames, TermsAreShared, Ends, RefusalIsTrue, HandshakeStep
  <1> QED
    BY <1>1, <1>2, <1>3, <1>4 DEF WireInv

\* The client sends its magic number, and then its offer.
LEMMA ClientSpeaks ==
    ASSUME WireInv, NEW is \in {"magic", "hello"}, NEW place, HandshakeStep("client", place),
           \/ pc["client"] = "start" /\ place = "greeting" /\ is = "magic"
           \/ pc["client"] = "greeting" /\ place = "offered" /\ is = "hello",
           incoming' = [incoming EXCEPT !["server"] = @ \o <<Item(is)>>],
           UNCHANGED <<terms, error>>
    PROVE  WireInv'
  <1>1. /\ Item(is) \in Items /\ Item(is).is = is /\ TrueItem("server", Item(is))'
    BY DEF Items, Item, TrueItem
  <1>2. /\ Peer("client") = "server" /\ "client" \in Ends /\ "server" \in Ends
        /\ incoming' = [d \in Ends |-> incoming'[d]]
        /\ incoming'["client"] = incoming["client"]
        /\ incoming'["server"] = incoming["server"] \o <<Item(is)>>
    BY Zenon DEF Peer, Ends, WireInv, WireTypes
  <1>3. ItemsAreTrue' /\ Remnants' /\ incoming' \in [Ends -> Seq(Items)]
        /\ terms' = [d \in Ends |-> terms'[d]]
    <2>1. terms' = [d \in Ends |-> terms'[d]]
          /\ UNCHANGED <<offers, purpose, io, failed>> /\ pc["client"] \notin {"open", "closed"}
      BY DEF WireInv, WireTypes, HandshakeStep, Session
    <2> QED
      BY <1>1, <1>2, <2>1, HandshakeItems, Zenon
  <1>4. /\ WireTypes' /\ Marked' /\ OnlyAgreed' /\ NeverMisread'
        /\ Agreed' = Agreed /\ Fits' = Fits
        /\ pc'["client"] = place /\ \A d \in Ends : d # "client" => pc'[d] = pc[d]
    BY <1>2, <1>3, HandshakeKeeps
  <1>5. ServerHears' /\ ClientHears'
    <2>1. <<>> \o <<Item(is)>> = <<Item(is)>>
          /\ <<Item("magic")>> \o <<Item(is)>> = <<Item("magic"), Item(is)>>
      BY <1>1, ShortSequences DEF Items
    <2>2. CASE pc["client"] = "start" /\ place = "greeting" /\ is = "magic"
      BY <1>2, <1>4, <2>1, <2>2, Zenon DEF WireInv, ServerHears, ClientHears, Ends
    <2>3. CASE pc["client"] = "greeting" /\ place = "offered" /\ is = "hello"
      BY <1>2, <1>4, <2>1, <2>3, Zenon
         DEF WireInv, WireTypes, ServerHears, ClientHears, Ends
    <2> QED
      BY <2>2, <2>3
  <1>6. OnlyFrames' /\ TermsAreShared' /\ RefusalIsTrue'
    BY <1>2, <1>4
       DEF WireInv, OnlyFrames, TermsAreShared, Ends, RefusalIsTrue, HandshakeStep,
       ClientHears
  <1> QED
    BY <1>3, <1>4, <1>5, <1>6 DEF WireInv

\* The server reads the magic number.
LEMMA MagicKeeps ==
    ASSUME WireInv, ServerReadsMagic
    PROVE  WireInv'
  <1> DEFINE m == Item("magic")
  <1>1. /\ m \in Items /\ m.is = "magic" /\ TrueItem("client", m)'
    BY DEF Items, Item, TrueItem
  <1>2. /\ Peer("server") = "client" /\ "client" \in Ends /\ "server" \in Ends
        /\ incoming' = [d \in Ends |-> incoming'[d]] /\ incoming["server"] # <<>>
        /\ incoming'["client"] = incoming["client"]
        /\ incoming'["server"] = Tail(incoming["server"])
    BY Zenon
       DEF Peer, Ends, WireInv, WireTypes, ServerReadsMagic, Ready,
           Take
  <1>3. HandshakeStep("server", "offered") /\ pc["server"] = "greeting"
        /\ UNCHANGED <<terms, error>> /\ terms' = [d \in Ends |-> terms'[d]]
        /\ UNCHANGED <<offers, purpose, io, failed>>
    BY DEF HandshakeStep, ServerReadsMagic, Ready, Session, WireInv, WireTypes
  <1>4. ItemsAreTrue' /\ Remnants' /\ incoming' \in [Ends -> Seq(Items)]
    BY <1>1, <1>2, <1>3, HandshakeItems, Zenon
  <1>5. /\ WireTypes' /\ Marked' /\ OnlyAgreed' /\ NeverMisread'
        /\ Agreed' = Agreed /\ Fits' = Fits
        /\ pc'["server"] = "offered" /\ \A d \in Ends : d # "server" => pc'[d] = pc[d]
    BY <1>2, <1>3, <1>4, HandshakeKeeps
  <1>6. Tail(<<m>>) = <<>> /\ Tail(<<m, Item("hello")>>) = <<Item("hello")>>
    BY ShortSequences DEF Items, Item
  <1>7. ServerHears' /\ ClientHears'
    BY <1>2, <1>3, <1>5, <1>6, Zenon DEF WireInv, ServerHears, ClientHears, Ends
  <1>8. OnlyFrames' /\ TermsAreShared' /\ RefusalIsTrue'
    BY <1>2, <1>3, <1>5 DEF WireInv, OnlyFrames, TermsAreShared, Ends, RefusalIsTrue
  <1> QED
    BY <1>4, <1>5, <1>7, <1>8 DEF WireInv

\* A refusal that the server sends is true.
LEMMA RefusalKeeps ==
    ASSUME NEW items, purpose \in {"accept", "PeerRejected", "Retiring"},
           \/ /\ purpose # "accept"
              /\ items = RefusalFrame(purpose, offers["server"], offers["client"])
           \/ purpose = "accept" /\ items = Rejection(offers["server"], offers["client"])
    PROVE  \/ items = <<>>
           \/ \E x \in Items : items = <<x>> /\ x.is = "refusal" /\ TrueRefusal(x.reason)
  <1> DEFINE Refused(r) == [is |-> "refusal", reason |-> r]
  <1>1. \A r \in {"ProtocolTooOld", "PeerRejected", "Retiring"} :
           Refused(r) \in Items /\ Refused(r).is = "refusal" /\ Refused(r).reason = r
    BY DEF Items
  <1>2. CASE purpose # "accept"
    BY <1>1, <1>2 DEF RefusalFrame, TrueRefusal
  <1>3. CASE purpose = "accept"
    BY <1>1, <1>3 DEF Rejection, RefusalFrame, TrueRefusal, VERSION
  <1> QED
    BY <1>2, <1>3

\* The server answers the client's offer with its own, with a refusal or not.
LEMMA OfferKeeps ==
    ASSUME WireInv, ServerReadsOffer
    PROVE  WireInv'
  <1> DEFINE ours == offers["server"]
             theirs == offers["client"]
             Answer(items) == incoming' = [incoming EXCEPT !["server"] = Tail(@),
                                                           !["client"] = @ \o items]
  <1>1. /\ Peer("server") = "client" /\ "client" \in Ends /\ "server" \in Ends
        /\ pc["server"] = "offered" /\ incoming["server"] # <<>>
        /\ UNCHANGED <<offers, purpose, error>> /\ Session
        /\ incoming \in [Ends -> Seq(Items)] /\ terms = [d \in Ends |-> terms[d]]
        /\ pc \in [Ends -> {"start", "greeting", "offered", "agreed", "open", "closed"}]
        /\ purpose \in {"accept", "PeerRejected", "Retiring"}
    BY DEF Peer, Ends, WireInv, WireTypes, ServerReadsOffer, Ready
  <1>2. /\ incoming["server"] = <<Item("hello")>> /\ Tail(incoming["server"]) = <<>>
        /\ incoming["client"] = <<>> \/ pc["client"] = "closed"
        /\ pc["client"] \in {"offered", "closed"}
    <2>1. incoming["server"] = <<Item("hello")>> /\ pc["client"] \in {"offered", "closed"}
      BY <1>1 DEF WireInv, ServerHears
    <2>2. Tail(<<Item("hello")>>) = <<>>
      BY ShortSequences DEF Items, Item
    <2> QED
      BY <1>1, <2>1, <2>2 DEF WireInv, ClientHears
  <1>3. ASSUME NEW items, Answer(items)
        PROVE  /\ incoming' = [d \in Ends |-> incoming'[d]]
               /\ incoming'["server"] = <<>>
               /\ incoming'["client"] = incoming["client"] \o items
    BY <1>1, <1>2, <1>3, Zenon DEF Ends
  <1>4. CASE purpose = "accept" /\ Compatible(ours, theirs)
    <2>1. /\ Answer(<<Item("hello")>>) /\ Goto("server", "agreed")
          /\ terms' = [terms EXCEPT !["server"] = Agree(ours, theirs)]
      BY <1>4 DEF ServerReadsOffer, Item
    <2>2. Agree(ours, theirs) = Agreed /\ Fits
      BY <1>1, <1>4, AgreementIsOne
    <2>3. /\ terms' = [d \in Ends |-> terms'[d]]
          /\ terms'["server"] = Agreed /\ terms'["client"] = terms["client"]
      BY <1>1, <2>1, <2>2, Zenon DEF Ends
    <2>4. HandshakeStep("server", "agreed") /\ UNCHANGED <<offers, purpose, io, failed>>
      BY <1>1, <2>1 DEF HandshakeStep, Session
    <2>5. Agreed' = Agreed /\ Fits' = Fits
      BY <1>1 DEF Agreed, Fits, Agree, Ends
    <2>6. /\ Item("hello") \in Items /\ Item("hello").is = "hello"
          /\ TrueItem("client", Item("hello"))'
      BY <2>2, <2>3, <2>5 DEF Items, Item, TrueItem
    <2>7. ItemsAreTrue' /\ Remnants' /\ incoming' \in [Ends -> Seq(Items)]
      BY <1>1, <1>2, <1>3, <2>1, <2>3, <2>4, <2>6, HandshakeItems, Zenon DEF Ends
    <2>8. /\ WireTypes' /\ Marked' /\ OnlyAgreed' /\ NeverMisread'
          /\ pc'["server"] = "agreed" /\ \A d \in Ends : d # "server" => pc'[d] = pc[d]
      BY <1>1, <2>3, <2>4, <2>7, HandshakeKeeps
    <2>9. <<>> \o <<Item("hello")>> = <<Item("hello")>>
      BY <2>6, ShortSequences
    <2>10. ServerHears' /\ ClientHears'
      BY <1>1, <1>2, <1>3, <2>1, <2>8, <2>9, Zenon DEF ServerHears, ClientHears
    <2>11. OnlyFrames' /\ TermsAreShared' /\ RefusalIsTrue'
      BY <1>1, <1>2, <1>3, <2>1, <2>2, <2>3, <2>5, <2>8
         DEF WireInv, OnlyFrames, TermsAreShared, Ends, RefusalIsTrue
    <2> QED
      BY <2>7, <2>8, <2>10, <2>11 DEF WireInv
  <1>5. CASE ~(purpose = "accept" /\ Compatible(ours, theirs))
    <2>1. PICK items : /\ Answer(items)
                       /\ \/ purpose # "accept" /\ items = RefusalFrame(purpose, ours, theirs)
                          \/ purpose = "accept" /\ items = Rejection(ours, theirs)
      BY <1>5, Zenon DEF ServerReadsOffer
    <2>2. Goto("server", "closed") /\ UNCHANGED terms
      BY <1>5, Zenon DEF ServerReadsOffer
    <2>3. HandshakeStep("server", "closed") /\ UNCHANGED <<offers, purpose, io, failed>>
          /\ terms' = [d \in Ends |-> terms'[d]]
      BY <1>1, <2>2 DEF HandshakeStep, Session
    <2>4. PICK x \in Items : /\ x.is \in {"magic", "refusal"} /\ TrueItem("client", x)'
                             /\ \/ items = <<>> /\ x = Item("magic")
                                \/ items = <<x>> /\ x.is = "refusal"
      <3>1. Item("magic") \in Items /\ Item("magic").is = "magic"
            /\ TrueItem("client", Item("magic"))'
        BY DEF Items, Item, TrueItem
      <3>3. \/ items = <<>>
            \/ \E x \in Items : items = <<x>> /\ x.is = "refusal" /\ TrueRefusal(x.reason)
        BY <1>1, <2>1, RefusalKeeps
      <3>2. \A x : x.is = "refusal" /\ TrueRefusal(x.reason) => TrueItem("client", x)'
        BY <1>1 DEF TrueItem, TrueRefusal
      <3> QED
        BY <2>1, <3>1, <3>2, <3>3
    <2>5. /\ \/ incoming'["client"] = incoming["client"]
             \/ incoming'["client"] = incoming["client"] \o <<x>>
          /\ incoming["client"] = <<>> =>
                \/ incoming'["client"] = <<>>
                \/ incoming'["client"] = <<x>> /\ x.is = "refusal"
      <3>1. /\ incoming["client"] \o <<>> = incoming["client"]
            /\ <<>> \o <<x>> = <<x>> /\ <<>> \o <<>> = <<>>
        BY <1>1, ShortSequences
      <3> QED
        BY <1>3, <2>1, <2>4, <3>1, Zenon
    <2>6. ItemsAreTrue' /\ Remnants' /\ incoming' \in [Ends -> Seq(Items)]
      BY <1>1, <1>2, <1>3, <2>1, <2>2, <2>3, <2>4, <2>5, HandshakeItems, Zenon DEF Ends
    <2>7. /\ WireTypes' /\ Marked' /\ OnlyAgreed' /\ NeverMisread'
          /\ Agreed' = Agreed /\ Fits' = Fits
          /\ pc'["server"] = "closed" /\ \A d \in Ends : d # "server" => pc'[d] = pc[d]
      BY <1>1, <2>3, <2>6, HandshakeKeeps
    <2>8. ServerHears' /\ ClientHears'
      <3>1. Len(<<x>>) = 1 /\ <<x>>[1] = x
        OBVIOUS
      <3> QED
        BY <1>1, <1>2, <2>5, <2>7, <3>1, Zenon DEF ServerHears, ClientHears
    <2>9. OnlyFrames' /\ TermsAreShared' /\ RefusalIsTrue'
      BY <1>1, <1>2, <2>2, <2>7
         DEF WireInv, OnlyFrames, TermsAreShared, Ends, RefusalIsTrue
    <2> QED
      BY <2>6, <2>7, <2>8, <2>9 DEF WireInv
  <1> QED
    BY <1>4, <1>5

\* The client reads the server's answer: a refusal, or an offer to accept.
LEMMA AnswerKeeps ==
    ASSUME WireInv, ClientReadsAnswer
    PROVE  WireInv'
  <1> DEFINE ours == offers["client"]
             theirs == offers["server"]
             answer == Head(incoming["client"])
             Rest(items) == incoming' = [incoming EXCEPT !["client"] = Tail(@),
                                                         !["server"] = @ \o items]
  <1>1. /\ Peer("client") = "server" /\ "client" \in Ends /\ "server" \in Ends
        /\ pc["client"] = "offered" /\ incoming["client"] # <<>>
        /\ UNCHANGED <<offers, purpose>> /\ Session
        /\ incoming \in [Ends -> Seq(Items)] /\ terms = [d \in Ends |-> terms[d]]
        /\ pc \in [Ends -> {"start", "greeting", "offered", "agreed", "open", "closed"}]
        /\ answer.is \in {"hello", "refusal"}
    BY DEF Peer, Ends, WireInv, WireTypes, ClientReadsAnswer, Ready
  <1>2. /\ answer = incoming["client"][1] /\ 1 \in 1..Len(incoming["client"])
        /\ TrueItem("client", answer)
    BY <1>1, Less, Zenon DEF WireInv, ItemsAreTrue
  <1>3. /\ answer.is = "hello" => incoming["client"] = <<Item("hello")>>
        /\ Tail(incoming["client"]) = <<>>
        /\ pc["server"] \in {"agreed", "closed"}
    <2>1. Tail(<<Item("hello")>>) = <<>> /\ Head(<<Item("hello")>>) = Item("hello")
      BY ShortSequences DEF Items, Item
    <2>2. Len(incoming["client"]) = 1 => Tail(incoming["client"]) = <<>>
      <3>1. Tail(incoming["client"]) \in Seq(Items)
            /\ Len(Tail(incoming["client"])) = Len(incoming["client"]) - 1
        BY <1>1, Less
      <3>2. Len(incoming["client"]) = 1 => Len(Tail(incoming["client"])) = 0
        BY <3>1
      <3> QED
        BY <3>1, <3>2, Nothing, Zenon
    <2> QED
      BY <1>1, <1>2, <2>1, <2>2, Zenon DEF WireInv, ClientHears
  <1>4. ASSUME NEW items, Rest(items)
        PROVE  /\ incoming' = [d \in Ends |-> incoming'[d]]
               /\ incoming'["client"] = <<>> /\ incoming'["client"] = Tail(incoming["client"])
               /\ incoming'["server"] = incoming["server"] \o items
    BY <1>1, <1>3, <1>4, Zenon DEF Ends
  <1>5. Agreed' = Agreed /\ Fits' = Fits
    BY <1>1 DEF Agreed, Fits, Agree, Ends
  <1>6. CASE answer.is = "hello" /\ Compatible(ours, theirs)
    <2>1. /\ Rest(<<Item("accepted")>>) /\ Goto("client", "agreed") /\ UNCHANGED error
          /\ terms' = [terms EXCEPT !["client"] = Agree(ours, theirs)]
      BY <1>6 DEF ClientReadsAnswer, CheckRefusal, Item
    <2>2. Agree(ours, theirs) = Agreed /\ Fits /\ terms["server"] = Agreed
      BY <1>2, <1>6 DEF TrueItem, Agreed
    <2>3. /\ terms' = [d \in Ends |-> terms'[d]]
          /\ terms'["client"] = Agreed /\ terms'["server"] = Agreed
      BY <1>1, <2>1, <2>2, Zenon DEF Ends
    <2>4. HandshakeStep("client", "agreed") /\ UNCHANGED <<offers, purpose, io, failed>>
      BY <1>1, <2>1 DEF HandshakeStep, Session
    <2>5. /\ Item("accepted") \in Items /\ Item("accepted").is = "accepted"
          /\ TrueItem("server", Item("accepted"))'
      BY <2>3, <1>5 DEF Items, Item, TrueItem, Peer
    <2>6. ItemsAreTrue' /\ Remnants' /\ incoming' \in [Ends -> Seq(Items)]
      BY <1>1, <1>4, <2>1, <2>3, <2>4, <2>5, HandshakeItems, Zenon DEF Ends
    <2>7. /\ WireTypes' /\ Marked' /\ OnlyAgreed' /\ NeverMisread'
          /\ pc'["client"] = "agreed" /\ \A d \in Ends : d # "client" => pc'[d] = pc[d]
      BY <1>1, <2>3, <2>4, <2>6, HandshakeKeeps
    <2>8. <<>> \o <<Item("accepted")>> = <<Item("accepted")>>
      BY <2>5, ShortSequences
    <2>9. ServerHears' /\ ClientHears'
      <3>1. pc["server"] = "agreed" => incoming["server"] = <<>>
        BY <1>1 DEF WireInv, ServerHears
      <3> QED
        BY <1>1, <1>3, <1>4, <2>1, <2>7, <2>8, <3>1, Zenon DEF ServerHears, ClientHears
    <2>10. OnlyFrames' /\ TermsAreShared' /\ RefusalIsTrue'
      BY <1>1, <1>3, <1>4, <1>5, <2>1, <2>2, <2>3, <2>7
         DEF WireInv, OnlyFrames, TermsAreShared, Ends, RefusalIsTrue
    <2> QED
      BY <2>6, <2>7, <2>9, <2>10 DEF WireInv
  <1>7. CASE ~(answer.is = "hello" /\ Compatible(ours, theirs))
    <2>1. /\ Rest(<<>>) /\ Goto("client", "closed") /\ UNCHANGED terms
          /\ \/ UNCHANGED error
             \/ answer.is = "refusal" /\ error' = answer.reason
      BY <1>1, <1>7 DEF ClientReadsAnswer, CheckRefusal
    <2>2. HandshakeStep("client", "closed") /\ UNCHANGED <<offers, purpose, io, failed>>
          /\ terms' = [d \in Ends |-> terms'[d]]
      BY <1>1, <2>1 DEF HandshakeStep, Session
    <2>3. Item("magic") \in Items /\ Item("magic").is = "magic"
          /\ TrueItem("server", Item("magic"))'
      BY DEF Items, Item, TrueItem
    <2>4. incoming'["server"] = incoming["server"]
      <3>1. incoming["server"] \o <<>> = incoming["server"]
        BY <1>1
      <3> QED
        BY <1>4, <2>1, <3>1, Zenon
    <2>5. ItemsAreTrue' /\ Remnants' /\ incoming' \in [Ends -> Seq(Items)]
      BY <1>1, <1>4, <2>1, <2>2, <2>3, <2>4, HandshakeItems, Zenon DEF Ends
    <2>6. /\ WireTypes' /\ Marked' /\ OnlyAgreed' /\ NeverMisread'
          /\ pc'["client"] = "closed" /\ \A d \in Ends : d # "client" => pc'[d] = pc[d]
      BY <1>1, <2>2, <2>5, HandshakeKeeps
    <2>7. ServerHears' /\ ClientHears'
      BY <1>1, <1>3, <2>4, <2>6 DEF WireInv, ServerHears, ClientHears
    <2>8. OnlyFrames' /\ TermsAreShared'
      BY <1>1, <1>3, <1>5, <2>1, <2>6 DEF WireInv, OnlyFrames, TermsAreShared, Ends
    <2>9. RefusalIsTrue'
      BY <1>1, <1>2, <2>1 DEF WireInv, RefusalIsTrue, TrueItem, TrueRefusal, VERSION
    <2> QED
      BY <2>5, <2>6, <2>7, <2>8, <2>9 DEF WireInv
  <1> QED
    BY <1>6, <1>7

\* An end that has agreed reads its peer's acceptance; the server answers it.
LEMMA AcceptanceKeeps ==
    ASSUME WireInv, NEW e \in Ends, ReadAcceptance(e)
    PROVE  WireInv'
  <1> DEFINE p == Peer(e)
             a == Item("accepted")
  <1>1. /\ p \in Ends /\ p # e /\ Peer(p) = e /\ Ends = {e, p}
        /\ pc[e] = "agreed" /\ incoming[e] # <<>> /\ Head(incoming[e]).is = "accepted"
        /\ incoming \in [Ends -> Seq(Items)] /\ terms' = [d \in Ends |-> terms'[d]]
        /\ pc \in [Ends -> {"start", "greeting", "offered", "agreed", "open", "closed"}]
        /\ HandshakeStep(e, "open") /\ UNCHANGED <<offers, purpose, terms, error, io, failed>>
    BY DEF Peer, Ends, WireInv, WireTypes, ReadAcceptance, Ready,
       HandshakeStep, Session
  <1>2. /\ incoming' = [d \in Ends |-> incoming'[d]]
        /\ incoming'[e] = Tail(incoming[e])
        /\ e = "server" => incoming'[p] = Append(incoming[p], a)
        /\ e = "client" => incoming'[p] = incoming[p]
    BY <1>1 DEF ReadAcceptance, Ends, Item
  <1>3. Append(incoming[p], a) = incoming[p] \o <<a>> /\ a \in Items /\ a.is = "accepted"
    <2>1. a \in Items /\ a.is = "accepted"
      BY DEF Items, Item
    <2> QED
      BY <1>1, <2>1
  <1>4. terms[e] = Agreed /\ Fits /\ terms[p] = Agreed /\ Agreed' = Agreed /\ Fits' = Fits
    <2>1. Agreed' = Agreed /\ Fits' = Fits
      BY <1>1 DEF Agreed, Fits, Agree
    <2>2. terms[e] = Agreed /\ Fits
      BY <1>1 DEF WireInv, TermsAreShared
    <2>3. TrueItem(e, Head(incoming[e]))
      BY <1>1, Less, Zenon DEF WireInv, ItemsAreTrue
    <2> QED
      BY <1>1, <2>1, <2>2, <2>3 DEF TrueItem
  <1>5. TrueItem(p, a)'
    BY <1>1, <1>3, <1>4 DEF TrueItem, Item
  <1>6. ItemsAreTrue' /\ Remnants' /\ incoming' \in [Ends -> Seq(Items)]
    <2>1. a.is \notin {"part", "rest"} /\ pc[e] \notin {"open", "closed"}
          /\ (incoming'[p] = incoming[p] \/ incoming'[p] = incoming[p] \o <<a>>)
      BY <1>1, <1>2, <1>3, Zenon DEF Ends
    <2> QED
      BY <1>1, <1>2, <1>3, <1>5, <2>1, HandshakeItems, Zenon
  <1>7. /\ WireTypes' /\ Marked' /\ OnlyAgreed' /\ NeverMisread'
        /\ pc'[e] = "open" /\ \A d \in Ends : d # e => pc'[d] = pc[d]
    BY <1>1, <1>6, HandshakeKeeps
  <1>8. TermsAreShared' /\ RefusalIsTrue'
    BY <1>1, <1>4, <1>7 DEF WireInv, TermsAreShared, Ends, Peer, RefusalIsTrue
  <1>9. CASE e = "server"
    <2>1. p = "client" /\ pc["client"] \in {"agreed", "closed"} /\ incoming'["server"] = <<>>
      <3>1. Tail(<<a>>) = <<>>
        BY <1>3, ShortSequences
      <3> QED
        BY <1>1, <1>2, <1>9, <3>1 DEF WireInv, ServerHears, Peer
    <2>2. pc["client"] = "agreed" => incoming'["client"] = <<a>>
      <3>1. <<>> \o <<a>> = <<a>>
        BY <1>3, ShortSequences
      <3> QED
        BY <1>1, <1>2, <1>3, <1>9, <2>1, <3>1 DEF WireInv, ClientHears
    <2>3. <<a>> # <<>> /\ <<a>>[1] = a /\ Len(<<a>>) = 1 /\ 2..1 = {}
      OBVIOUS
    <2>4. ServerHears' /\ ClientHears'
      BY <1>3, <1>7, <1>9, <2>1, <2>2, <2>3 DEF ServerHears, ClientHears, Ends
    <2>5. OnlyFrames'
      BY <1>7, <1>9, <2>1 DEF OnlyFrames, Ends
    <2> QED
      BY <1>6, <1>7, <1>8, <2>4, <2>5 DEF WireInv
  <1>10. CASE e = "client"
    <2>1. p = "server" /\ pc["server"] \in {"open", "closed"}
          /\ incoming'["server"] = incoming["server"]
          /\ \A i \in 2..Len(incoming["client"]) : incoming["client"][i].is \in {"frame", "part"}
      BY <1>1, <1>2, <1>10 DEF WireInv, ClientHears, Peer
    <2>2. \A i \in 1..Len(incoming'["client"]) : incoming'["client"][i].is \in {"frame", "part"}
      <3>1. \A i \in 1..Len(incoming'["client"]) :
               /\ incoming'["client"][i] = incoming["client"][i + 1]
               /\ i + 1 \in 2..Len(incoming["client"])
        BY <1>1, <1>2, <1>10, Less
      <3> QED
        BY <2>1, <3>1
    <2>3. ServerHears' /\ ClientHears'
      BY <1>7, <1>10, <2>1 DEF ServerHears, ClientHears, Ends
    <2>4. OnlyFrames'
      BY <1>7, <1>10, <2>1, <2>2 DEF WireInv, OnlyFrames, Ends
    <2> QED
      BY <1>6, <1>7, <1>8, <2>3, <2>4 DEF WireInv
  <1> QED
    BY <1>9, <1>10 DEF Ends

\* A message needs at most one capability.
LEMMA OneCapability ==
    ASSUME NEW m, NEW capabilities, RequiredCapability(m) \cap capabilities # {}
    PROVE  RequiredCapability(m) # {} /\ RequiredCapability(m) \subseteq capabilities
  <1>1. \E one : RequiredCapability(m) \subseteq {one}
    BY DEF RequiredCapability
  <1> QED
    BY <1>1

\* What a step of an open session leaves as it was.
FrameStep(e, place) ==
    /\ pc[e] = "open" /\ place \in {"open", "closed"} /\ pc' = [pc EXCEPT ![e] = place]
    /\ Handshake

\* The places and the terms, when an open session moves and its peer, if it has
\* agreed and not yet opened, finds more frames behind the acceptance.
LEMMA FrameKeeps ==
    ASSUME WireInv, NEW e \in Ends, NEW place, FrameStep(e, place),
           io' \in [Ends -> {"idle", "sending", "receiving"}],
           failed' \in [Ends -> BOOLEAN], incoming' \in [Ends -> Seq(Items)],
           delivered' = [d \in Ends |-> delivered'[d]],
           \/ incoming'[Peer(e)] = incoming[Peer(e)]
           \/ \E x \in Items : /\ x.is \in {"frame", "part"}
                               /\ incoming'[Peer(e)] = incoming[Peer(e)] \o <<x>>
    PROVE  /\ WireTypes' /\ TermsAreShared' /\ ServerHears' /\ ClientHears' /\ RefusalIsTrue'
           /\ pc'[e] = place /\ \A d \in Ends : d # e => pc'[d] = pc[d]
           /\ \A d \in Ends : \A y : TrueItem(d, y) => TrueItem(d, y)'
  <1>1. /\ UNCHANGED <<offers, purpose, terms, error>> /\ pc[e] = "open"
        /\ pc'[e] = place /\ place \in {"open", "closed"}
        /\ \A d \in Ends : d # e => pc'[d] = pc[d]
        /\ pc \in [Ends -> {"start", "greeting", "offered", "agreed", "open", "closed"}]
    BY DEF FrameStep, Handshake, WireInv, WireTypes
  <1>2. WireTypes' /\ RefusalIsTrue'
    BY <1>1 DEF WireInv, WireTypes, RefusalIsTrue, FrameStep
  <1>3. Agreed' = Agreed /\ Fits' = Fits
    BY <1>1 DEF Agreed, Fits, Agree
  <1>4. TermsAreShared' /\ \A d \in Ends : \A y : TrueItem(d, y) => TrueItem(d, y)'
    BY <1>1, <1>3 DEF WireInv, TermsAreShared, TrueItem, TrueRefusal, Ends
  <1>5. ServerHears' /\ ClientHears'
    <2>1. CASE e = "client"
      BY <1>1, <2>1 DEF WireInv, ServerHears, ClientHears, Ends
    <2>2. CASE e = "server"
      <3> DEFINE s == incoming["client"]
                 t == incoming'["client"]
      <3>1. pc["client"] \in {"agreed", "open", "closed"} /\ s \in Seq(Items)
            /\ \/ t = s
               \/ \E x \in Items : x.is \in {"frame", "part"} /\ t = s \o <<x>>
        BY <1>1, <2>2, Zenon DEF WireInv, WireTypes, ServerHears, Ends, Peer
      <3>2. CASE pc["client"] = "agreed"
        <4>1. /\ s # <<>> /\ s[1].is = "accepted"
              /\ \A i \in 2..Len(s) : s[i].is \in {"frame", "part"}
          BY <1>1, <2>2, <3>2 DEF WireInv, ClientHears
        <4>2. /\ t # <<>> /\ t[1].is = "accepted"
              /\ \A i \in 2..Len(t) : t[i].is \in {"frame", "part"}
          <5>1. CASE t = s
            BY <4>1, <5>1
          <5>2. ASSUME NEW x \in Items, x.is \in {"frame", "part"}, t = s \o <<x>>
                PROVE  /\ t # <<>> /\ t[1].is = "accepted"
                       /\ \A i \in 2..Len(t) : t[i].is \in {"frame", "part"}
            <6>1. /\ t \in Seq(Items) /\ Len(t) = Len(s) + 1 /\ Len(s) \in Nat \ {0}
                  /\ \A i \in 1..Len(t) : \/ i = Len(s) + 1 /\ t[i] = x
                                          \/ i \in 1..Len(s) /\ t[i] = s[i]
              BY <3>1, <4>1, <5>2, More
            <6>2. t # <<>> /\ t[1] = s[1]
              <7>1. 1 \in 1..Len(t) /\ 1 # Len(s) + 1
                BY <6>1
              <7>2. t # <<>>
                BY <6>1
              <7>3. t[1] = s[1]
                BY <6>1, <7>1, Zenon
              <7> QED
                BY <7>2, <7>3
            <6>3. \A i \in 2..Len(t) : \/ t[i] = x
                                       \/ i \in 2..Len(s) /\ t[i] = s[i]
              BY <6>1
            <6> QED
              BY <4>1, <5>2, <6>2, <6>3
          <5> QED
            BY <3>1, <5>1, <5>2, Zenon
        <4> QED
          BY <1>1, <2>2, <3>2, <4>2 DEF ServerHears, ClientHears, Ends
      <3>3. CASE pc["client"] \in {"open", "closed"}
        BY <1>1, <2>2, <3>3 DEF ServerHears, ClientHears, Ends
      <3> QED
        BY <3>1, <3>2, <3>3
    <2> QED
      BY <2>1, <2>2 DEF Ends
  <1> QED
    BY <1>1, <1>2, <1>4, <1>5

\* An operation begins, or the session is dropped: nothing moves.
LEMMA StillKeeps ==
    ASSUME WireInv, NEW e \in Ends,
           Send(e) \/ Receive(e) \/ Drop(e)
    PROVE  WireInv'
  <1> DEFINE p == Peer(e)
  <1>1. PICK place \in {"open", "closed"} : FrameStep(e, place)
    BY DEF FrameStep, WireInv, WireTypes, Send, Receive, Drop, Goto
  <1>2. UNCHANGED <<incoming, delivered, garbled>> /\ io[e] = "idle"
    BY DEF Send, Receive, Drop
  <1>3. /\ io' \in [Ends -> {"idle", "sending", "receiving"}]
        /\ failed' \in [Ends -> BOOLEAN]
        /\ \A d \in Ends : d # e => io'[d] = io[d] /\ failed'[d] = failed[d]
        /\ \/ io'[e] = "idle" /\ failed'[e] = failed[e]
           \/ ~failed[e] /\ failed'[e] /\ place = "open"
    BY <1>1, Zenon
       DEF Send, Receive, Drop, Goto, Begin, Usable, FrameStep,
       WireInv, WireTypes
  <1>4. /\ WireTypes' /\ TermsAreShared' /\ ServerHears' /\ ClientHears' /\ RefusalIsTrue'
        /\ pc'[e] = place /\ \A d \in Ends : d # e => pc'[d] = pc[d]
        /\ \A d \in Ends : \A y : TrueItem(d, y) => TrueItem(d, y)'
    BY <1>1, <1>2, <1>3, FrameKeeps, SMTT(30) DEF WireInv, WireTypes
  <1>5. pc[e] = "open" /\ UNCHANGED offers
    BY <1>1 DEF FrameStep, Handshake
  <1>6. ItemsAreTrue' /\ OnlyFrames'
    BY <1>2, <1>4, <1>5 DEF WireInv, ItemsAreTrue, OnlyFrames
  <1>7. Marked' /\ Remnants'
    BY <1>2, <1>3, <1>4, <1>5 DEF WireInv, Marked, Remnants, Ends, Peer
  <1>8. OnlyAgreed' /\ NeverMisread'
    BY <1>2, <1>5 DEF WireInv, OnlyAgreed, NeverMisread
  <1> QED
    BY <1>4, <1>6, <1>7, <1>8 DEF WireInv

\* What follows for the messages, once the items are known.
LEMMA MessagesKeep ==
    ASSUME WireInv, ItemsAreTrue', UNCHANGED offers, NEW e \in Ends, pc[e] = "open",
           \A d \in Ends : \A m \in delivered'[d] :
               \/ m \in delivered[d]
               \/ d = e /\ Check(e, m)
    PROVE  OnlyAgreed'
  <1>1. terms[e] = Agreed /\ Fits
    BY DEF WireInv, TermsAreShared
  <1>2. \A d \in Ends : \A m \in delivered'[d] : \A x \in Ends :
            /\ RequiredCapability(m) # {}
            /\ RequiredCapability(m) \subseteq offers[x].supported
    <2> SUFFICES ASSUME NEW m, Check(e, m), NEW x \in Ends
                 PROVE  /\ RequiredCapability(m) # {}
                        /\ RequiredCapability(m) \subseteq offers[x].supported
      BY DEF WireInv, OnlyAgreed
    <2>1. Agreed.capabilities \subseteq offers[x].supported
      BY <1>1 DEF Fits
    <2>2. /\ RequiredCapability(m) # {}
          /\ RequiredCapability(m) \subseteq Agreed.capabilities
      BY <1>1, OneCapability DEF Check
    <2> QED
      BY <2>1, <2>2
  <1> QED
    <2>1. \A d \in Ends : \A i \in 1..Len(incoming'[d]) :
             incoming'[d][i].is = "frame" => incoming'[d][i].message.size <= offers'[d].max_frame
      BY Zenon DEF ItemsAreTrue, TrueItem
    <2> QED
      BY <1>2, <2>1, Zenon DEF OnlyAgreed, RequiredCapability

\* A frame, or a part of one, is put behind what is on its way.
LEMMA SentKeeps ==
    ASSUME WireInv, NEW e \in Ends, pc[e] = "open", io[e] = "sending", UNCHANGED pc,
           Handshake, NEW x \in Items,
           \/ /\ x.is = "frame" /\ Sendable(e, x.message) /\ x.message \in Messages
              /\ failed' = [failed EXCEPT ![e] = FALSE]
           \/ x.is = "part" /\ UNCHANGED failed,
           Put(e, <<x>>), io' = [io EXCEPT ![e] = "idle"], UNCHANGED <<delivered, garbled>>
    PROVE  WireInv'
  <1> DEFINE p == Peer(e)
             s == incoming[p]
             t == incoming'[p]
  <1>1. /\ p \in Ends /\ p # e /\ Peer(p) = e /\ Ends = {e, p}
        /\ s \in Seq(Items) /\ incoming'[e] = incoming[e] /\ t = s \o <<x>>
        /\ incoming' = [d \in Ends |-> incoming'[d]] /\ incoming[e] \in Seq(Items)
        /\ FrameStep(e, "open") /\ UNCHANGED offers
    BY Zenon DEF WireInv, WireTypes, Ends, Peer, Put, FrameStep, Handshake
  <1>2. /\ t \in Seq(Items) /\ Len(t) = Len(s) + 1
        /\ \A i \in 1..Len(t) : \/ i = Len(s) + 1 /\ t[i] = x
                                \/ i \in 1..Len(s) /\ t[i] = s[i]
    BY <1>1, More
  <1>3. /\ io' \in [Ends -> {"idle", "sending", "receiving"}]
        /\ failed' \in [Ends -> BOOLEAN] /\ io'[e] = "idle"
        /\ io'[p] = io[p] /\ failed'[p] = failed[p]
        /\ x.is = "part" => failed'[e]
    BY <1>1, Zenon DEF WireInv, WireTypes, Marked
  <1>4. incoming' \in [Ends -> Seq(Items)]
    BY <1>1, <1>2, Zenon
  <1>5. /\ WireTypes' /\ TermsAreShared' /\ ServerHears' /\ ClientHears' /\ RefusalIsTrue'
        /\ \A d \in Ends : \A y : TrueItem(d, y) => TrueItem(d, y)'
    <2>1. delivered' = [d \in Ends |-> delivered'[d]] /\ x.is \in {"frame", "part"}
      BY DEF WireInv, WireTypes
    <2> QED
      BY <1>1, <1>3, <1>4, <2>1, FrameKeeps, Zenon
  <1>6. TrueItem(p, x)
    <2>1. x.is = "frame" => x.message.size <= offers[p].max_frame
      <3>1. terms[e] = Agreed /\ Fits
        BY DEF WireInv, TermsAreShared
      <3>2. Agreed.max_frame \in 1..offers[p].max_frame /\ offers[p].max_frame \in 1..3
        BY <1>1, <3>1 DEF Fits
      <3>3. x.is = "frame" => x.message.size \in Nat /\ x.message.size <= Agreed.max_frame
        BY <3>1, MessagesHaveSizes, Zenon DEF Sendable
      <3> QED
        BY <3>2, <3>3
    <2> QED
      BY <2>1, Zenon DEF TrueItem
  <1>7. ItemsAreTrue'
    BY <1>1, <1>2, <1>5, <1>6 DEF WireInv, ItemsAreTrue
  <1>8. OnlyFrames'
    BY <1>1, <1>2 DEF WireInv, OnlyFrames
  <1>9. Remnants' /\ Marked'
    <2>1. /\ \A i \in 1..Len(s) :
                /\ s[i].is # "part"
                /\ s[i].is = "rest" => failed[p] /\ io[p] = "idle"
          /\ \A i \in 1..Len(incoming[e]) :
                /\ incoming[e][i].is # "rest"
                /\ incoming[e][i].is = "part" =>
                      i = Len(incoming[e]) /\ failed[p] /\ io[p] = "idle"
      BY <1>1 DEF WireInv, Remnants
    <2>2. \A i \in 1..Len(t) :
             /\ t[i].is = "part" => i = Len(t) /\ failed'[e] /\ io'[e] = "idle"
             /\ t[i].is = "rest" => failed'[p] /\ io'[p] = "idle"
      BY <1>2, <1>3, <2>1
    <2>3. Remnants'
      BY <1>1, <1>3, <2>1, <2>2 DEF Remnants
    <2> QED
      BY <1>1, <1>3, <2>3 DEF WireInv, Marked
  <1>10. OnlyAgreed' /\ NeverMisread'
    BY <1>1, <1>7, MessagesKeep DEF WireInv, NeverMisread
  <1> QED
    BY <1>5, <1>7, <1>8, <1>9, <1>10 DEF WireInv

\* A frame is read: never the inside of one.
LEMMA ReceivedKeeps ==
    ASSUME WireInv, NEW e \in Ends, Received(e)
    PROVE  WireInv'
  <1> DEFINE p == Peer(e)
             s == incoming[e]
             t == incoming'[e]
             head == Head(s)
  <1>1. /\ p \in Ends /\ p # e /\ Peer(p) = e /\ Ends = {e, p}
        /\ s \in Seq(Items) /\ s # <<>> /\ t = Tail(s) /\ incoming'[p] = incoming[p]
        /\ incoming' = [d \in Ends |-> incoming'[d]] /\ incoming[p] \in Seq(Items)
        /\ pc[e] = "open" /\ UNCHANGED <<pc, offers>> /\ io[e] = "receiving" /\ FrameStep(e, "open")
        /\ head.is = "part" => Len(s) > 1
    BY Zenon
       DEF WireInv, WireTypes, Ends, Peer, Take, FrameStep, Handshake,
       Received
  <1>2. /\ t \in Seq(Items) /\ Len(t) = Len(s) - 1 /\ head = s[1] /\ 1 \in 1..Len(s)
        /\ \A i \in 1..Len(t) : t[i] = s[i + 1] /\ i + 1 \in 1..Len(s)
    BY <1>1, Less
  <1>3. /\ io' \in [Ends -> {"idle", "sending", "receiving"}]
        /\ failed' \in [Ends -> BOOLEAN] /\ io'[e] = "idle"
        /\ io'[p] = io[p] /\ failed'[p] = failed[p]
        /\ delivered' = [d \in Ends |-> delivered'[d]]
    BY <1>1, Zenon DEF WireInv, WireTypes, Received
  <1>4. incoming' \in [Ends -> Seq(Items)]
    BY <1>1, <1>2, Zenon
  <1>5. /\ WireTypes' /\ TermsAreShared' /\ ServerHears' /\ ClientHears' /\ RefusalIsTrue'
        /\ \A d \in Ends : \A y : TrueItem(d, y) => TrueItem(d, y)'
    BY <1>1, <1>3, <1>4, FrameKeeps
  <1>6. ItemsAreTrue'
    BY <1>1, <1>2, <1>5 DEF WireInv, ItemsAreTrue
  <1>7. OnlyFrames'
    BY <1>1, <1>2 DEF WireInv, OnlyFrames
  <1>8. /\ \A i \in 1..Len(s) : /\ s[i].is # "rest"
                                /\ s[i].is = "part" => i = Len(s) /\ failed[p] /\ io[p] = "idle"
        /\ \A i \in 1..Len(incoming[p]) :
              /\ incoming[p][i].is # "part"
              /\ incoming[p][i].is = "rest" => failed[p] /\ io[p] = "idle"
    BY <1>1 DEF WireInv, Remnants
  <1>9. Remnants' /\ Marked'
    <2>1. \A i \in 1..Len(t) :
             /\ t[i].is # "rest"
             /\ t[i].is = "part" => i = Len(t) /\ failed'[p] /\ io'[p] = "idle"
      BY <1>1, <1>2, <1>3, <1>8
    <2>2. Remnants'
      BY <1>1, <1>3, <1>8, <2>1 DEF Remnants
    <2> QED
      BY <1>1, <1>3, <2>2 DEF WireInv, Marked
  <1>10. NeverMisread'
    <2>1. head.is # "rest" /\ head.is # "part" /\ head.is \in {"frame", "part", "rest"}
      BY <1>1, <1>2, <1>8 DEF WireInv, OnlyFrames
    <2> QED
      BY <2>1, Zenon DEF WireInv, NeverMisread, Received
  <1>11. OnlyAgreed'
    <2>1. /\ delivered'[p] = delivered[p]
          /\ \A m \in delivered'[e] : m \in delivered[e] \/ Check(e, m)
      BY <1>1 DEF WireInv, WireTypes, Received
    <2> QED
      BY <1>1, <1>6, <2>1, MessagesKeep
  <1> QED
    BY <1>5, <1>6, <1>7, <1>9, <1>10, <1>11 DEF WireInv

\* An operation that stops early leaves a part of a frame, and a failed codec.
LEMMA InterruptedKeeps ==
    ASSUME WireInv, NEW e \in Ends, Interrupted(e)
    PROVE  WireInv'
  <1> DEFINE p == Peer(e)
             s == incoming[e]
             t == incoming'[e]
             r == Item("rest")
  <1>1. /\ p \in Ends /\ p # e /\ Peer(p) = e /\ Ends = {e, p}
        /\ s \in Seq(Items) /\ incoming[p] \in Seq(Items)
        /\ pc[e] = "open" /\ UNCHANGED <<pc, offers, failed, delivered, garbled>> /\ io[e] # "idle"
        /\ Handshake /\ FrameStep(e, "open")
        /\ io' = [io EXCEPT ![e] = "idle"] /\ failed[e]
        /\ io' \in [Ends -> {"idle", "sending", "receiving"}]
        /\ failed' \in [Ends -> BOOLEAN] /\ io'[e] = "idle" /\ io'[p] = io[p]
    BY DEF WireInv, WireTypes, Ends, Peer, FrameStep, Handshake,
       Interrupted,
       Marked
  <1>2. CASE io[e] = "sending" /\ Put(e, <<Item("part")>>)
    <2>1. Item("part") \in Items /\ Item("part").is = "part"
      BY DEF Items, Item
    <2> QED
      BY <1>1, <1>2, <2>1, SentKeeps
  <1>3. CASE \/ UNCHANGED incoming
             \/ /\ io[e] = "receiving" /\ s # <<>>
                /\ incoming' = [incoming EXCEPT ![e] = <<r>> \o Tail(@)]
    <2>1. r \in Items /\ r.is = "rest"
      BY DEF Items, Item
    <2>2. /\ incoming' \in [Ends -> Seq(Items)] /\ incoming'[p] = incoming[p]
          /\ Len(t) = Len(s)
          /\ \A i \in 1..Len(t) : t[i] = s[i] \/ t[i] = r
      <3>1. CASE UNCHANGED incoming
        BY <1>1, <3>1 DEF WireInv, WireTypes
      <3>2. CASE s # <<>> /\ incoming' = [incoming EXCEPT ![e] = <<r>> \o Tail(@)]
        <4>1. t = <<r>> \o Tail(s) /\ incoming'[p] = incoming[p]
              /\ incoming' = [d \in Ends |-> incoming'[d]]
          BY <1>1, <3>2, Zenon DEF WireInv, WireTypes
        <4>2. t \in Seq(Items) /\ Len(t) = Len(s) /\ \A i \in 1..Len(t) : t[i] = s[i] \/ t[i] = r
          BY <1>1, <2>1, <3>2, <4>1, Replaced
        <4> QED
          BY <1>1, <4>1, <4>2
      <3> QED
        BY <1>3, <3>1, <3>2
    <2>3. /\ WireTypes' /\ TermsAreShared' /\ ServerHears' /\ ClientHears' /\ RefusalIsTrue'
          /\ \A d \in Ends : \A y : TrueItem(d, y) => TrueItem(d, y)'
      BY <1>1, <2>2, FrameKeeps DEF WireInv, WireTypes
    <2>4. TrueItem(e, r)
      BY <2>1 DEF TrueItem
    <2>5. ItemsAreTrue'
      <3>1. \A i \in 1..Len(t) : TrueItem(e, t[i])
        BY <1>1, <2>2, <2>4, Zenon DEF WireInv, ItemsAreTrue
      <3>2. \A i \in 1..Len(incoming'[p]) : TrueItem(p, incoming'[p][i])
        BY <1>1, <2>2, Zenon DEF WireInv, ItemsAreTrue
      <3> QED
        BY <1>1, <2>3, <3>1, <3>2 DEF ItemsAreTrue
    <2>6. OnlyFrames'
      BY <1>1, <2>1, <2>2 DEF WireInv, OnlyFrames
    <2>7. Remnants' /\ Marked'
      <3>1. /\ \A i \in 1..Len(s) : /\ s[i].is # "rest"
                                    /\ s[i].is = "part" => i = Len(s) /\ failed[p] /\ io[p] = "idle"
            /\ \A i \in 1..Len(incoming[p]) :
                  /\ incoming[p][i].is # "part"
                  /\ incoming[p][i].is = "rest" => failed[p] /\ io[p] = "idle"
        BY <1>1 DEF WireInv, Remnants
      <3>2. \A i \in 1..Len(t) :
               /\ t[i].is = "rest" => failed'[e] /\ io'[e] = "idle"
               /\ t[i].is = "part" => i = Len(t) /\ failed'[p] /\ io'[p] = "idle"
        BY <1>1, <2>1, <2>2, <3>1
      <3>3. Remnants'
        BY <1>1, <2>2, <3>1, <3>2 DEF Remnants
      <3> QED
        BY <1>1, <3>3 DEF WireInv, Marked
    <2>8. OnlyAgreed' /\ NeverMisread'
      BY <1>1, <2>5, MessagesKeep DEF WireInv, NeverMisread
    <2> QED
      BY <2>3, <2>5, <2>6, <2>7, <2>8 DEF WireInv
  <1> QED
    BY <1>2, <1>3 DEF Interrupted, Item

\* Every step of the two ends keeps the invariant.
LEMMA WireStep ==
    ASSUME WireInv, [SessionNext]_svars
    PROVE  WireInv'
  <1>1. CASE UNCHANGED svars
    <2>1. UNCHANGED <<Agreed, Fits>>
      BY <1>1, Zenon DEF svars, Agreed, Fits, Agree
    <2>6. WireTypes'
      BY <1>1 DEF svars, WireInv, WireTypes
    <2>2. TermsAreShared' /\ OnlyFrames' /\ Remnants' /\ Marked'
      BY <1>1, <2>1, Zenon DEF svars, WireInv, TermsAreShared, OnlyFrames, Remnants, Marked
    <2>3. ItemsAreTrue'
      BY <1>1, <2>1, Zenon DEF svars, WireInv, ItemsAreTrue, TrueItem, TrueRefusal
    <2>4. ServerHears' /\ ClientHears'
      BY <1>1, Zenon DEF svars, WireInv, ServerHears, ClientHears
    <2>5. OnlyAgreed' /\ NeverMisread' /\ RefusalIsTrue'
      BY <1>1, Zenon
         DEF svars, WireInv, OnlyAgreed, NeverMisread, RefusalIsTrue
    <2> QED
      BY <2>2, <2>3, <2>4, <2>5, <2>6 DEF WireInv
  <1>2. ASSUME NEW e \in Ends,
               Establish(e) \/ Break(e) \/ Send(e) \/ Sent(e)
                 \/ Receive(e) \/ Received(e) \/ Interrupted(e) \/ Drop(e)
        PROVE  WireInv'
    <2>1. CASE Start(e)
      <3>1. CASE e = "client" /\ Goto(e, "greeting")
        <4>1. /\ HandshakeStep("client", "greeting") /\ pc["client"] = "start"
              /\ UNCHANGED <<terms, error>>
          BY <2>1, <3>1 DEF Start, HandshakeStep
        <4>2. incoming' = [incoming EXCEPT !["server"] = @ \o <<Item("magic")>>]
          BY <1>2, <2>1, <3>1
             DEF Start, Put, Peer, Item, Goto, WireInv, WireTypes
        <4> QED
          BY <4>1, <4>2, ClientSpeaks
      <3>2. CASE ~(e = "client" /\ Goto(e, "greeting"))
        <4>1. PICK place \in {"greeting", "closed"} :
                 /\ HandshakeStep(e, place) /\ UNCHANGED <<incoming, terms, error>>
                 /\ place = "closed" \/ (e = "server" /\ pc[e] = "start" /\ place = "greeting")
          BY <1>2, <2>1, <3>2 DEF Start, HandshakeStep, Ends
        <4> QED
          BY <1>2, <4>1, QuietKeeps
      <3> QED
        BY <3>1, <3>2
    <2>2. CASE ClientOffers
      <3>1. /\ HandshakeStep("client", "offered") /\ pc["client"] = "greeting"
            /\ UNCHANGED <<terms, error>>
            /\ incoming' = [incoming EXCEPT !["server"] = @ \o <<Item("hello")>>]
        BY <2>2 DEF ClientOffers, HandshakeStep, Put, Peer, Item
      <3> QED
        BY <3>1, ClientSpeaks
    <2>3. CASE SeesEnd(e) \/ Break(e)
      <3>1. HandshakeStep(e, "closed") /\ UNCHANGED <<incoming, terms, error>>
        BY <2>3 DEF SeesEnd, Break, HandshakeStep
      <3> QED
        BY <1>2, <3>1, QuietKeeps
    <2>4. CASE Sent(e)
      <3>1. PICK m \in Messages : /\ Sendable(e, m)
                                  /\ Put(e, <<[is |-> "frame", message |-> m]>>)
        BY <2>4 DEF Sent
      <3>2. PICK x \in Items : x = [is |-> "frame", message |-> m]
        BY Zenon DEF Items
      <3>3. x.is = "frame" /\ x.message = m
        BY <3>2
      <3>4. /\ pc[e] = "open" /\ io[e] = "sending" /\ UNCHANGED <<pc, delivered, garbled>>
            /\ Handshake /\ failed' = [failed EXCEPT ![e] = FALSE]
            /\ io' = [io EXCEPT ![e] = "idle"]
        BY <2>4 DEF Sent
      <3>5. Put(e, <<x>>) /\ Sendable(e, x.message)
        BY <3>1, <3>2, <3>3
      <3> QED
        BY <1>2, <3>3, <3>4, <3>5, SentKeeps, Zenon
    <2> QED
      BY <1>2, <2>1, <2>2, <2>3, <2>4, MagicKeeps, OfferKeeps, AnswerKeeps, AcceptanceKeeps,
         StillKeeps, ReceivedKeeps, InterruptedKeeps DEF Establish
  <1> QED
    BY <1>1, <1>2 DEF SessionNext

\* However the steps of both ends interleave and wherever one is interrupted: open
\* sessions share their terms, only what both ends offered passes, no end reads
\* from inside a frame, and refusals say what is so (Session::connect, accept,
\* Session::check, Framed::send, receive, Refused::frame).
THEOREM SessionCorrect == SessionSpec => []SessionIsAgreed
  <1>1. WireInv => SessionIsAgreed
    BY WirePromise DEF SessionIsAgreed
  <1> QED
    BY <1>1, WireInit, WireStep, PTL DEF SessionSpec

=============================================================================

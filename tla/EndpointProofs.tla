--------------------------- MODULE EndpointProofs ---------------------------
(***************************************************************************)
(* For any number of processes, publishers, readers and callers, whatever  *)
(* the limits: what MCEndpoint promises of a daemon's endpoint, record,    *)
(* replacement, start and exit holds.  Each part has an invariant of its   *)
(* own that its steps keep; a step of the whole is a step of one part, and *)
(* leaves the others at rest.                                              *)
(***************************************************************************)
EXTENDS MCEndpoint, TLAPS

-----------------------------------------------------------------------------
(* A Unix endpoint: UnixSocket.                                              *)

\* Where a process holds the bind lock.
BindLocked == {"binding", "probing", "reclaiming", "binding_again", "cleaning"}

SocketPlaces == BindLocked \union {"outside", "won", "serving", "closed", "stood_down", "failed",
                         "ended", "dead"}

FileKinds == {"absent", "other", "socket"}

SocketTypes ==
    /\ file.kind \in FileKinds
    /\ place \in [Binders -> SocketPlaces]
    /\ listens \subseteq Binders
    /\ DOMAIN bound = Binders /\ DOMAIN captured = Binders
    /\ bind_lock \in Binders \union {Socket!Nobody}

\* The lock has one holder.
BindLockIsHeld == \A b \in Binders : place[b] \in BindLocked <=> bind_lock = b

\* A process listens between its bind and its close, and then the name is its
\* own and has the inode it bound.
OwnerListens ==
    /\ \A b \in Binders : b \in listens <=> place[b] \in {"won", "serving"}
    /\ \A b \in listens : file.kind = "socket" /\ file.owner = b /\ file.inode = bound[b]

\* Whoever reclaims has seen a socket at which nobody answers.
ReclaimsTheDead ==
    \A b \in Binders :
        /\ place[b] \in {"probing", "reclaiming"} => file.kind = "socket"
        /\ place[b] = "binding_again" => file.kind = "absent"
        /\ place[b] \in {"reclaiming", "binding_again"} => listens = {}

\* A guard recognises no socket but its own: numbers in use were given once.
GuardsKnow ==
    /\ file.kind = "socket" => file.inode \in used
    /\ \A b \in Binders : place[b] \in {"serving", "closed", "cleaning"} =>
          /\ captured[b] \in used
          /\ file.kind = "socket" /\ file.inode = captured[b] => file.owner = b

SocketInv == SocketTypes /\ BindLockIsHeld /\ OwnerListens /\ ReclaimsTheDead /\ GuardsKnow

\* Nobody listens on the name at first.
LEMMA SocketInit == Socket!Init => SocketInv
  BY NamesAreDistinguished
     DEF Socket!Init, SocketInv, SocketTypes, FileKinds, SocketPlaces, BindLocked,
         BindLockIsHeld, OwnerListens, ReclaimsTheDead,
     GuardsKnow, Socket!Absent, Socket!Unrelated

\* A step that moves one process between places without a listener, and at most
\* takes the free lock or gives its own back, keeps the invariant.
LEMMA MoveKeeps ==
    ASSUME SocketInv, NEW b \in Binders, NEW to \in SocketPlaces, Socket!Move(b, to),
           UNCHANGED <<file, listens, bound, captured, used>>,
           place[b] \notin {"won", "serving"}, to \notin {"won", "serving"},
           bind_lock' \in Binders \union {Socket!Nobody},
           to \in BindLocked <=> bind_lock' = b,
           \A c \in Binders \ {b} : place[c] \in BindLocked <=> bind_lock' = c,
           to \in {"probing", "reclaiming"} => file.kind = "socket",
           to = "reclaiming" => listens = {}, to # "binding_again",
           to \in {"closed", "cleaning"} => place[b] \in {"closed", "cleaning"}
    PROVE  SocketInv'
  <1>1. place' \in [Binders -> SocketPlaces] /\ place'[b] = to
        /\ \A c \in Binders : c # b => place'[c] = place[c]
    BY DEF Socket!Move, SocketInv, SocketTypes
  <1>2. SocketTypes' /\ BindLockIsHeld'
    BY <1>1 DEF SocketInv, SocketTypes, BindLockIsHeld
  <1>3. OwnerListens'
    BY <1>1 DEF SocketInv, OwnerListens
  <1>4. ReclaimsTheDead'
    BY <1>1 DEF SocketInv, ReclaimsTheDead
  <1>5. GuardsKnow'
    BY <1>1 DEF SocketInv, GuardsKnow
  <1> QED
    BY <1>2, <1>3, <1>4, <1>5 DEF SocketInv

\* A bind makes a name for a number that no guard knows, when nobody listens.
LEMMA BindKeeps ==
    ASSUME SocketInv, ~ReuseInodes, NEW b \in Binders,
           place[b] \in BindLocked, listens = {},
           Socket!BindPrivate(b), Socket!Return(b, "won"), UNCHANGED captured
    PROVE  SocketInv'
  <1>1. PICK i \in Socket!FreeInodes :
          /\ file' = [kind |-> "socket", inode |-> i, owner |-> b]
          /\ bound' = [bound EXCEPT ![b] = i]
          /\ listens' = {b}
          /\ used' = used \union {i}
    BY Zenon DEF Socket!BindPrivate
  <1>2. i \notin used
    BY <1>1 DEF Socket!FreeInodes
  <1>3. place' \in [Binders -> SocketPlaces] /\ place'[b] = "won"
        /\ \A c \in Binders : c # b => place'[c] = place[c] /\ place[c] \notin BindLocked
    BY DEF Socket!Return, Socket!Move, SocketInv, SocketTypes, SocketPlaces, BindLockIsHeld
  <1>4. SocketTypes'
    BY <1>1, <1>3, Zenon DEF SocketInv, SocketTypes, FileKinds, Socket!Return
  <1>5. BindLockIsHeld' /\ ReclaimsTheDead'
    BY NamesAreDistinguished, <1>3
       DEF BindLockIsHeld, ReclaimsTheDead, BindLocked, Socket!Return
  <1>6. OwnerListens'
    BY <1>1, <1>3 DEF SocketInv, SocketTypes, OwnerListens
  <1>7. GuardsKnow'
    BY <1>1, <1>2, <1>3 DEF SocketInv, GuardsKnow
  <1> QED
    BY <1>4, <1>5, <1>6, <1>7 DEF SocketInv

\* acquire: everything happens under the lock.
LEMMA AcquireKeeps ==
    ASSUME SocketInv, ~ReuseInodes, NEW b \in Binders,
           \/ Socket!Refused(b) \/ Socket!Lock(b) \/ Socket!Bind(b) \/ Socket!Probe(b)
           \/ Socket!Unlink(b) \/ Socket!BindAgain(b) \/ Socket!Fails(b)
    PROVE  SocketInv'
  <1>1. CASE Socket!Refused(b)
    BY <1>1, MoveKeeps
       DEF Socket!Refused, SocketPlaces, SocketInv, SocketTypes, BindLockIsHeld, BindLocked
  <1>2. CASE Socket!Lock(b)
    <2>1. CASE bind_lock = Socket!Nobody
      <3>1. \A c \in Binders : place[c] \notin BindLocked
        BY NamesAreDistinguished, <2>1 DEF SocketInv, BindLockIsHeld
      <3> QED
        BY <1>2, <2>1, <3>1, MoveKeeps DEF Socket!Lock, SocketPlaces, BindLocked
    <2>2. CASE bind_lock # Socket!Nobody
      BY <1>2, <2>2, MoveKeeps
         DEF Socket!Lock, SocketPlaces, BindLocked, SocketInv, SocketTypes, BindLockIsHeld
    <2> QED
      BY <2>1, <2>2
  <1> DEFINE Alone == \A c \in Binders \ {b} : place[c] \notin BindLocked
  <1>3. ASSUME place[b] \in BindLocked PROVE Alone /\ bind_lock = b
    BY <1>3 DEF SocketInv, BindLockIsHeld
  <1>4. CASE Socket!Bind(b)
    <2>1. place[b] = "binding" /\ place[b] \in BindLocked
      BY <1>4 DEF Socket!Bind, BindLocked
    <2>2. CASE file.kind = "absent"
      <3>1. listens = {}
        BY <2>2 DEF SocketInv, OwnerListens
      <3> QED
        BY <1>4, <2>1, <2>2, <3>1, BindKeeps DEF Socket!Bind
    <2>3. CASE file.kind = "other"
      <3>1. Socket!Return(b, "failed") /\ UNCHANGED <<file, listens, bound, used, captured>>
        BY <1>4, <2>3 DEF Socket!Bind
      <3> QED
        BY NamesAreDistinguished, <1>3, <2>1, <3>1, MoveKeeps
           DEF Socket!Return, SocketPlaces, BindLocked
    <2>4. CASE file.kind = "socket"
      <3>1. /\ Socket!Move(b, "probing")
            /\ UNCHANGED <<file, bind_lock, listens, bound, used, captured>>
        BY <1>4, <2>4 DEF Socket!Bind
      <3> QED
        BY <1>3, <2>1, <2>4, <3>1, MoveKeeps DEF SocketPlaces, BindLocked
    <2>5. CASE file.kind \notin {"absent", "other", "socket"}
      BY <2>5 DEF SocketInv, SocketTypes, FileKinds
    <2> QED
      BY <2>2, <2>3, <2>4, <2>5
  <1>5. CASE Socket!Probe(b)
    <2>1. place[b] = "probing" /\ place[b] \in BindLocked
      BY <1>5 DEF Socket!Probe, BindLocked
    <2>2. CASE Socket!Answering
      BY NamesAreDistinguished, <1>3, <1>5, <2>1, <2>2, MoveKeeps
         DEF Socket!Probe, Socket!Return, SocketPlaces, BindLocked
    <2>3. CASE ~Socket!Answering
      <3>1. listens = {} /\ file.kind = "socket"
        BY <2>1, <2>3 DEF Socket!Answering, SocketInv, OwnerListens, ReclaimsTheDead
      <3> QED
        BY <1>3, <1>5, <2>1, <2>3, <3>1, MoveKeeps DEF Socket!Probe, SocketPlaces, BindLocked
    <2> QED
      BY <2>2, <2>3
  <1>6. CASE Socket!Unlink(b)
    <2>1. place[b] = "reclaiming" /\ listens = {}
      BY <1>6 DEF Socket!Unlink, SocketInv, ReclaimsTheDead
    <2>2. place' \in [Binders -> SocketPlaces] /\ place'[b] = "binding_again"
          /\ \A c \in Binders : c # b => place'[c] = place[c]
      BY <1>6 DEF Socket!Unlink, Socket!Move, SocketInv, SocketTypes, SocketPlaces, BindLocked
    <2>3. file' = Socket!Absent /\ UNCHANGED <<bind_lock, listens, bound, captured, used>>
      BY <1>6 DEF Socket!Unlink
    <2> QED
      BY <2>1, <2>2, <2>3
         DEF SocketInv, SocketTypes, FileKinds, BindLockIsHeld, BindLocked, OwnerListens,
         ReclaimsTheDead, GuardsKnow, Socket!Absent
  <1>7. CASE Socket!BindAgain(b)
    BY <1>7, BindKeeps DEF Socket!BindAgain, SocketInv, ReclaimsTheDead, BindLocked
  <1>8. CASE Socket!Fails(b)
    <2>1. place[b] \in BindLocked /\ place[b] \notin {"won", "serving"}
      BY <1>8 DEF Socket!Fails, BindLocked
    <2>2. CASE UNCHANGED <<file, used>>
      BY NamesAreDistinguished, <1>3, <1>8, <2>1, <2>2, MoveKeeps
         DEF Socket!Fails, Socket!Return, SocketPlaces, BindLocked
    <2>3. CASE /\ file.kind = "absent"
               /\ \E i \in Socket!FreeInodes :
                    /\ file' = [kind |-> "socket", inode |-> i, owner |-> b]
                    /\ used' = used \union {i}
      <3>1. PICK i \in Socket!FreeInodes :
               /\ file' = [kind |-> "socket", inode |-> i, owner |-> b]
               /\ used' = used \union {i}
        BY <2>3
      <3>2. i \notin used
        BY <3>1 DEF Socket!FreeInodes
      <3>3. listens = {}
        BY <2>3 DEF SocketInv, OwnerListens
      <3>4. place' \in [Binders -> SocketPlaces] /\ place'[b] = "failed"
            /\ \A c \in Binders : c # b => place'[c] = place[c] /\ place[c] \notin BindLocked
        BY <1>3, <1>8, <2>1
           DEF Socket!Fails, Socket!Return, Socket!Move, SocketInv, SocketTypes, SocketPlaces
      <3>5. bind_lock' = Socket!Nobody /\ UNCHANGED <<listens, bound, captured>>
        BY <1>8 DEF Socket!Fails, Socket!Return
      <3>6. SocketTypes' /\ BindLockIsHeld' /\ ReclaimsTheDead'
        BY NamesAreDistinguished, <3>1, <3>4, <3>5
           DEF SocketInv, SocketTypes, FileKinds, BindLockIsHeld, ReclaimsTheDead, BindLocked
      <3>7. OwnerListens'
        BY <3>3, <3>4, <3>5 DEF SocketInv, OwnerListens
      <3>8. GuardsKnow'
        BY <3>1, <3>2, <3>4, <3>5 DEF SocketInv, GuardsKnow
      <3> QED
        BY <3>6, <3>7, <3>8 DEF SocketInv
    <2> QED
      BY <1>8, <2>2, <2>3 DEF Socket!Fails
  <1> QED
    BY <1>1, <1>2, <1>4, <1>5, <1>6, <1>7, <1>8

\* SocketGuard and the end of a process.
LEMMA GuardKeeps ==
    ASSUME SocketInv, NEW b \in Binders,
           \/ Socket!Capture(b) \/ Socket!CloseListener(b) \/ Socket!GuardLocks(b)
           \/ Socket!GuardRemoves(b) \/ Socket!Crash(b) \/ Socket!Retry(b)
    PROVE  SocketInv'
  <1> DEFINE MovesTo(p) == place' \in [Binders -> SocketPlaces] /\ place'[b] = p
                      /\ \A c \in Binders : c # b => place'[c] = place[c]
  <1>1. CASE Socket!Capture(b)
    <2>1. MovesTo("serving") /\ place[b] = "won"
      BY <1>1, SMTT(30) DEF Socket!Capture, Socket!Move, SocketInv, SocketTypes, SocketPlaces
    <2>2. file.kind = "socket" /\ file.owner = b
      BY <2>1 DEF SocketInv, OwnerListens
    <2>3. /\ captured' = [captured EXCEPT ![b] = file.inode]
          /\ UNCHANGED <<file, bind_lock, listens, bound, used>>
      BY <1>1 DEF Socket!Capture
    <2>4. SocketTypes' /\ BindLockIsHeld' /\ ReclaimsTheDead' /\ OwnerListens'
      BY <2>1, <2>3
         DEF SocketInv, SocketTypes, BindLockIsHeld, ReclaimsTheDead, OwnerListens, BindLocked
    <2>5. GuardsKnow'
      BY <2>1, <2>2, <2>3 DEF SocketInv, SocketTypes, GuardsKnow
    <2> QED
      BY <2>4, <2>5 DEF SocketInv
  <1>2. CASE Socket!CloseListener(b)
    <2>1. MovesTo("closed") /\ place[b] = "serving"
      BY <1>2 DEF Socket!CloseListener, Socket!Move, SocketInv, SocketTypes, SocketPlaces
    <2>2. listens' = listens \ {b} /\ UNCHANGED <<file, bind_lock, bound, captured, used>>
      BY <1>2 DEF Socket!CloseListener
    <2>3. SocketTypes' /\ BindLockIsHeld' /\ ReclaimsTheDead' /\ OwnerListens'
      BY <2>1, <2>2
         DEF SocketInv, SocketTypes, BindLockIsHeld, ReclaimsTheDead, OwnerListens, BindLocked
    <2>4. GuardsKnow'
      BY <2>1, <2>2 DEF SocketInv, GuardsKnow
    <2> QED
      BY <2>3, <2>4 DEF SocketInv
  <1>3. CASE Socket!GuardLocks(b)
    <2>1. CASE bind_lock = Socket!Nobody
      <3>1. \A c \in Binders : place[c] \notin BindLocked
        BY NamesAreDistinguished, <2>1, SMTT(30) DEF SocketInv, BindLockIsHeld
      <3> QED
        BY <1>3, <2>1, <3>1, MoveKeeps DEF Socket!GuardLocks, SocketPlaces, BindLocked
    <2>2. CASE bind_lock # Socket!Nobody
      BY <1>3, <2>2, MoveKeeps
         DEF Socket!GuardLocks, SocketPlaces, BindLocked, SocketInv, SocketTypes,
             BindLockIsHeld
    <2> QED
      BY <2>1, <2>2
  <1>4. CASE Socket!GuardRemoves(b)
    <2>1. place[b] = "cleaning" /\ \A c \in Binders : c # b => place[c] \notin BindLocked
      BY <1>4 DEF Socket!GuardRemoves, SocketInv, BindLockIsHeld, BindLocked
    <2>2. CASE ~Socket!OwnSocket(b)
      BY NamesAreDistinguished, <1>4, <2>1, <2>2, MoveKeeps, SMTT(30)
         DEF Socket!GuardRemoves, Socket!Return, SocketPlaces, BindLocked
    <2>3. CASE Socket!OwnSocket(b)
      <3>1. listens = {}
        BY <2>1, <2>3 DEF Socket!OwnSocket, SocketInv, SocketTypes, GuardsKnow, OwnerListens
      <3>2. MovesTo("ended") /\ file' = Socket!Absent /\ bind_lock' = Socket!Nobody
            /\ UNCHANGED <<listens, bound, captured, used>>
        BY <1>4, <2>3
           DEF Socket!GuardRemoves, Socket!Return, Socket!Move, SocketInv, SocketTypes,
               SocketPlaces
      <3> QED
        BY NamesAreDistinguished, <2>1, <3>1, <3>2, SMTT(30)
           DEF SocketInv, SocketTypes, FileKinds, BindLockIsHeld, BindLocked, OwnerListens,
           ReclaimsTheDead, GuardsKnow, Socket!Absent
    <2> QED
      BY <2>2, <2>3
  <1>5. CASE Socket!Crash(b)
    <2>1. MovesTo("dead")
      BY <1>5 DEF Socket!Crash, Socket!Move, SocketInv, SocketTypes, SocketPlaces
    <2>2. /\ listens' = listens \ {b} /\ UNCHANGED <<file, bound, captured, used>>
          /\ bind_lock' = IF bind_lock = b THEN Socket!Nobody ELSE bind_lock
      BY <1>5 DEF Socket!Crash
    <2>3. SocketTypes' /\ BindLockIsHeld' /\ ReclaimsTheDead' /\ OwnerListens'
      BY NamesAreDistinguished, <2>1, <2>2, Zenon
         DEF SocketInv, SocketTypes, BindLockIsHeld, ReclaimsTheDead, OwnerListens, BindLocked
    <2>4. GuardsKnow'
      BY <2>1, <2>2, Zenon DEF SocketInv, GuardsKnow
    <2> QED
      BY <2>3, <2>4 DEF SocketInv
  <1>6. CASE Socket!Retry(b)
    BY <1>6, MoveKeeps, Zenon
       DEF Socket!Retry, SocketPlaces, BindLocked, SocketInv, SocketTypes, BindLockIsHeld
  <1> QED
    BY <1>1, <1>2, <1>3, <1>4, <1>5, <1>6

\* Every step of the socket's processes keeps the invariant.
LEMMA SocketStep ==
    ASSUME ~ReuseInodes, SocketInv, [Socket!Next]_socket_vars
    PROVE  SocketInv'
  <1>1. CASE Socket!Next
    BY <1>1, AcquireKeeps, GuardKeeps, NamesAreDistinguished DEF Socket!Next
  <1>2. CASE UNCHANGED socket_vars
    BY <1>2 DEF socket_vars, SocketInv, SocketTypes, BindLockIsHeld, OwnerListens,
       ReclaimsTheDead, GuardsKnow
  <1> QED
    BY <1>1, <1>2

\* Not every process has stood down.
NobodyIsLeftOut ==
    (\E b \in Binders : place[b] = "stood_down") => \E b \in Binders : place[b] # "stood_down"

\* A process stands down only for another one, which stays, and leaves unrelated
\* files alone.
LEMMA SocketPromise ==
    ASSUME SocketInv, NobodyIsLeftOut, [Socket!Next]_socket_vars
    PROVE  Socket!EndpointStays /\ Socket!StandDownIsJustified /\ NobodyIsLeftOut'
  <1>1. Socket!EndpointStays
    BY DEF SocketInv, OwnerListens, Socket!EndpointStays
  <1>2. CASE UNCHANGED socket_vars
    BY <1>1, <1>2 DEF socket_vars, Socket!StandDownIsJustified, NobodyIsLeftOut
  <1>3. ASSUME NEW b \in Binders,
               \/ Socket!Refused(b) \/ Socket!Lock(b) \/ Socket!Fails(b) \/ Socket!Bind(b)
               \/ Socket!Probe(b) \/ Socket!Unlink(b) \/ Socket!BindAgain(b) \/ Socket!Capture(b)
               \/ Socket!CloseListener(b) \/ Socket!GuardLocks(b) \/ Socket!GuardRemoves(b)
               \/ Socket!Crash(b) \/ Socket!Retry(b)
        PROVE  Socket!StandDownIsJustified /\ NobodyIsLeftOut'
    <2>1. ASSUME file.kind = "other" PROVE file' = file
      <3>1. ~Socket!Unlink(b) /\ ~Socket!BindAgain(b)
        BY <2>1 DEF Socket!Unlink, Socket!BindAgain, SocketInv, ReclaimsTheDead
      <3>2. Socket!Bind(b) => file' = file
        BY <2>1 DEF Socket!Bind
      <3> QED
        BY <1>3, <2>1, <3>1, <3>2, Zenon
           DEF Socket!Refused, Socket!Lock, Socket!Fails, Socket!Probe, Socket!Capture,
               Socket!CloseListener,
           Socket!GuardLocks, Socket!GuardRemoves, Socket!OwnSocket, Socket!Crash, Socket!Retry
    <2>2. ASSUME NEW c \in Binders, place[c] # "stood_down", place'[c] = "stood_down"
          PROVE  \E d \in Binders \ {c} :
                    d \in listens \/ place[d] \in Socket!Acquiring \union {"cleaning"}
      <3>1. \A to : Socket!Move(b, to) => c = b /\ to = "stood_down"
        BY <2>2 DEF Socket!Move, SocketInv, SocketTypes
      <3>2. (Socket!Lock(b) /\ bind_lock # Socket!Nobody) \/ (Socket!Probe(b) /\ Socket!Answering)
        <4>1. ~Socket!Refused(b) /\ ~Socket!Fails(b) /\ ~Socket!Unlink(b) /\ ~Socket!BindAgain(b)
          BY <3>1
             DEF Socket!Refused, Socket!Fails, Socket!Unlink, Socket!BindAgain, Socket!Return
        <4>2. /\ ~Socket!Capture(b) /\ ~Socket!CloseListener(b) /\ ~Socket!GuardRemoves(b)
              /\ ~Socket!Crash(b) /\ ~Socket!Retry(b)
          BY <3>1
             DEF Socket!Capture, Socket!CloseListener, Socket!GuardRemoves, Socket!Crash,
                 Socket!Retry, Socket!Return
        <4>3. ~Socket!GuardLocks(b)
          BY <3>1 DEF Socket!GuardLocks
        <4>4. ~Socket!Bind(b)
          <5>1. file.kind \in {"absent", "other", "socket"}
            BY DEF SocketInv, SocketTypes, FileKinds
          <5>2. CASE file.kind = "absent"
            BY <3>1, <5>2 DEF Socket!Bind, Socket!Return
          <5>3. CASE file.kind = "other"
            BY <3>1, <5>3 DEF Socket!Bind, Socket!Return
          <5>4. CASE file.kind = "socket"
            BY <3>1, <5>4 DEF Socket!Bind
          <5> QED
            BY <5>1, <5>2, <5>3, <5>4
        <4>5. Socket!Lock(b) => bind_lock # Socket!Nobody
          BY <3>1 DEF Socket!Lock
        <4>6. Socket!Probe(b) => Socket!Answering
          BY <3>1 DEF Socket!Probe
        <4> QED
          BY <1>3, <4>1, <4>2, <4>3, <4>4, <4>5, <4>6
      <3>3. CASE Socket!Lock(b) /\ bind_lock # Socket!Nobody
        <4>1. c = b /\ bind_lock \in Binders /\ bind_lock # b
          BY <3>1, <3>3 DEF Socket!Lock, SocketInv, SocketTypes, BindLockIsHeld, BindLocked
        <4>2. place[bind_lock] \in BindLocked
          BY <4>1 DEF SocketInv, BindLockIsHeld
        <4> QED
          BY <4>1, <4>2 DEF BindLocked, Socket!Acquiring
      <3>4. CASE Socket!Probe(b) /\ Socket!Answering
        <4>1. c = b /\ place[b] = "probing"
          BY <3>1, <3>4 DEF Socket!Probe, Socket!Return
        <4>2. PICK d \in listens : bound[d] = file.inode
          BY <3>4 DEF Socket!Answering
        <4>3. d \in Binders /\ d # b
          BY <4>1, <4>2, SMTT(30) DEF SocketInv, SocketTypes, OwnerListens
        <4> QED
          BY <4>1, <4>2, <4>3
      <3> QED
        BY <3>2, <3>3, <3>4
    <2>3. NobodyIsLeftOut'
      <3>1. ASSUME NEW c \in Binders, place[c] # "stood_down"
            PROVE  \E d \in Binders : place'[d] # "stood_down"
        <4>1. CASE place'[c] # "stood_down"
          BY <4>1
        <4>2. CASE place'[c] = "stood_down"
          <5>1. PICK d \in Binders \ {c} :
                   d \in listens \/ place[d] \in Socket!Acquiring \union {"cleaning"}
            BY <2>2, <3>1, <4>2
          <5>2. place[d] # "stood_down"
            BY <5>1 DEF SocketInv, OwnerListens, Socket!Acquiring
          <5>3. \E to : Socket!Move(b, to)
            <6>1. Socket!Bind(b) => \E to : Socket!Move(b, to)
              BY Zenon DEF Socket!Bind, Socket!Return, SocketInv, SocketTypes, FileKinds
            <6> QED
              BY <1>3, <6>1, Zenon
                 DEF Socket!Refused, Socket!Lock, Socket!Fails, Socket!Probe, Socket!Unlink,
                     Socket!BindAgain, Socket!Capture, Socket!CloseListener, Socket!GuardLocks,
                     Socket!GuardRemoves, Socket!Crash, Socket!Retry, Socket!Return
          <5>4. place'[d] = place[d]
            BY <3>1, <4>2, <5>1, <5>3 DEF Socket!Move, SocketInv, SocketTypes
          <5> QED
            BY <5>1, <5>2, <5>4
        <4> QED
          BY <4>1, <4>2
      <3> QED
        BY <1>3, <3>1 DEF NobodyIsLeftOut
    <2> QED
      BY <2>1, <2>2, <2>3 DEF Socket!StandDownIsJustified, NobodyIsLeftOut
  <1> QED
    BY <1>1, <1>2, <1>3 DEF Socket!Next

-----------------------------------------------------------------------------
(* A pipe: PipeListener.                                                     *)

\* The pauses used are counted, and never exceed those there are.
PipeInv ==
    /\ DOMAIN call = Binders
    /\ retries_used \in [Binders -> 0..Retries]

\* No pause is used at first.
LEMMA PipeInit == Pipe!Init => PipeInv
  BY NumbersAreNatural DEF Pipe!Init, PipeInv

\* A pause is used only if one is left; a call ends as contended when it has met
\* an owner, and as denied when no pause is left.
LEMMA PipeStep ==
    ASSUME PipeInv, [Pipe!Next]_pipe_vars
    PROVE  PipeInv' /\ Pipe!DenialIsWeighed
  <1>1. CASE UNCHANGED pipe_vars
    BY <1>1 DEF pipe_vars, PipeInv, Pipe!DenialIsWeighed
  <1>2. ASSUME NEW b \in Binders, Pipe!Create(b)
        PROVE  PipeInv' /\ Pipe!DenialIsWeighed
    <2>1. UNCHANGED retries_used /\ call[b] = "creating"
      BY <1>2, Zenon DEF Pipe!Create
    <2>2. PICK to : /\ call' = [call EXCEPT ![b] = to]
                    /\ to = "contended" => pipe = "owned"
      BY <1>2 DEF Pipe!Create, Pipe!NextStep, Pipe!Answers
    <2> QED
      BY <2>1, <2>2 DEF PipeInv, Pipe!DenialIsWeighed
  <1>3. ASSUME NEW b \in Binders, Pipe!AskPeer(b)
        PROVE  PipeInv' /\ Pipe!DenialIsWeighed
    <2>0. PICK answered \in {FALSE, pipe = "owned"} :
             LET st == Pipe!NextStep("denied", answered, retries_used[b])
             IN  /\ call' = [call EXCEPT ![b] = IF st = "retry" THEN "creating" ELSE st]
                 /\ retries_used' =
                       [retries_used EXCEPT ![b] = IF st = "retry" THEN @ + 1 ELSE @]
      BY <1>3, Zenon DEF Pipe!AskPeer
    <2> DEFINE s == Pipe!NextStep("denied", answered, retries_used[b])
    <2>1. /\ call' = [call EXCEPT ![b] = IF s = "retry" THEN "creating" ELSE s]
          /\ retries_used' =
                [retries_used EXCEPT ![b] = IF s = "retry" THEN retries_used[b] + 1
                                            ELSE retries_used[b]]
      BY <2>0
    <2>2. s = IF answered THEN "contended"
              ELSE IF retries_used[b] < Retries THEN "retry" ELSE "fail"
      BY DEF Pipe!NextStep
    <2>3. retries_used[b] \in 0..Retries
      BY DEF PipeInv
    <2>4. PipeInv'
      BY <2>1, <2>2, <2>3, NumbersAreNatural DEF PipeInv
    <2>5. /\ s = "contended" => pipe = "owned"
          /\ s = "fail" => retries_used[b] = Retries
      <3>1. answered => pipe = "owned"
        BY Zenon
      <3>2. ~(retries_used[b] < Retries) => retries_used[b] = Retries
        BY <2>3, NumbersAreNatural
      <3> HIDE DEF s
      <3> QED
        BY <2>2, <3>1, <3>2
    <2>6. Pipe!DenialIsWeighed
      BY <2>1, <2>5 DEF PipeInv, Pipe!DenialIsWeighed
    <2> QED
      BY <2>4, <2>6
  <1>4. CASE Pipe!OwnerCloses \/ Pipe!PipeFreed
    BY <1>4, SMTT(30) DEF Pipe!OwnerCloses, Pipe!PipeFreed, PipeInv, Pipe!DenialIsWeighed
  <1> QED
    BY <1>1, <1>2, <1>3, <1>4 DEF Pipe!Next

-----------------------------------------------------------------------------
(* A record: RecordSlot.                                                     *)

\* What is at the name and on the disk is a record or nothing, and a durable one
\* is all a power loss can leave.
RecordIsWhole ==
    /\ record \in Slot!Records /\ disk \subseteq Slot!Records
    /\ promised # Slot!Missing => disk = {promised}

\* An operation holds the lock from its comparison to its end, and acts on the
\* record it compared; a rename in progress is its publisher's.
SlotSteps == {"idle", "comparing", "removing", "writing", "syncing", "renaming", "flushing"}

OperationsAreLocked ==
    /\ step \in [Publishers -> SlotSteps]
    /\ DOMAIN seen = Publishers /\ DOMAIN op = Publishers
    /\ \A p \in Publishers : step[p] = "comparing" => op[p].kind \in Slot!Ops
    /\ \A p \in Publishers : step[p] # "idle" => slot_lock = {p}
    /\ renaming \subseteq Publishers
    /\ \A p \in Publishers : p \in renaming <=> step[p] = "renaming"
    /\ Slot!ActsOnWhatItRead

\* What a call of read() that finds no name has met, unless the record was gone or
\* it was misled: a rename that is still in progress or has ended since; a second
\* look, another.
Knows(v) ==
    /\ v.at = "waiting" => ~v.rechecked
    /\ v.at = "open" /\ v.rechecked => v.gone \/ v.misled \/ v.renames >= 1
    /\ v.at = "missing" =>
          /\ windows
          /\ \/ v.gone \/ v.misled \/ renaming # {}
             \/ v.renames >= (IF v.rechecked THEN 2 ELSE 1)
          /\ v.rechecked => v.gone \/ v.misled \/ v.renames >= 1
    /\ v.at = "none" => v.gone \/ v.misled \/ v.renames >= 2

ReaderStates ==
    [at : {"done", "open", "missing", "waiting", "none", "late", "denied"}, denied : Nat,
     rechecked : BOOLEAN, gone : BOOLEAN, renames : 0..2, misled : BOOLEAN]

ReadersKnow == reader \in [Readers -> ReaderStates] /\ \A r \in Readers : Knows(reader[r])

SlotInv == RecordIsWhole /\ OperationsAreLocked /\ ReadersKnow

\* There is no record at first.
LEMMA SlotInit == Slot!Init => SlotInv
  BY DEF Slot!Init, SlotInv, RecordIsWhole, OperationsAreLocked, ReadersKnow, SlotSteps, Knows,
     ReaderStates, Slot!Records, Slot!Missing, Slot!ActsOnWhatItRead, Slot!Reading,
     Slot!ReadCall, Slot!Idle

\* The invariant is what the promises are made from.
LEMMA SlotPromise ==
    ASSUME SlotInv
    PROVE  Slot!RecordsAreWhole /\ Slot!ActsOnWhatItRead /\ Slot!MissingIsReal
  <1>1. Slot!RecordsAreWhole
    BY NamesAreDistinguished, SMTT(30)
       DEF SlotInv, RecordIsWhole, Slot!RecordsAreWhole, Slot!Records, Slot!Missing, Slot!Torn
  <1>2. Slot!ActsOnWhatItRead /\ Slot!MissingIsReal
    BY DEF SlotInv, OperationsAreLocked, ReadersKnow, Knows, Slot!MissingIsReal
  <1> QED
    BY <1>1, <1>2

\* A rename that ends is counted by every call that is on.
LEMMA CountKeeps ==
    ASSUME ReadersKnow, Slot!CountRename, UNCHANGED windows
    PROVE  ReadersKnow'
  <1>1. DOMAIN reader' = Readers
    BY SMTT(30) DEF Slot!CountRename
  <1>2. ASSUME NEW r \in Readers PROVE reader'[r] \in ReaderStates /\ Knows(reader[r])'
    <2>1. reader[r] \in ReaderStates /\ Knows(reader[r])
      BY DEF ReadersKnow
    <2>2. CASE reader[r].at = "done"
      BY <2>1, <2>2 DEF Slot!CountRename, Knows
    <2>3. CASE reader[r].at # "done"
      <3>1. reader'[r] =
               [reader[r] EXCEPT !.renames = IF reader[r].renames < 2 THEN reader[r].renames + 1
                                             ELSE reader[r].renames]
        BY <2>3 DEF Slot!CountRename
      <3>2. reader'[r] \in ReaderStates
        BY <2>1, <3>1 DEF ReaderStates
      <3>3. Knows(reader[r])'
        BY <2>1, <3>1, SMTT(30) DEF ReaderStates, Knows
      <3> QED
        BY <3>2, <3>3
    <2> QED
      BY <2>2, <2>3
  <1> QED
    BY <1>1, <1>2 DEF ReadersKnow, Slot!CountRename

\* Calls of read() are not disturbed by a rename that begins or goes on.
LEMMA BeginKeeps ==
    ASSUME ReadersKnow, UNCHANGED <<windows, reader>>, renaming # {} => renaming' # {}
    PROVE  ReadersKnow'
  BY SMTT(30) DEF ReadersKnow, Knows

\* The end of an operation frees the lock.
LEMMA FinishKeeps ==
    ASSUME OperationsAreLocked, NEW p \in Publishers, step[p] # "idle", Slot!Finish(p),
           renaming' = renaming \ {p}
    PROVE  OperationsAreLocked'
  <1>1. step' \in [Publishers -> SlotSteps] /\ \A q \in Publishers : step'[q] = "idle"
    BY DEF OperationsAreLocked, Slot!Finish, Slot!Go, SlotSteps
  <1>2. DOMAIN seen' = Publishers /\ DOMAIN op' = Publishers /\ renaming' = {}
    BY SMTT(30) DEF OperationsAreLocked, Slot!Finish
  <1> QED
    BY <1>1, <1>2 DEF OperationsAreLocked, Slot!ActsOnWhatItRead

\* A step of an operation that goes on leaves the record as it was compared.
LEMMA GoKeeps ==
    ASSUME OperationsAreLocked, NEW p \in Publishers, NEW to \in SlotSteps, Slot!Go(p, to),
           slot_lock' = {p}, UNCHANGED record, renaming' = IF to = "renaming" THEN {p} ELSE {},
           \A q \in Publishers : q # p => step[q] = "idle",
           DOMAIN seen' = Publishers, DOMAIN op' = Publishers,
           to = "comparing" => op'[p].kind \in Slot!Ops,
           to \in {"writing", "syncing", "renaming", "removing"} => seen'[p] = record
    PROVE  OperationsAreLocked'
  <1>1. step' \in [Publishers -> SlotSteps] /\ step'[p] = to
        /\ \A q \in Publishers : q # p => step'[q] = "idle"
    BY DEF OperationsAreLocked, Slot!Go
  <1> QED
    BY <1>1, SMTT(30) DEF OperationsAreLocked, Slot!ActsOnWhatItRead

\* What a holder of the lock knows of the others.
LEMMA OperatesAlone ==
    ASSUME OperationsAreLocked, NEW p \in Publishers, step[p] # "idle"
    PROVE  /\ slot_lock = {p}
           /\ \A q \in Publishers : q # p => step[q] = "idle"
           /\ step[p] = "renaming" => renaming = {p}
           /\ step[p] # "renaming" => renaming = {} /\ renaming \ {p} = renaming
  <1>1. slot_lock = {p} /\ \A q \in Publishers : q # p => step[q] = "idle"
    BY DEF OperationsAreLocked
  <1>2. step[p] = "renaming" => renaming = {p}
    BY <1>1 DEF OperationsAreLocked
  <1>3. step[p] # "renaming" => renaming = {}
    BY <1>1 DEF OperationsAreLocked
  <1> QED
    BY <1>1, <1>2, <1>3

\* RecordSlot: the lock, the comparison and the removal.
LEMMA OperationKeeps ==
    ASSUME SlotInv, NEW p \in Publishers, Slot!Lock(p) \/ Slot!Compare(p) \/ Slot!Remove(p)
    PROVE  SlotInv'
  <1> USE DEF SlotInv
  <1>1. CASE Slot!Lock(p)
    <2>1. \A q \in Publishers : step[q] = "idle"
      BY <1>1, SMTT(30) DEF OperationsAreLocked, Slot!Lock
    <2>2. renaming = {}
      BY <2>1, SMTT(30) DEF OperationsAreLocked
    <2>3. DOMAIN op' = Publishers /\ op'[p].kind \in Slot!Ops
      <3>1. DOMAIN op = Publishers
        BY DEF OperationsAreLocked
      <3>2. PICK kind \in Slot!Ops, durable \in BOOLEAN, accepts \in Slot!Records :
              op' = [op EXCEPT ![p] = [kind |-> kind, durable |-> durable, accepts |-> accepts]]
        BY <1>1, Zenon DEF Slot!Lock
      <3> QED
        BY <3>1, <3>2, SMTT(30)
    <2>4. OperationsAreLocked'
      BY <1>1, <2>1, <2>2, <2>3, GoKeeps, Zenon DEF Slot!Lock, SlotSteps, OperationsAreLocked
    <2> QED
      BY <1>1, <2>4, BeginKeeps, SMTT(30) DEF Slot!Lock, RecordIsWhole
  <1>2. CASE Slot!Compare(p)
    <2>1. step[p] = "comparing"
      BY <1>2, Zenon DEF Slot!Compare
    <2>2. slot_lock = {p} /\ renaming = {} /\ renaming \ {p} = renaming
          /\ \A q \in Publishers : q # p => step[q] = "idle"
      BY <2>1, OperatesAlone
    <2>3. OperationsAreLocked'
      <3> DEFINE to == Slot!Decision(op[p], p, record)
      <3>1. CASE to = "idle"
        BY <1>2, <2>1, <2>2, <3>1, FinishKeeps, Zenon DEF Slot!Compare
      <3>2. CASE to # "idle"
        <4>1. /\ Slot!Go(p, to) /\ seen' = [seen EXCEPT ![p] = record]
              /\ UNCHANGED <<slot_lock, op, record, renaming>>
          BY <1>2, <3>2, Zenon DEF Slot!Compare
        <4>2. to \in {"writing", "removing"}
          BY <2>1, <3>2, SMTT(30) DEF OperationsAreLocked, Slot!Ops, Slot!Decision
        <4> HIDE DEF to
        <4> QED
          BY <2>2, <4>1, <4>2, GoKeeps DEF SlotSteps, OperationsAreLocked
      <3> QED
        BY <3>1, <3>2
    <2> QED
      BY <1>2, <2>3, BeginKeeps, Zenon DEF Slot!Compare, RecordIsWhole
  <1>3. CASE Slot!Remove(p)
    <2>1. step[p] # "idle" /\ renaming \ {p} = renaming
      BY <1>3, OperatesAlone DEF Slot!Remove
    <2>2. OperationsAreLocked'
      BY <1>3, <2>1, FinishKeeps DEF Slot!Remove
    <2> QED
      BY <1>3, <2>2, BeginKeeps DEF Slot!Remove, RecordIsWhole, Slot!Records
  <1> QED
    BY <1>1, <1>2, <1>3

\* publish_record_with: the contents are whole before the rename.
LEMMA PublishKeeps ==
    ASSUME SlotInv, NEW p \in Publishers, Slot!Publish(p) \/ Slot!Crash(p)
    PROVE  SlotInv'
  <1> USE DEF SlotInv
  <1>1. CASE Slot!Write(p)
    <2>1. step[p] = "writing"
      BY <1>1 DEF Slot!Write
    <2>2. OperationsAreLocked'
      BY <1>1, <2>1, OperatesAlone, GoKeeps, Zenon
         DEF Slot!Write, SlotSteps, OperationsAreLocked, Slot!ActsOnWhatItRead
    <2> QED
      BY <1>1, <2>2, BeginKeeps DEF Slot!Write, RecordIsWhole
  <1>2. CASE Slot!Rename(p)
    <2>1. step[p] = "syncing"
      BY <1>2 DEF Slot!Rename
    <2>2. OperationsAreLocked'
      BY <1>2, <2>1, OperatesAlone, GoKeeps, Zenon
         DEF Slot!Rename, SlotSteps, OperationsAreLocked, Slot!ActsOnWhatItRead
    <2> QED
      BY <1>2, <2>2, BeginKeeps DEF Slot!Rename, RecordIsWhole
  <1>3. CASE Slot!Fail(p) \/ Slot!Crash(p)
    <2>1. step[p] # "idle" /\ Slot!Finish(p) /\ renaming' = renaming \ {p}
          /\ UNCHANGED <<windows, record, disk, promised>>
          /\ IF step[p] = "renaming" THEN Slot!CountRename ELSE UNCHANGED reader
      BY <1>3 DEF Slot!Fail, Slot!Crash
    <2>2. OperationsAreLocked'
      BY <2>1, FinishKeeps
    <2>3. ReadersKnow'
      BY <2>1, OperatesAlone, CountKeeps, BeginKeeps, SMTT(30)
    <2> QED
      BY <2>1, <2>2, <2>3 DEF RecordIsWhole
  <1>4. CASE Slot!Renamed(p)
    <2>1. step[p] = "renaming" /\ renaming' = {} /\ Slot!CountRename /\ UNCHANGED windows
          /\ record' = p /\ disk' = disk \union {p} /\ promised' = Slot!Missing
      BY <1>4, Zenon DEF Slot!Renamed, Slot!Synced
    <2>2. slot_lock = {p} /\ renaming = {p} /\ \A q \in Publishers : q # p => step[q] = "idle"
      BY <2>1, OperatesAlone
    <2>3. CASE Slot!Finish(p)
      <3>1. OperationsAreLocked'
        BY <2>1, <2>2, <2>3, FinishKeeps, SMTT(30)
      <3> QED
        BY <2>1, <3>1, CountKeeps DEF RecordIsWhole, Slot!Records
    <2>4. CASE Slot!Go(p, "flushing") /\ UNCHANGED <<slot_lock, op, seen>>
      <3>1. step' \in [Publishers -> SlotSteps] /\ step'[p] = "flushing"
            /\ \A q \in Publishers : q # p => step'[q] = "idle"
        BY <2>2, <2>4, SMTT(30) DEF OperationsAreLocked, Slot!Go, SlotSteps
      <3>2. OperationsAreLocked'
        BY <2>1, <2>2, <2>4, <3>1, Zenon DEF OperationsAreLocked, Slot!ActsOnWhatItRead
      <3> QED
        BY <2>1, <3>2, CountKeeps DEF RecordIsWhole, Slot!Records
    <2> QED
      BY <1>4, <2>3, <2>4, SMTT(30) DEF Slot!Renamed
  <1>5. CASE Slot!Flush(p)
    <2>1. step[p] # "idle" /\ renaming \ {p} = renaming
      BY <1>5, OperatesAlone DEF Slot!Flush
    <2>2. OperationsAreLocked'
      BY <1>5, <2>1, FinishKeeps DEF Slot!Flush
    <2>3. RecordIsWhole'
      BY <1>5 DEF Slot!Flush, RecordIsWhole
    <2> QED
      BY <1>5, <2>2, <2>3, BeginKeeps DEF Slot!Flush
  <1> QED
    BY <1>1, <1>2, <1>3, <1>4, <1>5 DEF Slot!Publish

\* A power loss leaves a state of the disk, and nobody at work.
LEMMA LossKeeps ==
    ASSUME SlotInv, Slot!PowerLoss \/ Slot!Stale
    PROVE  SlotInv'
  <1> USE DEF SlotInv
  <1>1. CASE Slot!Stale
    <2>1. UNCHANGED <<windows, record, renaming, disk, promised, slot_lock, op, step, seen,
    reader>>
      BY <1>1 DEF Slot!Stale
    <2> QED
      BY <2>1, BeginKeeps DEF RecordIsWhole, OperationsAreLocked, Slot!ActsOnWhatItRead
  <1>2. CASE Slot!PowerLoss
    <2>1. RecordIsWhole'
      BY <1>2, SMTT(30) DEF Slot!PowerLoss, RecordIsWhole
    <2>2. OperationsAreLocked'
      <3>1. /\ step' = [p \in Publishers |-> "idle"]
            /\ DOMAIN op' = Publishers /\ DOMAIN seen' = Publishers
            /\ renaming' = {}
        BY <1>2 DEF Slot!PowerLoss
      <3>2. step' \in [Publishers -> SlotSteps]
        BY <3>1 DEF SlotSteps
      <3>3. \A p \in Publishers : step'[p] = "idle"
        BY <3>1, SMTT(30)
      <3> QED
        BY <3>1, <3>2, <3>3 DEF OperationsAreLocked, Slot!ActsOnWhatItRead
    <2>3. ReadersKnow'
      BY <1>2 DEF Slot!PowerLoss, ReadersKnow, ReaderStates, Knows, Slot!Reading, Slot!ReadCall
    <2> QED
      BY <2>1, <2>2, <2>3
  <1> QED
    BY <1>1, <1>2, SMTT(30)

\* read(): an open that finds no name has met a rename, or a record that is gone.
LEMMA ReadKeeps ==
    ASSUME SlotInv, NEW r \in Readers,
           \/ Slot!ReadStart(r) \/ Slot!Open(r) \/ Slot!Denied(r) \/ Slot!AfterMissing(r)
           \/ Slot!Paused(r) \/ Slot!Returned(r)
    PROVE  SlotInv'
  <1> DEFINE v == reader[r]
  <1>1. v \in ReaderStates /\ Knows(v)
    BY DEF SlotInv, ReadersKnow
  <1>2. UNCHANGED <<windows, record, renaming, disk, promised, slot_lock, op, step, seen>>
    BY SMTT(30) DEF Slot!ReadStart, Slot!Open, Slot!Denied, Slot!AfterMissing, Slot!Paused,
       Slot!Returned
  <1>3. ASSUME NEW w \in ReaderStates, Knows(w), reader' = [reader EXCEPT ![r] = w]
        PROVE  SlotInv'
    <2>1. reader' \in [Readers -> ReaderStates]
      BY <1>3 DEF SlotInv, ReadersKnow
    <2>2. \A q \in Readers : Knows(reader'[q])
      BY <1>3, SMTT(30) DEF SlotInv, ReadersKnow
    <2>3. ReadersKnow'
      BY <1>2, <2>1, <2>2, SMTT(30) DEF ReadersKnow, Knows
    <2> QED
      BY <1>2, <2>3 DEF SlotInv, RecordIsWhole, OperationsAreLocked, Slot!ActsOnWhatItRead
  <1>4. Slot!Reading \in ReaderStates /\ Knows(Slot!Reading)
    BY DEF Slot!Reading, Slot!ReadCall, ReaderStates, Knows
  <1>5. CASE Slot!ReadStart(r)
    <2> DEFINE g == record = Slot!Missing
               w == Slot!ReadCall("open", g)
    <2>1. reader' = [reader EXCEPT ![r] = w]
      BY <1>5 DEF Slot!ReadStart
    <2>2. w \in ReaderStates
      <3>1. g \in BOOLEAN
        OBVIOUS
      <3>2. 0 \in Nat /\ 0 \in 0..2
        BY SMTT(30)
      <3> QED
        BY <3>1, <3>2, Zenon DEF ReaderStates, Slot!ReadCall
    <2>3. Knows(w)
      BY DEF Slot!Reading, Slot!ReadCall, Knows
    <2> QED
      BY <1>3, <2>1, <2>2, <2>3, Zenon
  <1>6. CASE Slot!Open(r)
    <2> DEFINE now1 == [v EXCEPT !.gone = v.gone \/ record = Slot!Missing]
    <2>1. reader' = [reader EXCEPT ![r] =
              IF Slot!Exists THEN Slot!Reading
              ELSE IF windows THEN [now1 EXCEPT !.at = "missing"] ELSE [now1 EXCEPT !.at = "none"]]
      BY <1>6, Zenon DEF Slot!Open
    <2>2. /\ [now1 EXCEPT !.at = "missing"] \in ReaderStates
          /\ [now1 EXCEPT !.at = "none"] \in ReaderStates
      BY <1>1, Zenon DEF ReaderStates
    <2>3. ASSUME ~Slot!Exists, windows PROVE Knows([now1 EXCEPT !.at = "missing"])
      BY <1>1, <1>6, <2>3, Zenon DEF Slot!Open, ReaderStates, Knows, Slot!Exists
    <2>4. ASSUME ~Slot!Exists, ~windows PROVE Knows([now1 EXCEPT !.at = "none"])
      BY <1>1, <2>4, Zenon DEF ReaderStates, Knows, Slot!Exists
    <2> QED
      BY <1>3, <1>4, <2>1, <2>2, <2>3, <2>4, Zenon
  <1>7. CASE Slot!Denied(r)
    <2> DEFINE w == IF v.denied < DeniedRetries THEN [v EXCEPT !.denied = v.denied + 1]
                    ELSE [v EXCEPT !.at = "denied"]
    <2>1. reader' = [reader EXCEPT ![r] = w]
      BY <1>7 DEF Slot!Denied
    <2>2. w \in ReaderStates
      BY <1>1 DEF ReaderStates
    <2>3. Knows(w)
      BY <1>1, <1>7 DEF Slot!Denied, ReaderStates, Knows
    <2> QED
      BY <1>3, <2>1, <2>2, <2>3, Zenon
  <1>8. CASE Slot!AfterMissing(r)
    <2> DEFINE m == v.misled \/ Slot!InProgress
               w(shown) == IF shown THEN [v EXCEPT !.at = "waiting", !.rechecked = FALSE]
                           ELSE [v EXCEPT !.at = IF v.rechecked THEN "none" ELSE "open",
                                          !.rechecked = TRUE, !.misled = m]
    <2>1. ~Slot!InProgress => renaming = {}
      BY Zenon DEF Slot!InProgress, SlotInv, OperationsAreLocked
    <2>2. v.at = "missing" /\ \E shown \in Slot!Shown : reader' = [reader EXCEPT ![r] = w(shown)]
      BY <1>8, Zenon DEF Slot!AfterMissing, Slot!Rechecked
    <2>3. PICK shown \in Slot!Shown : reader' = [reader EXCEPT ![r] = w(shown)]
      BY <2>2, Zenon
    <2>4. CASE shown
      BY <1>1, <1>3, <2>3, <2>4, Zenon DEF ReaderStates, Knows
    <2>5. CASE ~shown
      <3> DEFINE n == [v EXCEPT !.at = IF v.rechecked THEN "none" ELSE "open",
                                !.rechecked = TRUE, !.misled = m]
      <3>1. m \in BOOLEAN
        OBVIOUS
      <3>2. n \in ReaderStates /\ n.at = (IF v.rechecked THEN "none" ELSE "open")
            /\ n.rechecked /\ n.misled = m /\ n.gone = v.gone /\ n.renames = v.renames
        BY <1>1, <3>1, Zenon DEF ReaderStates
      <3>3. m \/ renaming = {}
        BY <2>1, Zenon
      <3> HIDE DEF m
      <3>4. v.misled => m
        BY DEF m
      <3>5. Knows(n)
        <4> HIDE DEF n
        <4> QED
          BY <1>1, <2>2, <3>2, <3>3, <3>4, Zenon DEF Knows
      <3> QED
        BY <1>3, <2>3, <2>5, <3>2, <3>5, Zenon
    <2> QED
      BY <2>4, <2>5
  <1>9. CASE Slot!Paused(r)
    BY <1>1, <1>3, <1>9, Zenon DEF Slot!Paused, ReaderStates, Knows
  <1>10. CASE Slot!Returned(r)
    BY <1>3, <1>4, <1>10, Zenon DEF Slot!Returned
  <1> QED
    BY <1>5, <1>6, <1>7, <1>8, <1>9, <1>10

\* Every step at the record keeps the invariant.
LEMMA SlotStep ==
    ASSUME SlotInv, [Slot!Next]_slot_vars
    PROVE  SlotInv'
  <1>1. CASE Slot!Next
    BY <1>1, OperationKeeps, PublishKeeps, LossKeeps, ReadKeeps DEF Slot!Next
  <1>2. CASE UNCHANGED slot_vars
    BY <1>2, Zenon
       DEF slot_vars, SlotInv, RecordIsWhole, OperationsAreLocked, Slot!ActsOnWhatItRead,
       ReadersKnow, Knows
  <1> QED
    BY <1>1, <1>2

-----------------------------------------------------------------------------
(* Callers of an upgrade: EnsureCurrent.                                     *)

\* Where a caller holds the upgrade lock.
UpgradeLocked == {"probing"} \union Upgrade!Replacing

UpgradePlaces == {"calling", "locking"} \union UpgradeLocked \union Upgrade!Done

\* The lock has one holder, and it alone replaces.  As long as nothing goes wrong
\* a replacement that has begun is still being made, or has been.
UpgradeInv ==
    /\ at \in [Callers -> UpgradePlaces]
    /\ \A c \in Callers : at[c] \in UpgradeLocked <=> upgrade_lock = c
    /\ begun \in Nat /\ upsets \in Nat
    /\ upsets = 0 =>
          /\ begun <= 1
          /\ begun = 1 => daemon = "new" \/ \E c \in Callers : at[c] \in Upgrade!Replacing
          /\ \A c \in Callers : at[c] \in Upgrade!Replacing => begun = 1

\* Nobody has begun at first.
LEMMA UpgradeInit == Upgrade!Init => UpgradeInv
  BY NamesAreDistinguished DEF Upgrade!Init, UpgradeInv, UpgradePlaces, UpgradeLocked,
     Upgrade!Replacing, Upgrade!Done

\* The holder is one caller.
LEMMA UpgradePromise == UpgradeInv => Upgrade!OneReplacement
  BY DEF UpgradeInv, UpgradeLocked, Upgrade!OneReplacement

\* A caller returns, and whoever held the lock no longer does.
LEMMA EndKeeps ==
    ASSUME UpgradeInv, NEW c \in Callers, NEW outcome \in Upgrade!Done, Upgrade!End(c,
           outcome),
           UNCHANGED <<daemon, begun>>, upsets' \in Nat,
           upsets' = 0 => upsets = 0 /\ (begun = 0 \/ daemon = "new")
    PROVE  UpgradeInv'
  <1>1. at' \in [Callers -> UpgradePlaces] /\ at'[c] = outcome
        /\ \A d \in Callers : d # c => at'[d] = at[d]
    BY DEF Upgrade!End, Upgrade!Go, UpgradeInv, UpgradePlaces
  <1>2. \A d \in Callers : at'[d] \in UpgradeLocked <=> upgrade_lock' = d
    BY <1>1, NamesAreDistinguished
       DEF Upgrade!End, UpgradeInv, UpgradeLocked, Upgrade!Replacing, Upgrade!Done
  <1>3. upsets' = 0 => \A d \in Callers : at'[d] \in Upgrade!Replacing => begun = 1
    BY <1>1 DEF UpgradeInv, Upgrade!Replacing, Upgrade!Done
  <1> QED
    BY <1>1, <1>2, <1>3 DEF UpgradeInv

\* A caller gives up, and with it the replacement it may have begun.
LEMMA GiveUpKeeps ==
    ASSUME UpgradeInv, NEW c \in Callers, NEW outcome \in Upgrade!Done,
           Upgrade!GiveUp(c, outcome)
    PROVE  UpgradeInv'
  <1>1. at' \in [Callers -> UpgradePlaces] /\ at'[c] = outcome
        /\ \A d \in Callers : d # c => at'[d] = at[d]
    BY DEF Upgrade!GiveUp, Upgrade!End, Upgrade!Go, UpgradeInv, UpgradePlaces
  <1>2. \A d \in Callers : at'[d] \in UpgradeLocked <=> upgrade_lock' = d
    BY <1>1, NamesAreDistinguished
       DEF Upgrade!GiveUp, Upgrade!End, UpgradeInv, UpgradeLocked, Upgrade!Replacing,
           Upgrade!Done
  <1>3. /\ upsets' \in Nat /\ daemon' = daemon /\ begun' = begun
        /\ upsets' = 0 => upsets = 0 /\ at[c] \notin Upgrade!Replacing
    BY DEF Upgrade!GiveUp, UpgradeInv
  <1>4. upsets' = 0 => \A d \in Callers : at'[d] \in Upgrade!Replacing
                                           <=> at[d] \in Upgrade!Replacing
    BY <1>1, <1>3 DEF Upgrade!Replacing, Upgrade!Done
  <1> QED
    BY <1>1, <1>2, <1>3, <1>4, Zenon DEF UpgradeInv

\* Every step of the callers keeps the invariant.
LEMMA UpgradeStep ==
    ASSUME UpgradeInv, [Upgrade!Next]_upgrade_vars
    PROVE  UpgradeInv'
  <1> DEFINE Gone(c, to) == /\ at' \in [Callers -> UpgradePlaces] /\ at'[c] = to
                            /\ \A d \in Callers : d # c => at'[d] = at[d]
  <1>1. ASSUME NEW c \in Callers, NEW to \in UpgradePlaces, Upgrade!Go(c, to)
        PROVE  Gone(c, to)
    BY <1>1 DEF Upgrade!Go, UpgradeInv
  <1>2. ASSUME NEW c \in Callers, Upgrade!FirstProbe(c)
        PROVE  UpgradeInv'
    <2>1. CASE daemon = "new"
      BY <1>2, <2>1, EndKeeps, Zenon
         DEF Upgrade!FirstProbe, Upgrade!ProbeThen, Upgrade!Done, UpgradeInv
    <2>2. CASE daemon # "new"
      <3>1. Gone(c, "locking") /\ at[c] = "calling"
            /\ UNCHANGED <<daemon, upgrade_lock, begun, upsets>>
        BY <1>1, <1>2, <2>2 DEF Upgrade!FirstProbe, Upgrade!ProbeThen, UpgradePlaces
      <3> QED
        BY <3>1 DEF UpgradeInv, UpgradeLocked, Upgrade!Replacing
    <2> QED
      BY <2>1, <2>2
  <1>3. ASSUME NEW c \in Callers, Upgrade!Acquire(c)
        PROVE  UpgradeInv'
    <2>1. Gone(c, "probing") /\ at[c] = "locking" /\ upgrade_lock = Upgrade!Nobody
          /\ upgrade_lock' = c /\ UNCHANGED <<daemon, begun, upsets>>
      BY <1>1, <1>3 DEF Upgrade!Acquire, UpgradePlaces, UpgradeLocked
    <2> QED
      BY <2>1, NamesAreDistinguished DEF UpgradeInv, UpgradeLocked, Upgrade!Replacing
  <1>4. ASSUME NEW c \in Callers, Upgrade!SecondProbe(c)
        PROVE  UpgradeInv'
    <2>1. at[c] = "probing" /\ \A d \in Callers : d # c => at[d] \notin UpgradeLocked
      BY <1>4, SMTT(30) DEF Upgrade!SecondProbe, UpgradeInv, UpgradeLocked
    <2>2. CASE daemon = "new"
      BY <1>4, <2>2, EndKeeps
         DEF Upgrade!SecondProbe, Upgrade!ProbeThen, Upgrade!Done, UpgradeInv
    <2>3. CASE daemon # "new"
      <3>1. Gone(c, "replacing") /\ begun' = begun + 1
            /\ UNCHANGED <<daemon, upgrade_lock, upsets>>
        BY <1>1, <1>4, <2>3
           DEF Upgrade!SecondProbe, Upgrade!ProbeThen, UpgradePlaces, UpgradeLocked,
               Upgrade!Replacing
      <3>2. upsets = 0 => begun = 0
        BY <2>1, <2>3 DEF UpgradeInv, UpgradeLocked, Upgrade!Replacing
      <3> QED
        BY <2>1, <3>1, <3>2 DEF UpgradeInv, UpgradeLocked, Upgrade!Replacing
    <2> QED
      BY <2>2, <2>3
  <1>5. ASSUME NEW c \in Callers, Upgrade!Started(c) \/ Upgrade!Replaced(c)
        PROVE  UpgradeInv'
    <2>1. PICK to \in {"started", "waiting"} :
             Gone(c, to) /\ UNCHANGED <<daemon, upgrade_lock, begun, upsets>>
      BY <1>1, <1>5
         DEF Upgrade!Started, Upgrade!Replaced, UpgradePlaces, UpgradeLocked, Upgrade!Replacing
    <2>2. at[c] \in Upgrade!Replacing
      BY <1>5 DEF Upgrade!Started, Upgrade!Replaced, Upgrade!Replacing
    <2> QED
      BY <2>1, <2>2 DEF UpgradeInv, UpgradeLocked, Upgrade!Replacing
  <1>6. ASSUME NEW c \in Callers, Upgrade!ComesUp(c)
        PROVE  UpgradeInv'
    BY <1>6, SMTT(30) DEF Upgrade!ComesUp, UpgradeInv
  <1>7. ASSUME NEW c \in Callers,
               \/ Upgrade!LockFails(c) \/ Upgrade!ReplaceFails(c) \/ Upgrade!ProbeFails(c)
               \/ Upgrade!Deadline(c)
        PROVE  UpgradeInv'
    <2>1. PICK outcome \in Upgrade!Done : Upgrade!GiveUp(c, outcome)
      BY <1>7, Zenon
         DEF Upgrade!LockFails, Upgrade!ReplaceFails, Upgrade!ProbeFails, Upgrade!Deadline,
             Upgrade!Done
    <2> QED
      BY <2>1, GiveUpKeeps
  <1>8. ASSUME NEW c \in Callers, Upgrade!LastProbe(c)
        PROVE  UpgradeInv'
    BY <1>8, EndKeeps DEF Upgrade!LastProbe, Upgrade!Done, UpgradeInv
  <1>9. CASE Upgrade!DaemonCrashes
    BY <1>9 DEF Upgrade!DaemonCrashes, UpgradeInv
  <1>10. CASE UNCHANGED upgrade_vars
    BY <1>10 DEF upgrade_vars, UpgradeInv
  <1> QED
    BY <1>2, <1>3, <1>4, <1>5, <1>6, <1>7, <1>8, <1>9, <1>10 DEF Upgrade!Next

-----------------------------------------------------------------------------
(* The budget of attempts: Retry.                                            *)

\* Memory and disk agree unless an attempt is reserved, which is then the next
\* one; a candidate was spawned only for a persisted attempt; a permanent failure
\* has spent them all; and no wait is longer than the policy's.
BudgetStates == [attempts : Nat, next_attempt : Int]

BudgetInv ==
    /\ policy \in Policies /\ now \in Nat /\ spawned \in Nat
    /\ persisted \in BudgetStates /\ memory \in BudgetStates
    /\ phase \in {"deciding", "reserved", "persisted"}
    /\ IF phase = "reserved" THEN memory.attempts = persisted.attempts + 1 ELSE memory = persisted
    /\ memory.attempts <= policy.limit
    /\ spawned + (IF phase = "persisted" THEN 1 ELSE 0) <= persisted.attempts
    /\ exhausted => phase = "deciding" /\ memory.attempts = policy.limit
    /\ persisted.next_attempt <= Budget!Saturated(now + policy.maximum_delay)
    /\ memory.next_attempt <= Budget!Saturated(now + policy.maximum_delay)

\* Nothing is spent at first.
LEMMA BudgetInit == Budget!Init => BudgetInv
  BY NumbersAreNatural
     DEF Budget!Init, BudgetInv, BudgetStates, Budget!Fresh, Budget!Saturated, Budget!Smaller

\* What is spent is what was spawned for, and no more than the limit.
LEMMA BudgetPromise == BudgetInv => Budget!BudgetIsKept
  BY NumbersAreNatural DEF BudgetInv, BudgetStates, Budget!BudgetIsKept, Budget!NextTime

\* A later time allows later attempts.
LEMMA SaturatedGrows ==
    ASSUME NEW m \in Int, NEW n \in Int, m <= n
    PROVE  Budget!Saturated(m) \in Int /\ Budget!Saturated(m) <= Budget!Saturated(n)
  BY NumbersAreNatural DEF Budget!Saturated, Budget!Smaller

\* A reservation spends one attempt and waits no longer than the maximum.
LEMMA ReserveSpends ==
    ASSUME NEW state \in BudgetStates, NEW pol \in Policies, NEW t \in Nat,
           state.attempts < pol.limit
    PROVE  /\ Budget!Reserve(state, pol, t) \in BudgetStates
           /\ Budget!Reserve(state, pol, t).attempts = state.attempts + 1
           /\ Budget!Reserve(state, pol, t).next_attempt <= Budget!Saturated(t + pol.maximum_delay)
  <1> DEFINE attempts == Budget!Saturated(state.attempts + 1)
             factor == 2^Budget!Smaller(attempts, Bits - 1)
             delay == Budget!Saturated(pol.delay * factor)
             w == Budget!Smaller(delay, pol.maximum_delay)
  <1>1. attempts = state.attempts + 1 /\ state.attempts \in Nat
        /\ pol.delay \in Nat /\ pol.maximum_delay \in Nat /\ MaxU \in Nat
    BY NumbersAreNatural DEF Budget!Saturated, Budget!Smaller, BudgetStates
  <1>2. Budget!Smaller(attempts, Bits - 1) \in Nat
    BY <1>1, NumbersAreNatural DEF Budget!Smaller
  <1>3. factor \in Int
    BY <1>2, SMT
  <1>4. delay \in Int
    <2> HIDE DEF factor
    <2>1. pol.delay * factor \in Int
      BY <1>1, <1>3
    <2> QED
      BY <1>1, <2>1 DEF Budget!Saturated, Budget!Smaller
  <1>5. w \in Int /\ w <= pol.maximum_delay
    <2> HIDE DEF delay
    <2> QED
      BY <1>1, <1>4 DEF Budget!Smaller
  <1>6. Budget!Reserve(state, pol, t) =
            [attempts |-> attempts, next_attempt |-> Budget!Saturated(t + w)]
    BY DEF Budget!Reserve
  <1>7. Budget!Saturated(t + w) \in Int
        /\ Budget!Saturated(t + w) <= Budget!Saturated(t + pol.maximum_delay)
    <2> HIDE DEF w
    <2>1. t + w \in Int /\ t + pol.maximum_delay \in Int /\ t + w <= t + pol.maximum_delay
      BY <1>1, <1>5
    <2> QED
      BY <2>1, SaturatedGrows
  <1> HIDE DEF attempts, w
  <1> QED
    BY <1>1, <1>6, <1>7 DEF BudgetStates

\* Every step of the controller keeps the invariant.
LEMMA BudgetStep ==
    ASSUME BudgetInv, [Budget!Next]_budget_vars
    PROVE  BudgetInv'
  <1> DEFINE latest == Budget!Saturated(now + policy.maximum_delay)
  <1>1. policy.limit \in 0..MaxU /\ policy.maximum_delay \in Nat /\ MaxU \in Nat
    BY NumbersAreNatural, SMTT(30) DEF BudgetInv
  <1>2. CASE Budget!Decide
    <2>1. /\ memory' = Budget!Reserve(memory, policy, now) /\ phase' = "reserved"
          /\ memory.attempts < policy.limit /\ phase = "deciding"
          /\ UNCHANGED <<policy, now, persisted, spawned, exhausted>>
      BY <1>2 DEF Budget!Decide, Budget!Allowed
    <2>2. /\ memory' \in BudgetStates /\ memory'.attempts = memory.attempts + 1
          /\ memory'.next_attempt <= latest
      BY <2>1, ReserveSpends DEF BudgetInv
    <2>3. memory = persisted /\ ~exhausted
      BY <1>1, <2>1, SMTT(30) DEF BudgetInv, BudgetStates
    <2> QED
      BY <1>1, <2>1, <2>2, <2>3 DEF BudgetInv, BudgetStates
  <1>3. CASE Budget!Persist
    BY <1>1, <1>3 DEF Budget!Persist, BudgetInv, BudgetStates
  <1>4. ASSUME NEW permanent \in BOOLEAN, Budget!Spawn(permanent)
        PROVE  BudgetInv'
    <2>1. /\ phase = "persisted" /\ memory = persisted /\ phase' = "deciding"
          /\ spawned' = spawned + 1 /\ exhausted' = permanent /\ UNCHANGED <<policy, now>>
      BY <1>4 DEF Budget!Spawn, BudgetInv
    <2>2. CASE permanent
      <3>1. memory' = [memory EXCEPT !.attempts = policy.limit] /\ persisted' = memory'
        BY <1>4, <2>2 DEF Budget!Spawn, Budget!Exhaust
      <3>2. memory' \in BudgetStates /\ memory'.attempts = policy.limit
            /\ memory'.next_attempt = memory.next_attempt
        BY <1>1, <3>1, SMTT(30) DEF BudgetInv, BudgetStates
      <3> QED
        BY <1>1, <2>1, <3>1, <3>2 DEF BudgetInv, BudgetStates
    <2>3. CASE ~permanent
      BY <1>1, <1>4, <2>1, <2>3, SMTT(30) DEF Budget!Spawn, BudgetInv, BudgetStates
    <2> QED
      BY <2>2, <2>3
  <1>5. CASE Budget!Crash
    BY <1>1, <1>5, SMTT(30) DEF Budget!Crash, BudgetInv, BudgetStates
  <1>6. CASE Budget!Tick
    <2>1. now' = now + 1 /\ UNCHANGED <<policy, persisted, memory, phase, spawned, exhausted>>
      BY <1>6 DEF Budget!Tick
    <2>2. latest \in Int /\ latest <= latest' /\ latest' \in Int
      BY <1>1, <2>1, SaturatedGrows, SMTT(30) DEF BudgetInv
    <2> HIDE DEF latest
    <2> QED
      BY <2>1, <2>2 DEF BudgetInv, BudgetStates, latest
  <1>7. CASE UNCHANGED budget_vars
    BY <1>7 DEF budget_vars, BudgetInv, Budget!Saturated, Budget!Smaller
  <1> QED
    BY <1>2, <1>3, <1>4, <1>5, <1>6, <1>7 DEF Budget!Next

-----------------------------------------------------------------------------
(* An exit: ProcessExit.                                                     *)

\* An exit that is remembered, queued or called back has happened; a task that
\* waits has not been told of one; a callback that may still run has a
\* notification to use.
ExitInv ==
    /\ source = "Exited" => process # "running"
    /\ told => source = "Exited" /\ answer = "exited"
    /\ wait \in {"register", "parked"} => source = "Event"
    /\ queued \/ notified \/ callback \in {"running", "done"} => process # "running"
    /\ callback \in {"registered", "running"} => context = "alive"

\* Nothing has been told at first.
LEMMA ExitInit == Exits!Init => ExitInv
  BY DEF Exits!Init, ExitInv

\* What the invariant says of an exit and of a callback.
LEMMA ExitPromise == ExitInv => Exits!ExitsAreTrue /\ Exits!CallbackIsSafe
  BY DEF ExitInv, Exits!ExitsAreTrue, Exits!CallbackIsSafe

\* A look shows an exit only of a process that has exited.
LEMMA LooksAreTrue ==
    ASSUME ExitInv, "Exited" \in Exits!Looks
    PROVE  process # "running"
  BY DEF ExitInv, Exits!Looks, Exits!SignalState, Exits!Readable, Exits!NextExit,
     Exits!Signalled

\* Every step of the process, the handle and the system keeps the invariant.
LEMMA ExitStep ==
    ASSUME ExitInv, [Exits!Next]_exit_vars
    PROVE  ExitInv'
  <1> USE DEF Exits!World
  <1>1. CASE Exits!Exit \/ Exits!Reap \/ Exits!Reuse \/ Exits!DeadlinePasses
    BY <1>1
       DEF Exits!Exit, Exits!Reap, Exits!Reuse, Exits!DeadlinePasses, Exits!Handle, ExitInv
  <1>2. CASE Exits!Open
    BY <1>2
       DEF Exits!Open, Exits!Opens, Exits!PidfdOpens, Exits!KqueueOpens, Exits!WindowsOpens,
       ExitInv
  <1>3. CASE Exits!Call
    BY <1>3 DEF Exits!Call, ExitInv
  <1>4. CASE Exits!Wait
    BY <1>4, LooksAreTrue DEF Exits!Wait, Exits!Exited, Exits!Answer, Exits!Looks, ExitInv
  <1>5. CASE Exits!Poll
    BY <1>5, LooksAreTrue DEF Exits!Poll, Exits!Exited, Exits!Looks, ExitInv
  <1>6. CASE Exits!Register
    BY <1>6 DEF Exits!Register, ExitInv
  <1>7. CASE Exits!DescriptorReady
    BY <1>7, LooksAreTrue DEF Exits!DescriptorReady, Exits!Exited, ExitInv
  <1>8. CASE Exits!Notified
    BY <1>8, Zenon
       DEF Exits!Notified, Exits!Exited, Exits!Unregister, Exits!Unregistered, ExitInv
  <1>9. CASE Exits!CallbackStarts \/ Exits!CallbackSignals
    BY <1>9 DEF Exits!CallbackStarts, Exits!CallbackSignals, ExitInv
  <1>10. CASE Exits!Drop
    BY <1>10 DEF Exits!Drop, Exits!Unregister, Exits!Unregistered, ExitInv
  <1>11. CASE Exits!Fails
    BY <1>11 DEF Exits!Fails, Exits!Answer, ExitInv
  <1>12. CASE UNCHANGED exit_vars
    BY <1>12 DEF exit_vars, ExitInv
  <1> QED
    BY <1>1, <1>2, <1>3, <1>4, <1>5, <1>6, <1>7, <1>8, <1>9, <1>10, <1>11, <1>12, SMTT(30)
       DEF Exits!Next, Exits!Task

-----------------------------------------------------------------------------
(* A launch: Launch.                                                         *)

\* A launcher that looks a second time has seen its child exit; while it waits,
\* a moment without a daemon after that exit is remembered; a wait for an exit
\* has a deadline that is not 0.
StartInv ==
    /\ clock \in Nat /\ until \in Nat
    /\ launch = "spawn" => child = "none"
    /\ result # "none" => launch = "done"
    /\ launch = "again" => child = "exited"
    /\ launch \in {"handles", "probe", "watch", "wait", "again"} => how = "followed"
    /\ launch = "wait" => until > 0
    /\ child = "exited" /\ serving = "nobody" /\ launch # "done" => since
    /\ Start!StartupIsTrue

\* Nothing is reported at first.
LEMMA StartInit == Start!Init => StartInv
  BY DEF Start!Init, StartInv, Start!StartupIsTrue

\* Every step of the daemons and the launcher keeps the invariant.
LEMMA StartStep ==
    ASSUME StartInv, [Start!Next]_start_vars
    PROVE  StartInv'
  <1> USE DEF StartInv, Start!StartupIsTrue, Start!Others, Start!Return
  <1>1. CASE Start!Serves \/ Start!ChildExits \/ Start!OtherServes \/ Start!OtherStops
    BY <1>1, Zenon
       DEF Start!Serves, Start!ChildExits, Start!OtherServes, Start!OtherStops, Start!Launcher
  <1>2. CASE Start!Tick
    BY <1>2 DEF Start!Tick
  <1>3. CASE Start!Spawn \/ Start!SpawnAndWait
    BY <1>3 DEF Start!Spawn, Start!SpawnAndWait
  <1>4. CASE Start!Handles
    BY <1>4 DEF Start!Handles
  <1>5. CASE Start!Probe \/ Start!ProbeAgain
    BY <1>5, SMTT(30) DEF Start!Probe, Start!ProbeAgain
  <1>6. CASE Start!Watch
    BY <1>6, NumbersAreNatural, SMTT(30) DEF Start!Watch, Start!Sooner
  <1>7. CASE Start!ExitsBy \/ Start!ExitUnknown
    BY <1>7 DEF Start!ExitsBy, Start!AfterExit, Start!ExitUnknown
  <1>8. CASE Start!Poll
    BY <1>8 DEF Start!Poll
  <1>9. CASE Start!Polled
    BY <1>9, NumbersAreNatural DEF Start!Polled, Start!Sooner
  <1>10. CASE Start!Nap
    BY <1>10 DEF Start!Nap
  <1>11. CASE UNCHANGED start_vars
    BY <1>11 DEF start_vars
  <1> QED
    BY <1>1, <1>2, <1>3, <1>4, <1>5, <1>6, <1>7, <1>8, <1>9, <1>10, <1>11, Zenon
       DEF Start!Next, Start!Launching

-----------------------------------------------------------------------------
(* A warm-up: Warmup.                                                        *)

\* There is a child from the spawn on, and its limit covers the deadline and its
\* own time; a report is the last thing the thread does and is true of the child.
WarmInv ==
    /\ deadline \in Nat /\ time \in Nat /\ born \in Nat /\ limit \in Nat /\ born <= time
    /\ warm \in {"none", "running", "succeeded", "failed", "killed"}
    /\ report \in {"none", "busy", "error", "runaway", "succeeded", "failed", "killed"}
    /\ thread \in {"start", "spawn"} => warm = "none"
    /\ thread \in {"spawned", "exits"} => warm # "none"
    /\ thread = "exits" => limit >= deadline /\ limit >= born + Runaway
    /\ report # "none" => thread = "done"
    /\ report = "succeeded" => warm = "succeeded"
    /\ caller = "succeeded" => report = "succeeded"
    /\ Warm!WarmupIsTrue

\* There is no child at first.
LEMMA WarmInit == Warm!Init => WarmInv
  BY NumbersAreNatural DEF Warm!Init, WarmInv, Warm!WarmupIsTrue

\* Every step of the child, the thread and the caller keeps the invariant.
LEMMA WarmStep ==
    ASSUME WarmInv, [Warm!Next]_warmup_vars
    PROVE  WarmInv'
  <1> USE NumbersAreNatural DEF WarmInv, Warm!WarmupIsTrue, Warm!Apart, Warm!Report, Warm!Later
  <1>1. CASE Warm!WriterCloses \/ Warm!ChildEnds \/ Warm!Tick
    BY <1>1, SMTT(30) DEF Warm!WriterCloses, Warm!ChildEnds, Warm!Tick, Warm!NobodyActs
  <1>2. CASE Warm!Start
    BY <1>2, SMTT(30) DEF Warm!Start
  <1>3. CASE Warm!SpawnWhenFree \/ Warm!SpawnFails
    BY <1>3, SMTT(30) DEF Warm!SpawnWhenFree, Warm!SpawnFails
  <1>4. CASE Warm!Spawned
    BY <1>4, SMTT(30) DEF Warm!Spawned, Warm!LimitOf
  <1>5. CASE Warm!Reap
    BY <1>5, SMTT(30) DEF Warm!Reap
  <1>6. CASE Warm!Unseen \/ Warm!Killed
    BY <1>6, SMTT(30) DEF Warm!Unseen, Warm!Killed
  <1>7. CASE Warm!WarmSpawnUntil
    BY <1>7, SMTT(30) DEF Warm!WarmSpawnUntil
  <1>8. CASE UNCHANGED warmup_vars
    BY <1>8, SMTT(30) DEF warmup_vars
  <1> QED
    BY <1>1, <1>2, <1>3, <1>4, <1>5, <1>6, <1>7, <1>8, Zenon
       DEF Warm!Next, Warm!Reaping, Warm!Faults

-----------------------------------------------------------------------------
(* The whole.                                                                *)

\* A step of the whole is a step, or none, of each part.
LEMMA StepOfParts ==
    ASSUME [Next]_vars
    PROVE  /\ [Socket!Next]_socket_vars /\ [Pipe!Next]_pipe_vars /\ [Slot!Next]_slot_vars
           /\ [Upgrade!Next]_upgrade_vars /\ [Budget!Next]_budget_vars
           /\ [Exits!Next]_exit_vars /\ [Start!Next]_start_vars /\ [Warm!Next]_warmup_vars
  BY DEF Next, vars, own_vars, run_vars

\* Where inode numbers are not given again, a live owner's endpoint is never
\* unlinked, however many processes bind, reclaim, clean up and crash
\* (unix_socket::acquire, SocketGuard::drop).
THEOREM EndpointCorrect ==
    ASSUME ~ReuseInodes
    PROVE  Spec => []EndpointStays
  <1>1. Init => SocketInv
    BY SocketInit DEF Init
  <1>2. SocketInv /\ [Next]_vars => SocketInv'
    BY SocketStep, StepOfParts
  <1>3. SocketInv => EndpointStays
    BY Zenon DEF SocketInv, OwnerListens, EndpointStays, Socket!EndpointStays
  <1> QED
    BY <1>1, <1>2, <1>3, PTL DEF Spec

\* A process stands down only for another one that listens, binds or cleans up, so
\* that not all stand down; it leaves unrelated files alone, and takes a denial of
\* the pipe for an answer only when every pause is used (unix_socket::acquire,
\* windows_socket::bind).
THEOREM StandDownCorrect ==
    ASSUME ~ReuseInodes
    PROVE  Spec => StandDownIsJustified
  <1> DEFINE Inv == SocketInv /\ NobodyIsLeftOut /\ PipeInv
  <1>1. Init => Inv
    BY SocketInit, PipeInit DEF Init, NobodyIsLeftOut, Socket!Init
  <1>2. Inv /\ [Next]_vars => Inv'
    BY SocketStep, SocketPromise, PipeStep, StepOfParts
  <1>3. Inv /\ [Next]_vars => [Socket!StandDownIsJustified /\ Pipe!DenialIsWeighed]_vars
    BY SocketPromise, PipeStep, StepOfParts
  <1> HIDE DEF Inv
  <1> QED
    BY <1>1, <1>2, <1>3, PTL DEF Spec, StandDownIsJustified

\* However many publishers and readers there are and whenever they crash or the
\* power goes: records are whole, a durable one survives, a conditional operation
\* acts on what it compared, and a missing record was missing unless two renames
\* went by or a publication looked old (publish_record_with, retry_open,
\* RecordSlot).
THEOREM RecordsCorrect == Spec => []RecordsAreTrue
  <1>1. Init => SlotInv
    BY SlotInit DEF Init
  <1>2. SlotInv /\ [Next]_vars => SlotInv'
    BY SlotStep, StepOfParts
  <1>3. SlotInv => RecordsAreTrue
    BY SlotPromise DEF RecordsAreTrue
  <1> QED
    BY <1>1, <1>2, <1>3, PTL DEF Spec

\* Any number of callers share one replacement as long as nothing goes wrong, and
\* crashes restore no attempt, whatever the policy and the width of its numbers
\* (ensure_current, State::reserve).
THEOREM ReplacementCorrect == Spec => []ReplacesOnce
  <1>1. Init => UpgradeInv /\ BudgetInv
    BY UpgradeInit, BudgetInit DEF Init
  <1>2. UpgradeInv /\ BudgetInv /\ [Next]_vars => (UpgradeInv /\ BudgetInv)'
    BY UpgradeStep, BudgetStep, StepOfParts
  <1>3. UpgradeInv /\ BudgetInv => ReplacesOnce
    BY UpgradePromise, BudgetPromise DEF ReplacesOnce
  <1> QED
    BY <1>1, <1>2, <1>3, PTL DEF Spec

\* An exit is reported once it has happened and from then on by every call, and
\* no callback runs on a freed notification, on every platform
\* (ProcessHandle::wait_for, exited, Registration::drop).
THEOREM ExitsCorrect == Spec => []ExitsAreTrue
  <1>1. Init => ExitInv
    BY ExitInit DEF Init
  <1>2. ExitInv /\ [Next]_vars => ExitInv'
    BY ExitStep, StepOfParts
  <1>3. ExitInv => ExitsAreTrue
    BY ExitPromise DEF ExitsAreTrue
  <1> QED
    BY <1>1, <1>2, <1>3, PTL DEF Spec

\* Whatever the deadlines: what a launch and a warm-up report is how they went
\* (DaemonChild::wait_until_live, readiness::wait_until, warmup::reap).
THEOREM StartsCorrect == Spec => []StartsAreTrue
  <1>1. Init => StartInv /\ WarmInv
    BY StartInit, WarmInit DEF Init
  <1>2. StartInv /\ WarmInv /\ [Next]_vars => (StartInv /\ WarmInv)'
    BY StartStep, WarmStep, StepOfParts
  <1>3. StartInv /\ WarmInv => StartsAreTrue
    BY DEF StartInv, WarmInv, StartsAreTrue
  <1> QED
    BY <1>1, <1>2, <1>3, PTL DEF Spec
=============================================================================

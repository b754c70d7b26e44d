------------------------------- MODULE Token -------------------------------
(* The comparison of two process tokens on Windows (local/security.rs): one  *)
(* class of information after another is read from both, and each read can   *)
(* fail.  What a read returns is used only within its bounds.                *)
EXTENDS Integers, Sequences, FiniteSets, SequencesExt, TLC

CONSTANTS MaxLength       \* bound: bytes of a query

VARIABLES
    peer, current,     \* the two tokens
    class,             \* the class that is compared next
    attributes,        \* what the generations and attributes say
    verdict,           \* "none", "error" or a SecurityContextComparison
    query              \* a buffer a query returned, and what is read of it

tvars == <<peer, current, class, attributes, verdict, query>>

Incompatible == "Incompatible"
Equivalent == "Equivalent"
ProcessIdentityDiffers == "ProcessIdentityDiffers"

Restrictions == {"IsAppContainer", "UserClaims", "DeviceClaims", "Capabilities"}
Scalars == {"Flags", "TrustLevelSid", "Elevation", "ElevationType", "SessionId", "UIAccess",
            "HasRestrictions", "VirtualizationAllowed", "VirtualizationEnabled",
            "MandatoryPolicy"}
SidFields == {"User", "Owner", "PrimaryGroup", "IntegrityLevel"}
Lists == {"Groups", "RestrictedSids", "DeviceGroups", "Privileges"}

-----------------------------------------------------------------------------
(* What is read of a token.                                                  *)

\* A list of security attributes: its header and the one attribute it holds.
Known == [version |-> 1, count |-> 1, shape |-> TRUE, name |-> "TSA://ProcUnique", within |-> TRUE]

AttributeLists ==
    {Known, [Known EXCEPT !.count = 0], [Known EXCEPT !.count = 2],
     [Known EXCEPT !.version = 2], [Known EXCEPT !.shape = FALSE],
     [Known EXCEPT !.name = "another"], [Known EXCEPT !.within = FALSE]}

Ordinary ==
    [f \in Restrictions \cup Scalars \cup SidFields |-> 0]
        @@ [f \in Lists |-> <<1, 2>>]
        @@ [AuthenticationId |-> 1, ModifiedId |-> 1, SecurityAttributes |-> {Known},
            TokenType |-> "Primary", DefaultDacl |-> {1}]

\* The values a field can have.
Reported(f) ==
    {Ordinary[f]} \cup
    CASE f \in Restrictions \cup Scalars \cup SidFields -> {1}
      [] f \in Lists -> {<<2, 1>>, <<1>>}
      [] f \in {"AuthenticationId", "ModifiedId"} -> {2}
      [] f = "TokenType" -> {"Impersonation"}
      [] f = "DefaultDacl" -> {{}, {2}}
      [] f = "SecurityAttributes" -> {{}} \cup {{a} : a \in AttributeLists \ {Known}}

NoQuery == [length |-> 0, offset |-> 0, count |-> 0, size |-> 1]

Begin == class = "Restrictions" /\ attributes = "none" /\ verdict = "none" /\ query = NoQuery

\* One of them is ordinary, or both are alike; they differ in up to two fields.
Init ==
    /\ \E f, g \in DOMAIN Ordinary : \E v \in Reported(f), w \in Reported(g) :
         LET token == [[Ordinary EXCEPT ![f] = v] EXCEPT ![g] = w] IN
            \/ peer = token /\ current = Ordinary
            \/ peer = Ordinary /\ current = token
            \/ peer = token /\ current = token
    /\ Begin

\* Two ordinary tokens, nothing compared.
Rest == peer = Ordinary /\ current = Ordinary /\ Begin

-----------------------------------------------------------------------------
(* Information: what a query may be asked for.                               *)

WORD == 8

\* Information::read: sized, read, and not grown past its buffer.
Readable(length, again) ==
    /\ length # 0 /\ length <= 2 ^ 20
    /\ again <= WORD * ((length + WORD - 1) \div WORD)

\* Fault: the offset is not taken off.
ArrayWithinAnyOffset(q) ==
    q.count = 0 \/ (q.count <= q.length \div q.size /\ q.offset <= q.length)

\* Information::array: an array of records at an offset.
ArrayWithin(q) ==
    \/ q.count = 0
    \/ /\ q.count <= (IF q.offset <= q.length THEN q.length - q.offset ELSE 0) \div q.size
       /\ q.offset <= q.length

\* Information::pointed_bytes: bytes at a pointer, before the buffer or in it.
PointedWithin(q) ==
    /\ q.offset >= 0
    /\ q.offset <= q.length /\ q.count * q.size <= q.length - q.offset

\* Information::sid: its header, then as much as that says.
SidWithin(q) == PointedWithin([q EXCEPT !.count = 1]) /\ PointedWithin(q)

\* value: one record at the start.
ValueWithin(q) == q.length >= q.size

\* offset, region: bytes at a pointer into a list of attributes.
RegionWithin(q) == q.offset >= 0 /\ q.offset <= q.length /\ q.count <= q.length - q.offset

\* A query of the classes that hold arrays and pointers.
Query(q) ==
    /\ class = "Restrictions" /\ query = NoQuery /\ peer = Ordinary /\ current = Ordinary
    /\ query' = q
    /\ UNCHANGED <<peer, current, class, attributes, verdict>>

-----------------------------------------------------------------------------
(* The comparison, class by class.                                           *)

Decide(v) == verdict' = v /\ UNCHANGED <<class, attributes>>

Continue(next) == class' = next /\ UNCHANGED <<attributes, verdict>>

Step(at) ==
    /\ class = at /\ verdict = "none" /\ query = NoQuery
    /\ UNCHANGED <<peer, current, query>>

\* A token cannot be opened, or a class cannot be read.
Fails == Step(class) /\ Decide("error")

\* No container, claim or capability of either is compared.
CompareRestrictions ==
    /\ Step("Restrictions")
    /\ IF \E t \in {peer, current}, f \in Restrictions : t[f] # 0 THEN Decide(Incompatible)
       ELSE Continue("Statistics")

\* The logon sessions.
CompareStatistics ==
    /\ Step("Statistics")
    /\ IF peer.AuthenticationId # current.AuthenticationId THEN Decide(Incompatible)
       ELSE Continue("Attributes")

\* ordinary_attributes, of a list: "error" where it points outside.
OrdinaryAttributes(list) ==
    CASE list.version # 1 -> "none"
      [] list.count = 0 -> "Empty"
      [] list.count > 1 \/ ~list.shape -> "none"
      [] ~list.within -> "error"
      [] list.name # "TSA://ProcUnique" -> "none"
      [] OTHER -> "ProcessUnique"

\* Without a list the query returns an empty one.
ListOf(t) == IF t.SecurityAttributes = {} THEN [Known EXCEPT !.count = 0]
             ELSE CHOOSE a \in t.SecurityAttributes : TRUE

\* matching_ordinary_attributes
Matching ==
    LET client == OrdinaryAttributes(ListOf(peer))
        daemon == OrdinaryAttributes(ListOf(current))
    IN  CASE client = "none" -> "no" [] "error" \in {client, daemon} -> "error"
          [] client = daemon -> "yes" [] OTHER -> "no"

\* Fault: the attributes are ordinary on both sides, though not the same.
GenerationsUnmatched(same_generation, opaque) ==
    IF same_generation \/ ~opaque THEN Equivalent ELSE ProcessIdentityDiffers

\* compare_token_generations
Generations(same_generation, opaque) ==
    CASE same_generation \/ ~opaque -> Equivalent
      [] Matching = "yes" -> ProcessIdentityDiffers
      [] Matching = "no" -> Incompatible
      [] OTHER -> "error"

CompareAttributes ==
    /\ Step("Attributes")
    /\ LET found == Generations(peer.ModifiedId = current.ModifiedId,
                                peer.SecurityAttributes # {} \/ current.SecurityAttributes # {})
       IN  IF found \in {Incompatible, "error"} THEN Decide(found)
           ELSE attributes' = found /\ class' = "Scalars" /\ UNCHANGED verdict

\* Both primary, and the fields that are compared byte by byte.
CompareScalars ==
    /\ Step("Scalars")
    /\ IF \/ peer.TokenType # "Primary" \/ current.TokenType # "Primary"
          \/ \E f \in Scalars : peer[f] # current[f]
       THEN Decide(Incompatible) ELSE Continue("Sids")

CompareSids ==
    /\ Step("Sids")
    /\ IF \E f \in SidFields : peer[f] # current[f] THEN Decide(Incompatible) ELSE Continue("Lists")

Privileges(token) == SortSeq(token.Privileges, <)

\* Fault: in the order they were reported.
GroupsAsReported(token, f) == token[f]

\* groups: in one order, whatever order they were reported in.
Groups(token, f) == SortSeq(token[f], <)

\* Groups, restricted and device groups, and privileges.
CompareLists ==
    /\ Step("Lists")
    /\ IF \/ \E f \in Lists \ {"Privileges"} : Groups(peer, f) # Groups(current, f)
          \/ Privileges(peer) # Privileges(current)
       THEN Decide(Incompatible) ELSE Continue("Dacl")

\* default_dacl: a token may have none.
DefaultDacl(token) == token.DefaultDacl

CompareDacl ==
    /\ Step("Dacl")
    /\ Decide(IF DefaultDacl(peer) = DefaultDacl(current) THEN attributes ELSE Incompatible)

Queries == [length : 1..MaxLength, offset : -1..MaxLength + 1, count : 0..2, size : {2, 3}]

Next ==
    \/ CompareRestrictions \/ CompareStatistics \/ CompareAttributes \/ CompareScalars
    \/ CompareSids \/ CompareLists \/ CompareDacl \/ Fails
    \/ \E q \in Queries : Query(q)

-----------------------------------------------------------------------------

SameLists(f) ==
    \A x \in {1, 2} : Len(SelectSeq(peer[f], LAMBDA y : y = x)) = Len(SelectSeq(current[f], LAMBDA y : y = x))

\* A verdict depends on what the tokens hold and not on the order in which it
\* is reported or compared, is the same whichever token is the peer, and calls
\* two tokens compatible only if nothing that is compared differs
\* (compare_tokens, compare_token_generations, matching_ordinary_attributes).
ComparesExactly ==
    LET differs == \E f \in Scalars \cup SidFields \cup {"AuthenticationId", "DefaultDacl"} :
                       peer[f] # current[f]
        restricted == \E t \in {peer, current} :
                          t.TokenType # "Primary" \/ \E f \in Restrictions : t[f] # 0
        settled == \/ peer.ModifiedId = current.ModifiedId
                   \/ peer.SecurityAttributes = {} /\ current.SecurityAttributes = {}
        kinds == {OrdinaryAttributes(ListOf(t)) : t \in {peer, current}}
    IN  verdict \notin {"none", "error"} =>
          verdict = CASE \/ differs \/ restricted
                         \/ \E f \in Lists : ~SameLists(f) -> Incompatible
                      [] settled -> Equivalent
                      [] kinds \in {{"Empty"}, {"ProcessUnique"}} -> ProcessIdentityDiffers
                      [] OTHER -> Incompatible

\* Nothing is read outside a buffer, and nothing inside it is refused
\* (Information::array, pointed_bytes, value, region).
ReadsWithin ==
    LET q == query
        inside == q.offset >= 0 /\ q.offset + q.count * q.size <= q.length
    IN  q # NoQuery =>
          /\ q.offset >= 0 => (ArrayWithin(q) <=> q.count = 0 \/ inside)
          /\ PointedWithin(q) <=> inside
          /\ q.count > 0 => (SidWithin(q) <=> inside)
          /\ RegionWithin(q) <=> q.offset >= 0 /\ q.offset + q.count <= q.length
          /\ ValueWithin(q) <=> q.size <= q.length
          /\ Readable(q.length, q.length) /\ ~Readable(q.length, q.length + WORD)
=============================================================================

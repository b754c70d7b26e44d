------------------------------- MODULE Codec -------------------------------
(* The encoding of the four lifecycle messages (wire/generated.rs): each has *)
(* a size computed before it is written, a writer and a merger that takes    *)
(* one field at a time.  A peer of another version knows fewer or more       *)
(* fields; those it does not know it keeps and writes again.                 *)
EXTENDS Integers, Sequences, FiniteSets, FiniteSetsExt, SequencesExt, TLC

CONSTANTS
    Older,     \* the numbers up to which an older peer may know fields
    MaxSet     \* bound: fields of a message with a value of their own

VARIABLES
    type,      \* the message
    fields,    \* its fields
    newer,     \* fields of a newer sender than this, as they are on the wire
    knows,     \* the fields the peer that reads it knows, by number
    wire,      \* what is still to be read
    size,      \* what compute_size said of it
    length,    \* what was written of it
    reader,    \* the reader's fields
    unknown,   \* the reader's unknown fields
    turn       \* "new", "relay", "read", "done" or "error"

kvars == <<type, fields, newer, knows, wire, size, length, reader, unknown, turn>>

Varint == "Varint"
Delimited == "LengthDelimited"

-----------------------------------------------------------------------------
(* The enumerations: the number of each variant, and the variant that        *)
(* from_i32 gives for a number.                                              *)

MessageKind == [LIFECYCLE |-> 0, APPLICATION |-> 1]

MessageKindFrom == (0 :> "LIFECYCLE" @@ 1 :> "APPLICATION")

LifecycleChange ==
    [SNAPSHOT |-> 0, READY |-> 1, DRAINING |-> 2, SELECTION_CHANGED |-> 3, RETIRING |-> 4]

LifecycleChangeFrom ==
    (0 :> "SNAPSHOT" @@ 1 :> "READY" @@ 2 :> "DRAINING" @@ 3 :> "SELECTION_CHANGED"
     @@ 4 :> "RETIRING")

Refusal == [NOT_REFUSED |-> 0, PROTOCOL_TOO_OLD |-> 1, PEER_REJECTED |-> 2, SERVER_RETIRING |-> 3]

RefusalFrom ==
    (0 :> "NOT_REFUSED" @@ 1 :> "PROTOCOL_TOO_OLD" @@ 2 :> "PEER_REJECTED"
     @@ 3 :> "SERVER_RETIRING")

-----------------------------------------------------------------------------
(* Hello.                                                                   *)

\* The struct.
Hello ==
    [minimum |-> "uint", maximum |-> "uint", supported |-> "uint",
     required |-> "uint", max_frame |-> "uint", application |-> "text",
     profile |-> "text", instance |-> "text", service_id |-> "text",
     reads_refusal |-> "flag", refusal |-> "Refusal"]

\* compute_size: the fields it counts.
HelloSizes ==
    {"minimum", "maximum", "supported", "required", "max_frame",
     "application", "profile", "instance", "service_id", "reads_refusal",
     "refusal"}

\* write_to: the fields by number, in order.
HelloWrites ==
    <<"minimum", "maximum", "supported", "required", "max_frame",
      "application", "profile", "instance", "service_id", "reads_refusal",
      "refusal">>

\* merge_field: the field of a number, and its wire type.
HelloMerges ==
    <<<<"minimum", Varint>>, <<"maximum", Varint>>, <<"supported", Varint>>,
      <<"required", Varint>>, <<"max_frame", Varint>>,
      <<"application", Delimited>>, <<"profile", Delimited>>,
      <<"instance", Delimited>>, <<"service_id", Delimited>>,
      <<"reads_refusal", Varint>>, <<"refusal", Varint>>>>

\* clear
HelloClears ==
    {"minimum", "maximum", "supported", "required", "max_frame",
     "application", "profile", "instance", "service_id", "reads_refusal",
     "refusal"}

-----------------------------------------------------------------------------
(* Control.                                                                 *)

\* The struct.
Control ==
    [operation |-> "uint", request_id |-> "uint", generation |-> "uint",
     token |-> "text", offset |-> "option", payload |-> "text",
     kind |-> "MessageKind"]

\* compute_size: the fields it counts.
ControlSizes ==
    {"operation", "request_id", "generation", "token", "offset", "payload",
     "kind"}

\* write_to: the fields by number, in order.
ControlWrites ==
    <<"operation", "request_id", "generation", "token", "offset", "payload",
      "kind">>

\* merge_field: the field of a number, and its wire type.
ControlMerges ==
    <<<<"operation", Varint>>, <<"request_id", Varint>>,
      <<"generation", Varint>>, <<"token", Delimited>>, <<"offset", Varint>>,
      <<"payload", Delimited>>, <<"kind", Varint>>>>

\* Fault: the offset is left as it was.
ClearsNoOffset == {"operation", "request_id", "generation", "token", "payload", "kind"}

\* clear
ControlClears ==
    {"operation", "request_id", "generation", "token", "offset", "payload",
     "kind"}

-----------------------------------------------------------------------------
(* Health.                                                                  *)

\* The struct.
Health ==
    [process_id |-> "uint", generation |-> "uint", build |-> "text",
     revision |-> "uint", ready |-> "flag", draining |-> "flag",
     active |-> "uint"]

\* compute_size: the fields it counts.
HealthSizes ==
    {"process_id", "generation", "build", "revision", "ready", "draining",
     "active"}

\* write_to: the fields by number, in order.
HealthWrites ==
    <<"process_id", "generation", "build", "revision", "ready", "draining",
      "active">>

\* merge_field: the field of a number, and its wire type.
HealthMerges ==
    <<<<"process_id", Varint>>, <<"generation", Varint>>,
      <<"build", Delimited>>, <<"revision", Varint>>, <<"ready", Varint>>,
      <<"draining", Varint>>, <<"active", Varint>>>>

\* clear
HealthClears ==
    {"process_id", "generation", "build", "revision", "ready", "draining",
     "active"}

-----------------------------------------------------------------------------
(* LifecycleEvent.                                                          *)

\* The struct.
LifecycleEvent ==
    [change |-> "LifecycleChange", sequence |-> "uint", process_id |-> "uint",
     generation |-> "uint", build |-> "text", ready |-> "flag",
     draining |-> "flag", selected_generation |-> "option",
     selected_build |-> "text", retiring |-> "flag"]

\* compute_size: the fields it counts.
LifecycleEventSizes ==
    {"change", "sequence", "process_id", "generation", "build", "ready",
     "draining", "selected_generation", "selected_build", "retiring"}

\* write_to: the fields by number, in order.
LifecycleEventWrites ==
    <<"change", "sequence", "process_id", "generation", "build", "ready",
      "draining", "selected_generation", "selected_build", "retiring">>

\* merge_field: the field of a number, and its wire type.
LifecycleEventMerges ==
    <<<<"change", Varint>>, <<"sequence", Varint>>, <<"process_id", Varint>>,
      <<"generation", Varint>>, <<"build", Delimited>>, <<"ready", Varint>>,
      <<"draining", Varint>>, <<"selected_generation", Varint>>,
      <<"selected_build", Delimited>>, <<"retiring", Varint>>>>

\* clear
LifecycleEventClears ==
    {"change", "sequence", "process_id", "generation", "build", "ready",
     "draining", "selected_generation", "selected_build", "retiring"}

-----------------------------------------------------------------------------
(* All four.                                                                 *)

Types == {"Hello", "Control", "Health", "LifecycleEvent"}

Struct(t) ==
    CASE t = "Hello" -> Hello [] t = "Control" -> Control
      [] t = "Health" -> Health [] OTHER -> LifecycleEvent

Sizes(t) ==
    CASE t = "Hello" -> HelloSizes [] t = "Control" -> ControlSizes
      [] t = "Health" -> HealthSizes [] OTHER -> LifecycleEventSizes

Writes(t) ==
    CASE t = "Hello" -> HelloWrites [] t = "Control" -> ControlWrites
      [] t = "Health" -> HealthWrites [] OTHER -> LifecycleEventWrites

Merges(t) ==
    CASE t = "Hello" -> HelloMerges [] t = "Control" -> ControlMerges
      [] t = "Health" -> HealthMerges [] OTHER -> LifecycleEventMerges

Clears(t) ==
    CASE t = "Hello" -> HelloClears [] t = "Control" -> ControlClears
      [] t = "Health" -> HealthClears [] OTHER -> LifecycleEventClears

Enums == {"MessageKind", "LifecycleChange", "Refusal"}

Variants(kind) ==
    CASE kind = "MessageKind" -> MessageKind [] kind = "Refusal" -> Refusal
      [] OTHER -> LifecycleChange

From(kind) ==
    CASE kind = "MessageKind" -> MessageKindFrom [] kind = "Refusal" -> RefusalFrom
      [] OTHER -> LifecycleChangeFrom

\* EnumValue::from: a number without a variant is kept as a number.
EnumValue(kind, n) ==
    [number |-> n, variant |-> IF n \in DOMAIN From(kind) THEN From(kind)[n] ELSE "unknown"]

\* The number a field has on the wire.
Number(kind, v) == IF kind \in Enums THEN v.number ELSE v

\* The value of a field for a number that was read.
Value(kind, n) == IF kind \in Enums THEN EnumValue(kind, n) ELSE n

\* Fault: zero is not sent for an optional field either.
PresentByValue(kind, v) == Number(kind, v) \notin {0, -1}

\* A field is written unless it has its default; an optional one has none, and
\* is written if it is set.
Present(kind, v) == IF kind = "option" THEN v # -1 ELSE Number(kind, v) # 0

Default(kind) == Value(kind, IF kind = "option" THEN -1 ELSE 0)

\* The values that differ for the encoding: a default, a short and a long one;
\* for text its length, for an enum each variant and a number of no variant.
Values(kind) ==
    CASE kind = "flag" -> {0, 1} [] kind = "option" -> {-1, 0, 200}
      [] kind \in Enums ->
            {[number |-> Variants(kind)[v], variant |-> v] : v \in DOMAIN Variants(kind)}
                \cup {[number |-> 9, variant |-> "unknown"]}
      [] OTHER -> {0, 200}

\* The bytes of a value and of a tag.
Bytes(kind, v) ==
    LET varint == IF v < 128 THEN 1 ELSE 2
    IN  IF kind = "text" THEN varint + v ELSE varint

TagBytes(number) == IF number <= 15 THEN 1 ELSE 2

WireType(kind) == IF kind = "text" THEN Delimited ELSE Varint

Item(number, kind, v) ==
    [number |-> number, wire |-> WireType(kind), value |-> v,
     bytes |-> TagBytes(number) + Bytes(kind, v)]

Total(items) == FoldLeft(LAMBDA n, item : n + item.bytes, 0, items)

\* compute_size counts one byte for each tag.
ComputeSize(t, m, rest) ==
    LET counted == {f \in Sizes(t) \cap DOMAIN m : Present(Struct(t)[f], m[f])}
        bytes(f) == 1 + Bytes(Struct(t)[f], Number(Struct(t)[f], m[f]))
    IN  MapThenSumSet(bytes, counted) + Total(rest)

\* write_to: the known fields that are present, then the unknown ones.
WriteTo(t, m, rest) ==
    LET name(n) == Writes(t)[n]
        kind(n) == Struct(t)[name(n)]
        written == {n \in DOMAIN Writes(t) :
                        name(n) \in DOMAIN m /\ Present(kind(n), m[name(n)])}
        order == SetToSortSeq(written, <)
        item(n) == Item(n, kind(n), Number(kind(n), m[name(n)]))
    IN  [i \in DOMAIN order |-> item(order[i])] \o rest

\* A message that held another one, in the version that knows the first n fields.
Used(t, n) ==
    [f \in {Writes(t)[i] : i \in 1..n} |->
        CHOOSE v \in Values(Struct(t)[f]) : v # Default(Struct(t)[f])]

\* It is cleared for the next one.
Clear(t, m) == [f \in DOMAIN m |-> IF f \in Clears(t) THEN Default(Struct(t)[f]) ELSE m[f]]

Init ==
    /\ type = "Hello" /\ fields = <<>> /\ newer = <<>> /\ knows = 0 /\ wire = <<>>
    /\ size = 0 /\ length = 0 /\ reader = <<>> /\ unknown = <<>> /\ turn = "new"

-----------------------------------------------------------------------------

Put(t, m, rest) ==
    /\ wire' = WriteTo(t, m, rest)
    /\ size' = ComputeSize(t, m, rest) /\ length' = Total(wire')

\* A peer sends a message, which an older peer may pass on.
Send ==
    /\ turn = "new"
    /\ \E t \in Types : \E own \in UNION {kSubset(k, DOMAIN Struct(t)) : k \in 0..MaxSet} :
        LET kind(f) == Struct(t)[f]
            choices == UNION {{f} \X (Values(kind(f)) \ {Default(kind(f))}) : f \in own}
        IN
        \E set \in kSubset(Cardinality(own), choices) :
            /\ {c[1] : c \in set} = own
            /\ type' = t
            /\ fields' = [f \in DOMAIN Struct(t) |->
                           IF f \in own THEN (CHOOSE c \in set : c[1] = f)[2] ELSE Default(kind(f))]
            /\ newer' \in {<<>>, <<Item(16, "text", 3)>>}
            /\ knows' \in {Len(Writes(t))} \cup {n \in Older : n < Len(Writes(t))}
            /\ turn' = (IF knows' = Len(Writes(t)) THEN "read" ELSE "relay")
            /\ Put(t, fields', newer')
            /\ reader' = Clear(t, Used(t, knows')) /\ unknown' = <<>>

\* merge_field, of the next field on the wire.
MergeField ==
    /\ turn \in {"relay", "read"} /\ wire # <<>>
    /\ LET item == Head(wire) IN
       IF item.number <= knows
       THEN LET field == Merges(type)[item.number] IN
            /\ turn' = (IF field[2] = item.wire THEN turn ELSE "error")
            /\ reader' = [reader EXCEPT ![field[1]] = Value(Struct(type)[field[1]], item.value)]
            /\ UNCHANGED unknown
       ELSE unknown' = Append(unknown, item) /\ UNCHANGED <<reader, turn>>
    /\ wire' = Tail(wire)
    /\ UNCHANGED <<type, fields, newer, knows, size, length>>

\* The older peer writes what it has read, for one of the sender's version.
Relay ==
    /\ turn = "relay" /\ wire = <<>>
    /\ Put(type, reader, unknown)
    /\ knows' = Len(Writes(type)) /\ reader' = Clear(type, Used(type, knows')) /\ unknown' = <<>>
    /\ turn' = "read"
    /\ UNCHANGED <<type, fields, newer>>

Done ==
    /\ turn = "read" /\ wire = <<>> /\ turn' = "done"
    /\ UNCHANGED <<type, fields, newer, knows, wire, size, length, reader, unknown>>

Next == Send \/ MergeField \/ Relay \/ Done

-----------------------------------------------------------------------------

\* A message arrives as it was sent, an optional zero and fields from another
\* version included, and also through a peer that does not know its fields and
\* into a message that held another; and what is written of it is as long as was
\* computed (compute_size, write_to, merge_field and clear of the four messages).
MessagesSurvive ==
    /\ size = length /\ turn # "error"
    /\ turn = "done" => reader = fields /\ unknown = newer
=============================================================================

--------------------------- MODULE Serialization ---------------------------
(***************************************************************************)
(* The binary codec of src/include/serialization.h.  A schema stands for  *)
(* the static type being serialized:                                      *)
(*   [kind |-> "trivial", size |-> n]   a trivial type of n bytes (bool,  *)
(*                                      integers), written by memcpy      *)
(*   [kind |-> "string"]                std::string / std::string_view    *)
(*   [kind |-> "view", size |-> n]      a container of trivial n-byte     *)
(*                                      elements (std::vector<int>...),   *)
(*                                      read as basic_string_view<Type>   *)
(*   [kind |-> "optional", of |-> s]    std::optional                     *)
(*   [kind |-> "pair", first |-> s, second |-> t]  std::pair / tuple      *)
(*   [kind |-> "vector", of |-> s]      a container of non-trivial s      *)
(*   [kind |-> "map", key |-> s, value |-> t]  std::map, HashMap, ...     *)
(*   [kind |-> "fields", of |-> <<s1, ...>>]  a std::tuple, or a struct    *)
(*                                      whose serialize member calls       *)
(*                                      x(field1, field2, ...)             *)
(*   [kind |-> "variant", alts |-> <<s1, ...>>]  std::variant; a value is *)
(*                                      <<index, alternative's value>>     *)
(* Bytes are 0 .. Base - 1 and size_t is SizeBytes of them, little-endian *)
(* (the layout of the host, which the header says is not portable); a     *)
(* size_t computation wraps modulo Base^SizeBytes.  A decode returns      *)
(* [status, value, rest]: "ok", "error" (DataFormatError thrown), or      *)
(* "overread" (a read past the end of the buffer).                        *)
(***************************************************************************)
EXTENDS Naturals, Sequences, SequencesExt, FiniteSets

CONSTANTS
    Base,       \* the number of distinct byte values
    SizeBytes   \* sizeof(size_t)

Bytes == 0 .. Base - 1

SizeLimit == Base ^ SizeBytes   \* size_t arithmetic is modulo this

\* Fault variant: the bytes are not reduced to one byte each.
ToBytes_unmasked(x, n) == [i \in 1 .. n |-> x \div Base ^ (i - 1)]

\* The n bytes of x as memcpy lays them out (little-endian).
ToBytes(x, n) == [i \in 1 .. n |-> (x \div Base ^ (i - 1)) % Base]

FromBytes(b) == FoldLeft(LAMBDA acc, i : acc + b[i] * Base ^ (i - 1), 0, [i \in DOMAIN b |-> i])

\* A map value is a set of key/value pairs with distinct keys; it is
\* written in its iteration order, which this fixes arbitrarily.
Entries(m) == SetToSeq(m)

-----------------------------------------------------------------------------
(* Writing: SerializeContext<WriteOperation> and DataWriter::write.       *)

RECURSIVE Encode(_, _), EncodeAll(_, _)

EncodeAll(s, vs) == FoldLeft(LAMBDA acc, x : acc \o Encode(s, x), <<>>, vs)

Encode(s, v) ==
    CASE s.kind = "trivial"  -> ToBytes(v, s.size)
      [] s.kind = "string"   -> ToBytes(Len(v), SizeBytes) \o v
      [] s.kind = "view"     -> ToBytes(Len(v), SizeBytes)
                                \o FoldLeft(LAMBDA acc, x : acc \o ToBytes(x, s.size), <<>>, v)
      [] s.kind = "optional" -> IF v = <<>> THEN ToBytes(0, 1)
                                ELSE ToBytes(1, 1) \o Encode(s.of, v[1])
      [] s.kind = "pair"     -> Encode(s.first, v[1]) \o Encode(s.second, v[2])
      [] s.kind = "vector"   -> ToBytes(Len(v), SizeBytes) \o EncodeAll(s.of, v)
      [] s.kind = "map"      -> ToBytes(Cardinality(v), SizeBytes)
                                \o EncodeAll([kind |-> "pair", first |-> s.key,
                                              second |-> s.value], Entries(v))
      [] s.kind = "fields"   -> FoldLeft(LAMBDA acc, i : acc \o Encode(s.of[i], v[i]), <<>>,
                                         [i \in DOMAIN s.of |-> i])
      [] s.kind = "variant"  -> ToBytes(v[1], SizeBytes) \o Encode(s.alts[v[1] + 1], v[2])

\* The first pass, SerializeContext<SizeOperation>: the same walk as the
\* write pass, with DataWriter::write advancing by each length without
\* copying, so the size is the length the write pass produces.
SizeOf(s, v) == Len(Encode(s, v))

-----------------------------------------------------------------------------
(* Reading: DataReader and DeserializeContext.                            *)

Ok(v, r) == [status |-> "ok", value |-> v, rest |-> r]

Stop(status) == [status |-> status, value |-> <<>>, rest |-> <<>>]

Fail == Stop("error")   \* end_of_data(): throw DataFormatError

Drop(b, n) == SubSeq(b, n + 1, Len(b))

\* DataReader::read(Type &) for a trivial Type of n bytes.
ReadTrivial(n, b) ==
    IF Len(b) < n THEN Fail ELSE Ok(FromBytes(SubSeq(b, 1, n)), Drop(b, n))

\* Fault variant: read_string trusts the length it read.
read_string_unchecked(b) ==
    LET l == ReadTrivial(SizeBytes, b) IN
    IF l.status # "ok" THEN l
    ELSE IF Len(l.rest) < l.value THEN Stop("overread")
    ELSE Ok(SubSeq(l.rest, 1, l.value), Drop(l.rest, l.value))

\* read_string(): a size_t length, then that many bytes.
read_string(b) ==
    LET l == ReadTrivial(SizeBytes, b) IN
    IF l.status # "ok" THEN l
    ELSE IF Len(l.rest) < l.value THEN Fail
    ELSE Ok(SubSeq(l.rest, 1, l.value), Drop(l.rest, l.value))

\* read_string_view<Type>() with sizeof(Type) = n: the bounds check and
\* advance use sizeof(Type) * length computed in size_t, which wraps; the
\* view still has length elements, and the memcpy of serialize_container
\* reads all of them.
read_string_view(n, b) ==
    LET l     == ReadTrivial(SizeBytes, b)
        bytes == (n * l.value) % SizeLimit
    IN IF l.status # "ok" THEN l
       ELSE IF Len(l.rest) < bytes THEN Fail
       ELSE IF n * l.value > Len(l.rest) THEN Stop("overread")
       ELSE Ok([i \in 1 .. l.value |-> FromBytes(SubSeq(l.rest, (i - 1) * n + 1, i * n))],
               Drop(l.rest, bytes))

RECURSIVE Decode(_, _), DecodeN(_, _, _, _), DecodeMap(_, _, _, _),
          DecodeFields(_, _, _, _), DefaultOf(_)

\* serialize_container's loop: count elements, each by context(container[i]).
\* container.resize(count) before the loop allocates count elements of a
\* count read from the input; with a 2-byte size_t every such count is
\* small, so the allocation always succeeds here and is left out (a real
\* 8-byte count can throw length_error or bad_alloc instead).
DecodeN(s, count, b, acc) ==
    IF count = 0 THEN Ok(acc, b)
    ELSE LET x == Decode(s, b) IN
         IF x.status # "ok" THEN x ELSE DecodeN(s, count - 1, x.rest, Append(acc, x.value))

\* Fault variant: each entry's value is read before its key.
DecodeMap_value_first(s, count, b, m) ==
    IF count = 0 THEN Ok(m, b)
    ELSE LET v == Decode(s.value, b)
             k == Decode(s.key, v.rest)
         IN IF v.status # "ok" THEN v
            ELSE IF k.status # "ok" THEN k
            ELSE DecodeMap(s, count - 1, k.rest,
                           IF \E e \in m : e[1] = k.value THEN m ELSE m \cup {<<k.value, v.value>>})

\* serialize_map's loop: read a key, read a value, map.emplace (which
\* keeps the entry already there for a repeated key).
DecodeMap(s, count, b, m) ==
    IF count = 0 THEN Ok(m, b)
    ELSE LET k == Decode(s.key, b)
             v == Decode(s.value, k.rest)
         IN IF k.status # "ok" THEN k
            ELSE IF v.status # "ok" THEN v
            ELSE DecodeMap(s, count - 1, v.rest,
                           IF \E e \in m : e[1] = k.value THEN m ELSE m \cup {<<k.value, v.value>>})

\* The optional's flag is read<bool>() by memcpy: a byte other than 0 or 1
\* is not a valid bool.
DecodeOptional(s, b) ==
    LET f == ReadTrivial(1, b)
        x == Decode(s.of, f.rest)
    IN IF f.status # "ok" THEN f
       ELSE IF f.value = 0 THEN Ok(<<>>, f.rest)
       ELSE IF f.value # 1 THEN Stop("invalid_bool")
       ELSE IF x.status # "ok" THEN x
       ELSE Ok(<<x.value>>, x.rest)

DecodePair(s, b) ==
    LET x == Decode(s.first, b)
        y == Decode(s.second, x.rest)
    IN IF x.status # "ok" THEN x
       ELSE IF y.status # "ok" THEN y
       ELSE Ok(<<x.value, y.value>>, y.rest)

\* std::apply over a tuple, or a serialize member calling x(a, b, ...):
\* the fields from the i-th on, each by context(field), left to right.
DecodeFields(s, i, b, acc) ==
    IF i > Len(s.of) THEN Ok(acc, b)
    ELSE LET x == Decode(s.of[i], b) IN
         IF x.status # "ok" THEN x ELSE DecodeFields(s, i + 1, x.rest, Append(acc, x.value))

\* The object the caller hands to deserialize_buffer, default-constructed
\* as in the example (TestData restored;): a variant holds its first
\* alternative, value-initialized.
DefaultOf(s) ==
    CASE s.kind = "trivial"  -> 0
      [] s.kind = "map"      -> {}
      [] s.kind = "pair"     -> <<DefaultOf(s.first), DefaultOf(s.second)>>
      [] s.kind = "fields"   -> [i \in DOMAIN s.of |-> DefaultOf(s.of[i])]
      [] s.kind = "variant"  -> <<0, DefaultOf(s.alts[1])>>
      [] OTHER               -> <<>>

\* serialize(Context &, std::variant &): read<size_t>() the index, then
\* deserialize_variant_helper compares it with every alternative's index
\* and emplaces and reads the one that matches.  An index that matches
\* none leaves the variant as it was, and nothing is thrown.
DecodeVariant(s, b) ==
    LET i == ReadTrivial(SizeBytes, b)
        x == Decode(s.alts[i.value + 1], i.rest)
    IN IF i.status # "ok" THEN i
       ELSE IF i.value >= Len(s.alts) THEN Ok(DefaultOf(s), i.rest)
       ELSE IF x.status # "ok" THEN x
       ELSE Ok(<<i.value, x.value>>, x.rest)

Decode(s, b) ==
    LET count == ReadTrivial(SizeBytes, b) IN
    CASE s.kind = "trivial"  -> ReadTrivial(s.size, b)
      [] s.kind = "string"   -> read_string(b)
      [] s.kind = "view"     -> read_string_view(s.size, b)
      [] s.kind = "optional" -> DecodeOptional(s, b)
      [] s.kind = "pair"     -> DecodePair(s, b)
      [] s.kind = "vector"   -> IF count.status # "ok" THEN count
                                ELSE DecodeN(s.of, count.value, count.rest, <<>>)
      [] s.kind = "map"      -> IF count.status # "ok" THEN count
                                ELSE DecodeMap(s, count.value, count.rest, {})
      [] s.kind = "fields"   -> DecodeFields(s, 1, b, <<>>)
      [] s.kind = "variant"  -> DecodeVariant(s, b)

-----------------------------------------------------------------------------
(* The entry points and a round trip through them.                        *)

\* The write pass over n output bytes of which the first len(Encode)
\* are written: fill gives the bytes it leaves alone.
WritePass(s, v, n, fill) ==
    LET bytes == Encode(s, v)
    IN [i \in 1 .. n |-> IF i <= Len(bytes) THEN bytes[i] ELSE fill[i]]

\* serialize_to(output, value): the size pass, output.resize(size) (zero
\* filled), then the write pass from output.data().
serialize_to(s, v) == WritePass(s, v, SizeOf(s, v), [i \in 1 .. SizeOf(s, v) |-> 0])

\* Fault variant: leftover bytes are not checked.
deserialize_buffer_untrimmed(s, b) == Decode(s, b)

\* deserialize_buffer(data, value), and its overload for a Buffer *:
\* decode, then throw DataFormatError if bytes are left over.
deserialize_buffer(s, b) ==
    LET x == Decode(s, b) IN
    IF x.status = "ok" /\ x.rest # <<>> THEN Fail ELSE x

\* deserialize_buffer_part: decode, and return what is left of the buffer.
deserialize_buffer_part(s, b) == Decode(s, b)

CONSTANTS
    Schemas,    \* the types serialized
    MaxLen,     \* longest string, container or map serialized
    MaxInput,   \* longest buffer handed to deserialize_buffer from elsewhere
    Slack       \* spare bytes of a caller's buffer past what is written

\* The values of each type the round trip is tried on.
RECURSIVE ValuesOf(_), FieldValues(_)

\* The tuples whose i-th value is a value of the i-th schema.
FieldValues(ss) ==
    IF ss = <<>> THEN {<<>>}
    ELSE {<<x>> \o r : x \in ValuesOf(Head(ss)), r \in FieldValues(Tail(ss))}

ValuesOf(s) ==
    CASE s.kind = "trivial"  -> {0, 1, Base ^ s.size - 1}
      [] s.kind = "string"   -> BoundedSeq({0, Base - 1}, MaxLen)
      [] s.kind = "view"     -> BoundedSeq({0, Base ^ s.size - 1}, MaxLen)
      [] s.kind = "optional" -> {<<>>} \cup {<<x>> : x \in ValuesOf(s.of)}
      [] s.kind = "pair"     -> ValuesOf(s.first) \X ValuesOf(s.second)
      [] s.kind = "vector"   -> BoundedSeq(ValuesOf(s.of), MaxLen)
      [] s.kind = "map"      -> {m \in SUBSET (ValuesOf(s.key) \X ValuesOf(s.value)) :
                                    Cardinality(m) <= MaxLen
                                    /\ \A e, f \in m : e[1] = f[1] => e = f}
      [] s.kind = "fields"   -> FieldValues(s.of)
      [] s.kind = "variant"  -> UNION {{<<i - 1, x>> : x \in ValuesOf(s.alts[i])} :
                                       i \in DOMAIN s.alts}

NoResult == Stop("none")

VARIABLES
    schema,   \* the type on both ends
    value,    \* the object the writer serializes
    data,     \* the buffer between writer and reader
    tail,     \* the bytes of data past those the writer wrote
    origin,   \* "none", "serialized", "view", "rejected" or "received"
    reader,   \* the entry point that read data: "none", "whole" or "part"
    result    \* what the reader made of data

vars == <<schema, value, data, tail, origin, reader, result>>

Init ==
    /\ schema \in Schemas
    /\ value \in ValuesOf(schema)
    /\ data = <<>> /\ tail = <<>>
    /\ origin = "none" /\ reader = "none"
    /\ result = NoResult

Written(w) ==
    /\ data' = w
    /\ origin' = "serialized"
    /\ tail' = <<>>

SerializeTo ==
    /\ origin = "none"
    /\ Written(serialize_to(schema, value))
    /\ UNCHANGED <<schema, value, reader, result>>

\* serialize_to_buffer(value): the size pass, makeBuffer(size), whose
\* bytes are uninitialized (any bytes), then the write pass.
SerializeToBuffer ==
    LET size == SizeOf(schema, value)
        n    == Len(Encode(schema, value))
    IN /\ origin = "none"
       /\ \E fill \in [n + 1 .. size -> Bytes] :
             Written(WritePass(schema, value, size, fill))
       /\ UNCHANGED <<schema, value, reader, result>>

\* serialize_to_string_view(buffer, value) into a caller's buffer that is
\* one byte short, just long enough, or up to Slack bytes longer: too
\* short throws DataFormatError before anything is written; otherwise the
\* write pass fills its front and its spare bytes (old) keep whatever
\* they held.  The front's old bytes are all overwritten; 0 stands for
\* them.
SerializeToStringView ==
    LET size == SizeOf(schema, value) IN
    /\ origin = "none"
    /\ \E extra \in -1 .. Slack :
         IF extra < 0
         THEN /\ origin' = "rejected"
              /\ UNCHANGED <<data, tail>>
         ELSE \E old \in [1 .. extra -> Bytes] :
                LET w == WritePass(schema, value, size + extra,
                                   [i \in 1 .. size + extra |-> IF i > size THEN old[i - size] ELSE 0])
                IN /\ data' = w
                   /\ tail' = old
                   /\ origin' = "view"
    /\ UNCHANGED <<schema, value, reader, result>>

\* The reader is handed a buffer from elsewhere: any bytes at all.
Receive ==
    /\ origin = "none"
    /\ data' \in BoundedSeq(Bytes, MaxInput)
    /\ origin' = "received"
    /\ UNCHANGED <<schema, value, tail, reader, result>>

DeserializeBuffer ==
    /\ origin \in {"serialized", "view", "received"} /\ reader = "none"
    /\ result' = deserialize_buffer(schema, data)
    /\ reader' = "whole"
    /\ UNCHANGED <<schema, value, data, tail, origin>>

DeserializeBufferPart ==
    /\ origin \in {"serialized", "view", "received"} /\ reader = "none"
    /\ result' = deserialize_buffer_part(schema, data)
    /\ reader' = "part"
    /\ UNCHANGED <<schema, value, data, tail, origin>>

Next ==
    \/ SerializeTo \/ SerializeToBuffer \/ SerializeToStringView \/ Receive
    \/ DeserializeBuffer \/ DeserializeBufferPart

Spec == Init /\ [][Next]_vars

-----------------------------------------------------------------------------

TypeOK ==
    /\ data \in Seq(Bytes) /\ tail \in Seq(Bytes)
    /\ reader \in {"none", "whole", "part"}
    /\ result.status \in {"none", "ok", "error", "overread", "invalid_bool"}

\* What an entry point writes, the matching reader reads back as the same
\* value: deserialize_buffer leaves no byte over (and throws when a
\* string_view target had spare bytes), deserialize_buffer_part returns
\* exactly the bytes past the written ones.  Length prefixes, element
\* order, the optional's flag, each map entry and each variant's index
\* line up between the two walks.
RoundTrip ==
    origin \in {"serialized", "view"} /\ reader # "none" =>
        result = IF reader = "whole" /\ tail # <<>> THEN Fail ELSE Ok(value, tail)

\* Whatever bytes deserialize_buffer is given, it either decodes them or
\* throws DataFormatError: it never reads past the end of the buffer and
\* never loads a bool from a byte that is neither 0 nor 1.
NoUndefinedRead == result.status \notin {"overread", "invalid_bool"}

RECURSIVE HasMap(_)
HasMap(s) ==
    CASE s.kind = "map"      -> TRUE
      [] s.kind \in {"optional", "vector"} -> HasMap(s.of)
      [] s.kind = "pair"     -> HasMap(s.first) \/ HasMap(s.second)
      [] s.kind = "fields"   -> \E i \in DOMAIN s.of : HasMap(s.of[i])
      [] s.kind = "variant"  -> \E i \in DOMAIN s.alts : HasMap(s.alts[i])
      [] OTHER               -> FALSE

\* A buffer from elsewhere is accepted only if it is what the writer
\* would have produced: the value decoded, encoded again, gives back the
\* bytes consumed, and deserialize_buffer consumed them all.  So a
\* corrupted length, flag or index is rejected with DataFormatError rather
\* than decoded into something else.  Maps are exempt: the writer emits
\* entries in its own iteration order, which the reader cannot know.
AcceptsOnlyEncodings ==
    origin = "received" /\ result.status = "ok" /\ ~HasMap(schema) =>
        Encode(schema, result.value) \o (IF reader = "part" THEN result.rest ELSE <<>>) = data

=============================================================================

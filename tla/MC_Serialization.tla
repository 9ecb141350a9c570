-------------------------- MODULE MC_Serialization --------------------------
EXTENDS Serialization

U8      == [kind |-> "trivial", size |-> 1]
U16     == [kind |-> "trivial", size |-> 2]
Str     == [kind |-> "string"]
VecU16  == [kind |-> "view", size |-> 2]
VecU8   == [kind |-> "view", size |-> 1]
OptU8   == [kind |-> "optional", of |-> U8]
PairU8S == [kind |-> "pair", first |-> U8, second |-> Str]
VecStr  == [kind |-> "vector", of |-> Str]
MapU8   == [kind |-> "map", key |-> U8, value |-> U16]
TupU8x3 == [kind |-> "fields", of |-> <<U8, U8, U8>>]

\* The example's TestData {int id; std::string name; double value;},
\* whose serialize member calls x(id, name, value); int and double are
\* trivial types, scaled to one byte here.
TestData == [kind |-> "fields", of |-> <<U8, Str, U8>>]

\* std::variant<uint8_t, std::string>.
VarU8S  == [kind |-> "variant", alts |-> <<U8, Str>>]

\* Types whose decoding is checked against every buffer.
Codecs == {U8, U16, Str, VecU8, PairU8S, VecStr, MapU8, TupU8x3, TestData}

\* std::vector<uint16_t>: read through basic_string_view<uint16_t>.
WideCodecs == {VecU16}

VariantCodecs == {VarU8S}

\* std::optional<uint8_t>: its flag is a bool.
OptionalCodecs == {OptU8}

=============================================================================

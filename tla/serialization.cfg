\* Bytes of 2 bits and a 2-byte size_t (sizes wrap at 16); strings,
\* containers and maps of up to 2 entries; every buffer of up to 4 bytes.
CONSTANTS
    Base = 4
    SizeBytes = 2
    MaxLen = 2
    MaxInput = 4
    Slack = 1
    Schemas <- Codecs
SPECIFICATION Spec
\* deserialize_buffer is the last call of a round trip.
CHECK_DEADLOCK FALSE
INVARIANTS TypeOK RoundTrip NoUndefinedRead AcceptsOnlyEncodings

\* std::optional<uint8_t>, whose flag is read as a bool, from every buffer of up to 4 bytes.
CONSTANTS
    Base = 4
    SizeBytes = 2
    MaxLen = 2
    MaxInput = 4
    Slack = 1
    Schemas <- OptionalCodecs
SPECIFICATION Spec
CHECK_DEADLOCK FALSE
INVARIANT NoUndefinedRead

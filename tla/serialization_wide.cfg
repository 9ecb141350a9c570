\* std::vector<uint16_t>, read back through basic_string_view<uint16_t>, from every buffer of up to 4 bytes.
CONSTANTS
    Base = 4
    SizeBytes = 2
    MaxLen = 2
    MaxInput = 4
    Slack = 1
    Schemas <- WideCodecs
SPECIFICATION Spec
CHECK_DEADLOCK FALSE
INVARIANT NoUndefinedRead

\* std::variant<uint8_t, std::string>, whose size_t index is read from every buffer of up to 4 bytes.
CONSTANTS
    Base = 4
    SizeBytes = 2
    MaxLen = 2
    MaxInput = 4
    Slack = 1
    Schemas <- VariantCodecs
SPECIFICATION Spec
CHECK_DEADLOCK FALSE
INVARIANT AcceptsOnlyEncodings

\* the swap and savings store codecs, with 15-bit words and 8-bit int32
CONSTANTS
    WordBits = 15
    Int32Bits = 8
    Strings <- MCStrings
    Payloads <- MCPayloads
    MaxRepeat = 2
    FuzzBytes <- MCFuzzBytes
    MaxFuzzLen = 4
    UnknownFields <- MCUnknownFields
SPECIFICATION Spec
INVARIANTS
    MarshalIsCanonical
    RoundTrip
    SkipsUnknownFields
    NeverPanics

CONSTANTS
    Half = 16384
    Group = 128
    FieldHalf = 32
    Schema <- DistroSchema
    Inputs <- MCInputs
    Roots <- MCRoots
    Messages <- MCMessages
    None = None
SPECIFICATION CodecSpec
INVARIANTS
    InBounds
    RoundTrip
PROPERTIES
    Decided
CHECK_DEADLOCK FALSE

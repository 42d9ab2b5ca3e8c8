CONSTANTS
    Lengths = {5, 20}
    IsLittleEndian = TRUE
SPECIFICATION Spec
INVARIANT HelloAckAgrees

CONSTANTS
    Lengths = {0, 5, 20, 100, 1023, 1024, 1025, 20480, 20481}
    IsLittleEndian = TRUE
SPECIFICATION Spec
INVARIANTS TypeOK FieldsArrive TextsEnd
CHECK_DEADLOCK FALSE

SPECIFICATION Spec
CONSTANT MaxLen = 8
CHECK_DEADLOCK FALSE
INVARIANT TypeOK
INVARIANT ParsesInOnePass
INVARIANT RoundTrip

SPECIFICATION StreamSpec
CONSTANTS
    StreamId = {s1, s2}
    Texts <- WideText
INVARIANT NeverTorn
CHECK_DEADLOCK FALSE

CONSTANTS
    N = 4
    MaxTokenSids = 3
    Cases <- MCUnseenCases
SPECIFICATION Spec
INVARIANT TrustedTokenIsWhole
CHECK_DEADLOCK FALSE

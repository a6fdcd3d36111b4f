SPECIFICATION Spec
CONSTANTS
    Calls = {c1, c2}
    Limits = {2}
    MaxLimit = 2
    Spacing = 2
    Backoff <- NoRetry
PROPERTY MinimumSpacing

SPECIFICATION Spec
CONSTANTS
    Readers = {r1}
    Words = {w1, w2}
    MaxRetry = 3
    MaxWrites = 6
    MaxCrashes = 1
    MaxResets = 0
INVARIANT
    CrashNeverTears

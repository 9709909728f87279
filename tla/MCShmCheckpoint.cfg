SPECIFICATION FairSpec
CONSTANTS
    Readers = {r1}
    Words = {w1, w2}
    MaxRetry = 3
    MaxWrites = 4
    MaxCrashes = 1
    MaxResets = 1
INVARIANTS
    TypeOK
    ReadUntorn
    ReadFresh
    ReadFailsOnlyWhenOvertaken
PROPERTY
    ReadTerminates
